------------------------------ MODULE TrainerMC ------------------------------
(***************************************************************************)
(* Small instances of Trainer for TLC.                                     *)
(***************************************************************************)
EXTENDS Trainer

(* Batches of two micro-batches without a limit of steps, evaluated every  *)
(* epoch, and of one micro-batch with a limit, evaluated every second one. *)
MCArgs == { [batch_size |-> 2, max_steps |-> {}, eval_every |-> 1],
            [batch_size |-> 1, max_steps |-> {2}, eval_every |-> 2] }
=============================================================================
