----------------------------- MODULE EpochStream -----------------------------
(***************************************************************************)
(* What train_epoch relies on when it reads the receiver it gets from      *)
(* AsyncDataLoader::start (src/train/trainer.rs): the micro-batches of the *)
(* epoch come one by one, the stream ends after the last one and not       *)
(* before, unless its source broke, and the reader may walk away after any *)
(* micro-batch.  Threads, the channel and the examples are not visible.    *)
(***************************************************************************)
EXTENDS Naturals

CONSTANTS
  MicroBatches,   \* micro-batches in one epoch
  MaxCalls        \* bound: calls of train_epoch

VARIABLES
  calls,          \* calls of train_epoch so far
  active,         \* is train_epoch reading?
  delivered,      \* micro-batches it has received in this call
  broken          \* has the source of this call's stream broken?

vars == <<calls, active, delivered, broken>>

Init == calls = 0 /\ active = FALSE /\ delivered = 0 /\ broken = FALSE

Begin ==
  /\ ~ active /\ calls < MaxCalls
  /\ calls' = calls + 1 /\ active' = TRUE /\ delivered' = 0 /\ broken' = FALSE

Deliver ==
  /\ active /\ delivered < MicroBatches
  /\ delivered' = delivered + 1
  /\ UNCHANGED <<calls, active, broken>>

End ==
  /\ active /\ delivered = MicroBatches
  /\ active' = FALSE
  /\ UNCHANGED <<calls, delivered, broken>>

Abandon ==
  /\ active /\ (delivered > 0 \/ broken)
  /\ active' = FALSE
  /\ UNCHANGED <<calls, delivered, broken>>

(* The last micro-batch has not been made yet.                              *)
Break ==
  /\ calls > 0 /\ ~ broken /\ delivered < MicroBatches
  /\ broken' = TRUE
  /\ UNCHANGED <<calls, active, delivered>>

Next == Begin \/ Deliver \/ End \/ Abandon \/ Break

Spec == Init /\ [][Next]_vars
FairSpec == Spec /\ WF_vars(Deliver \/ End \/ Abandon)
=============================================================================
