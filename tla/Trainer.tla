------------------------------- MODULE Trainer -------------------------------
(***************************************************************************)
(* The training process of trm_omega: Trainer::train and train_epoch       *)
(* (src/train/trainer.rs), the pending gradients of MultiGroupOptimizer    *)
(* (src/train/optimizer.rs) and the checkpoints of src/train/checkpoint.rs,*)
(* across processes that are started, resumed from a tag, and crash.       *)
(*                                                                         *)
(* One process runs at a time.  What outlives it is the directory `disk`.  *)
(* Tensors are abstracted to what has been trained into them: `weights`    *)
(* counts the optimizer steps and, per epoch, the micro-batches whose      *)
(* gradients reached the parameters.                                       *)
(***************************************************************************)
EXTENDS Integers, Sequences

CONSTANTS
  MicroBatches,      \* micro-batches the data loader delivers in one epoch
  MicroBatchSize,    \* config.micro_batch_size
  MaxEpochs,         \* config.max_epochs
  SaveEvery,         \* config.save_every_epochs
  DefaultBatchSize,  \* TrainingMeta::default().current_batch_size
  Args,              \* command lines: [batch_size, max_steps, eval_every]; an Option is a set
  Accuracies,        \* results evaluate() can return, as integers
  MaxProcesses       \* bound: how many times the binary is started

ASSUME TrainerAssumption ==
  /\ MicroBatches \in Nat \ {0}
  /\ MicroBatchSize \in Nat \ {0}
  /\ MaxEpochs \in Nat
  /\ SaveEvery \in Nat \ {0}
  /\ DefaultBatchSize \in Nat
  /\ Args \subseteq [batch_size : Nat, max_steps : SUBSET Nat, eval_every : Nat \ {0}]
  /\ Accuracies \subseteq Nat
  /\ MaxProcesses \in Nat

VARIABLES
  pc,                  \* where the process is; "stopped" when none runs
  outcome,             \* how the last process ended
  args,                \* the command line of the process
  epoch,               \* loop variable of train()
  meta,                \* self.meta
  current_batch_size,  \* self.current_batch_size
  weights,             \* what the parameters have been trained on
  ema,                 \* optimizer steps the EMA shadows reflect
  pending,             \* optimizer.pending: micro-batches folded per epoch
  step_count,          \* micro-batches received in this epoch
  saving,              \* the save_checkpoint call in progress
  disk,                \* tag -> the three files of the checkpoint
  saves,               \* history: save_checkpoint calls started
  processes,           \* history: processes started
  origin               \* history: global_step, best_val_acc and dropped
                       \* gradients at the start of this process

process == <<args, epoch, current_batch_size, origin>>
trained == <<weights, ema, pending, step_count>>
storage == <<disk, saving, saves>>
vars == <<pc, outcome, args, epoch, meta, current_batch_size, weights, ema,
          pending, step_count, saving, disk, saves, processes, origin>>

-----------------------------------------------------------------------------
Epochs == 0 .. MaxEpochs - 1

Best        == <<"best", 0>>
Final       == <<"final", 0>>
EpochTag(e) == <<"epoch", e>>
Tags        == {Best, Final} \cup {EpochTag(e) : e \in 1 .. MaxEpochs}

Meta == [epoch : Nat, global_step : Nat, best_val_acc : Nat, current_batch_size : Nat]

(* steps: optimizer steps applied.  visited[e]: micro-batches of epoch e     *)
(* that were backpropagated on the way to these weights; seen[e]: those      *)
(* whose gradients were applied.  batch: the batch size of the last trainer. *)
(* clean: no checkpoint on the way mixed the files of different saves.       *)
Weights == [steps : Nat, visited : [Epochs -> Nat], seen : [Epochs -> Nat],
            batch : Nat, clean : BOOLEAN]

(* A file is absent, torn (truncated and not yet completely written), or     *)
(* whole and then carries the save that wrote it.                            *)
NoFile == [state |-> "absent"]
Torn   == [state |-> "torn"]
Whole(id, data) == [state |-> "whole", id |-> id, data |-> data]
FileOf(S) == {NoFile, Torn} \cup [state : {"whole"}, id : Nat, data : S]

(* save_checkpoint writes three files, in this order.                        *)
Parts == {"model", "ema", "meta"}
MetaFirst == <<"meta", "model", "ema">>                \* mutants of SaveOrder
MetaTwice == <<"model", "ema", "meta", "meta">>
SaveOrder == <<"model", "ema", "meta">>
Checkpoint == [model : FileOf(Weights), ema : FileOf(Nat), meta : FileOf(Meta)]

Saving == [tag : Tags, file : 0 .. 3, open : BOOLEAN,
           ret : {"periodic", "check", "stopped"}]
NotSaving == [tag |-> Final, file |-> 0, open |-> FALSE, ret |-> "stopped"]

IsWhole(f)  == f.state = "whole"
OneSave(c)  == /\ IsWhole(c.model) /\ IsWhole(c.ema) /\ IsWhole(c.meta)
               /\ c.model.id = c.ema.id /\ c.ema.id = c.meta.id

(* load_checkpoint insists on the weights and the meta; the EMA file may be  *)
(* missing, but what is there has to parse.                                  *)
Loadable(c) == IsWhole(c.model) /\ IsWhole(c.meta) /\ c.ema # Torn

Running == pc # "stopped"
-----------------------------------------------------------------------------
Zero == [e \in Epochs |-> 0]

(* (current_batch_size + micro - 1) / micro.max(1)                          *)
AccumSteps == (current_batch_size + MicroBatchSize - 1) \div MicroBatchSize

(* Trainer::hit_max_steps                                                   *)
PastMaxSteps(global_step) == \E m \in args.max_steps : global_step > m  \* mutant
HitMaxSteps(global_step) == \E m \in args.max_steps : global_step >= m

Exit(how) ==
  /\ pc' = "stopped"
  /\ outcome' = how
  /\ saving' = NotSaving

-----------------------------------------------------------------------------
(* What load_checkpoint restores of the meta file, and the epoch train()    *)
(* starts at.                                                               *)
ForgottenStep(c) == [c.meta.data EXCEPT !.global_step = 0]   \* mutant of RestoredMeta
RestoredMeta(c) == c.meta.data

EpochAfter(m) == m.epoch + 1                                 \* mutant of StartEpoch
StartEpoch(m) == m.epoch

(* main() without --resume: Trainer::new and TrainingMeta::default.         *)
StartFresh(a) ==
  /\ pc = "stopped" /\ processes < MaxProcesses
  /\ pc' = "load_data"
  /\ outcome' = "none"
  /\ args' = a
  /\ meta' = [epoch |-> 0, global_step |-> 0, best_val_acc |-> 0,
              current_batch_size |-> DefaultBatchSize]
  /\ current_batch_size' = a.batch_size
  /\ weights' = [steps |-> 0, visited |-> Zero, seen |-> Zero,
                 batch |-> a.batch_size, clean |-> TRUE]
  /\ ema' = 0
  /\ origin' = [global_step |-> 0, best_val_acc |-> 0, dropped |-> Zero]
  /\ pending' = Zero
  /\ step_count' = 0
  /\ epoch' = 0
  /\ processes' = processes + 1
  /\ UNCHANGED storage

(* main() with --resume: Trainer::resume, load_checkpoint.  The pending     *)
(* gradients of the process that saved are not in the checkpoint.           *)
StartResumed(a, t) ==
  LET c == disk[t]
      w == c.model.data
      m == RestoredMeta(c)
  IN
  /\ pc = "stopped" /\ processes < MaxProcesses
  /\ Loadable(c)
  /\ pc' = "load_data"
  /\ outcome' = "none"
  /\ args' = a
  /\ meta' = m
  /\ current_batch_size' = m.current_batch_size
  /\ weights' = [steps |-> w.steps, visited |-> w.visited, seen |-> w.seen,
                 batch |-> m.current_batch_size, clean |-> w.clean /\ OneSave(c)]
  /\ ema' = IF IsWhole(c.ema) THEN c.ema.data ELSE 0
  /\ origin' = [global_step |-> m.global_step, best_val_acc |-> m.best_val_acc,
                dropped |-> [e \in Epochs |-> w.visited[e] - w.seen[e]]]
  /\ pending' = Zero
  /\ step_count' = 0
  /\ epoch' = StartEpoch(m)
  /\ processes' = processes + 1
  /\ UNCHANGED storage

(* load_checkpoint returns an error: a file is missing or does not parse.   *)
ResumeFails(a, t) ==
  /\ pc = "stopped" /\ processes < MaxProcesses
  /\ ~ Loadable(disk[t])
  /\ outcome' = "error"
  /\ args' = a
  /\ processes' = processes + 1
  /\ UNCHANGED <<pc, epoch, meta, current_batch_size, trained, storage, origin>>

(* load_data, and the bail! on an empty training set.                       *)
LoadData ==
  /\ pc = "load_data"
  /\ \/ /\ pc' = "loop"
        /\ UNCHANGED <<outcome, saving>>
     \/ Exit("error")
  /\ UNCHANGED <<process, meta, trained, disk, saves, processes>>

(* The head of `for epoch in start_epoch..max_epochs`, and the start of     *)
(* train_epoch: a new loader, fresh counters, the pending gradients kept.   *)
EnterEpoch ==
  /\ pc = "loop" /\ epoch < MaxEpochs
  /\ pc' = "recv"
  /\ meta' = [meta EXCEPT !.epoch = epoch]
  /\ step_count' = 0
  /\ UNCHANGED <<outcome, process, weights, ema, pending, storage, processes>>

(* One turn of `while let Ok(msg) = rx.recv()`: process_batch folds the     *)
(* gradients of a micro-batch, and every AccumSteps of them the optimizer   *)
(* steps, zeroes the gradients, and the EMA follows.                        *)
OnlyLast == [Zero EXCEPT ![epoch] = 1]     \* mutant of Folded
Folded  == [pending EXCEPT ![epoch] = @ + 1]
Visited == [weights.visited EXCEPT ![epoch] = @ + 1]

TrainMicroBatch ==
  /\ pc = "recv" /\ step_count < MicroBatches
  /\ AccumSteps # 0
  /\ step_count' = step_count + 1
  /\ IF (step_count + 1) % AccumSteps = 0
     THEN /\ weights' = [steps   |-> weights.steps + 1,
                         visited |-> Visited,
                         seen    |-> [e \in Epochs |-> weights.seen[e] + Folded[e]],
                         batch   |-> weights.batch,
                         clean   |-> weights.clean]
          /\ pending' = Zero
          /\ ema' = weights.steps + 1
          /\ meta' = [meta EXCEPT !.global_step = @ + 1]
          /\ pc' = IF HitMaxSteps(meta.global_step + 1) THEN "eval" ELSE "recv"
     ELSE /\ weights' = [weights EXCEPT !.visited = Visited]
          /\ pending' = Folded
          /\ UNCHANGED <<ema, meta, pc>>
  /\ UNCHANGED <<outcome, process, storage, processes>>

(* process_batch or the optimizer returns an error, or batch_size is 0 and  *)
(* `step_count % accum_steps` panics.  What was in memory is gone.          *)
TrainMicroBatchFails ==
  /\ pc = "recv" /\ step_count < MicroBatches
  /\ Exit("error")
  /\ UNCHANGED <<process, meta, trained, disk, saves, processes>>

(* rx.recv() fails: the loader has sent everything and hung up.             *)
(* Mutants of EpochDrained: leaving once a batch is full; a sender is kept. *)
BatchFull ==
  /\ pc = "recv" /\ step_count >= AccumSteps
  /\ pc' = "eval"
  /\ UNCHANGED <<outcome, process, meta, trained, storage, processes>>

NeverDrained ==
  /\ pc = "recv" /\ step_count > MicroBatches
  /\ pc' = "eval"
  /\ UNCHANGED <<outcome, process, meta, trained, storage, processes>>

EpochDrained ==
  /\ pc = "recv" /\ step_count = MicroBatches
  /\ pc' = "eval"
  /\ UNCHANGED <<outcome, process, meta, trained, storage, processes>>
-----------------------------------------------------------------------------
(* save_checkpoint(tag): three files, one after the other, no rename.       *)
BeginSave(t, ret) ==
  /\ pc' = "save"
  /\ saving' = [tag |-> t, file |-> 1, open |-> FALSE, ret |-> ret]
  /\ saves' = saves + 1

EvalDue == (epoch + 1) % args.eval_every = 0
SaveDue == (epoch + 1) % SaveEvery = 0

(* Mutant of Evaluate: the improvement is recorded and not saved.           *)
EvaluateOnly(acc) ==
  /\ pc = "eval" /\ EvalDue
  /\ meta' = IF acc > meta.best_val_acc THEN [meta EXCEPT !.best_val_acc = acc] ELSE meta
  /\ pc' = "periodic"
  /\ UNCHANGED <<outcome, process, trained, storage, processes>>

(* The evaluation of the epoch, and the "best" checkpoint if it improved.   *)
(* What evaluate() computes, and whether it returns, is left open.          *)
Evaluate(acc) ==
  /\ pc = "eval" /\ EvalDue
  /\ IF acc > meta.best_val_acc
     THEN /\ meta' = [meta EXCEPT !.best_val_acc = acc]
          /\ BeginSave(Best, "periodic")
     ELSE /\ pc' = "periodic"
          /\ UNCHANGED <<meta, saving, saves>>
  /\ UNCHANGED <<outcome, process, trained, disk, processes>>

EvaluateFails ==
  /\ pc = "eval" /\ EvalDue
  /\ Exit("error")
  /\ UNCHANGED <<process, meta, trained, disk, saves, processes>>

SkipEvaluate ==
  /\ pc = "eval" /\ ~ EvalDue
  /\ pc' = "periodic"
  /\ UNCHANGED <<outcome, process, meta, trained, storage, processes>>

(* The periodic checkpoint, the only place that stores the batch size.      *)
Unstamped == meta                          \* mutant of Stamped
Stamped == [meta EXCEPT !.current_batch_size = current_batch_size]

SavePeriodic ==
  /\ pc = "periodic"
  /\ IF SaveDue
     THEN /\ meta' = Stamped
          /\ BeginSave(EpochTag(epoch + 1), "check")
     ELSE /\ pc' = "check"
          /\ UNCHANGED <<meta, saving, saves>>
  /\ UNCHANGED <<outcome, process, trained, disk, processes>>

(* `if self.hit_max_steps() { break }`, else the next epoch.                *)
NextEpoch ==
  /\ pc = "check" /\ ~ HitMaxSteps(meta.global_step)
  /\ pc' = "loop"
  /\ epoch' = epoch + 1
  /\ UNCHANGED <<outcome, args, meta, current_batch_size, trained, storage,
                 processes, origin>>

(* Mutant of SaveFinal: the last state goes to "best".                      *)
SaveFinalAsBest ==
  /\ \/ pc = "check" /\ HitMaxSteps(meta.global_step)
     \/ pc = "loop" /\ epoch >= MaxEpochs
  /\ BeginSave(Best, "stopped")
  /\ UNCHANGED <<outcome, process, meta, trained, disk, processes>>

(* After the loop: the "final" checkpoint.                                  *)
SaveFinal ==
  /\ \/ pc = "check" /\ HitMaxSteps(meta.global_step)
     \/ pc = "loop" /\ epoch >= MaxEpochs
  /\ BeginSave(Final, "stopped")
  /\ UNCHANGED <<outcome, process, meta, trained, disk, processes>>

(* Checkpoint c with one of its files replaced.                             *)
Put(c, part, f) ==
  [model |-> IF part = "model" THEN f ELSE c.model,
   ema   |-> IF part = "ema"   THEN f ELSE c.ema,
   meta  |-> IF part = "meta"  THEN f ELSE c.meta]

(* Creating a file truncates the one that was there ...                     *)
OpenFile ==
  /\ pc = "save" /\ ~ saving.open
  /\ saving' = [saving EXCEPT !.open = TRUE]
  /\ disk' = [disk EXCEPT ![saving.tag] = Put(@, SaveOrder[saving.file], Torn)]
  /\ UNCHANGED <<pc, outcome, process, meta, trained, saves, processes>>

(* ... and the write completes it.  After the last file save_checkpoint     *)
(* returns to where train() called it.                                      *)
Content(part) ==
  CASE part = "model" -> Whole(saves, weights)
    [] part = "ema"   -> Whole(saves, ema)
    [] part = "meta"  -> Whole(saves, meta)

CloseFile ==
  /\ pc = "save" /\ saving.open
  /\ LET part == SaveOrder[saving.file]
     IN  disk' = [disk EXCEPT ![saving.tag] = Put(@, part, Content(part))]
  /\ \/ /\ saving.file < Len(SaveOrder)
        /\ saving' = [tag |-> saving.tag, file |-> saving.file + 1,
                      open |-> FALSE, ret |-> saving.ret]
        /\ UNCHANGED <<pc, outcome>>
     \/ /\ saving.file = Len(SaveOrder)
        /\ saving' = NotSaving
        /\ pc' = saving.ret
        /\ outcome' = IF saving.ret = "stopped" THEN "ok" ELSE outcome
  /\ UNCHANGED <<process, meta, trained, saves, processes>>

(* An I/O error in a save: train() returns it and the process exits.        *)
SaveFails ==
  /\ pc = "save"
  /\ Exit("error")
  /\ UNCHANGED <<process, meta, trained, disk, saves, processes>>

(* The process is killed, at any point.                                     *)
Crash ==
  /\ Running
  /\ Exit("crash")
  /\ UNCHANGED <<process, meta, trained, disk, saves, processes>>
-----------------------------------------------------------------------------
Init ==
  /\ pc = "stopped"
  /\ outcome = "none"
  /\ args \in Args
  /\ epoch = 0
  /\ meta = [epoch |-> 0, global_step |-> 0, best_val_acc |-> 0,
             current_batch_size |-> DefaultBatchSize]
  /\ current_batch_size = args.batch_size
  /\ weights = [steps |-> 0, visited |-> Zero, seen |-> Zero,
                batch |-> args.batch_size, clean |-> TRUE]
  /\ ema = 0
  /\ pending = Zero
  /\ step_count = 0
  /\ saving = NotSaving
  /\ disk = [t \in Tags |-> [model |-> NoFile, ema |-> NoFile, meta |-> NoFile]]
  /\ saves = 0
  /\ processes = 0
  /\ origin = [global_step |-> 0, best_val_acc |-> 0, dropped |-> Zero]

Start ==
  \E a \in Args :
    \/ StartFresh(a)
    \/ \E t \in Tags : StartResumed(a, t) \/ ResumeFails(a, t)

(* The steps of the process itself.                                         *)
TrainStep ==
  \/ LoadData \/ EnterEpoch \/ TrainMicroBatch \/ TrainMicroBatchFails
  \/ EpochDrained
  \/ \E acc \in Accuracies : Evaluate(acc)
  \/ EvaluateFails \/ SkipEvaluate \/ SavePeriodic \/ NextEpoch \/ SaveFinal
  \/ OpenFile \/ CloseFile \/ SaveFails

Next == Start \/ TrainStep \/ Crash

Spec == Init /\ [][Next]_vars
(* The operating system keeps scheduling a running process.                 *)
FairSpec == Spec /\ WF_vars(TrainStep)
-----------------------------------------------------------------------------
TypeOK ==
  /\ pc \in {"stopped", "load_data", "loop", "recv", "eval", "periodic",
             "check", "save"}
  /\ outcome \in {"none", "ok", "error", "crash"}
  /\ args \in Args
  /\ epoch \in Nat
  /\ meta \in Meta
  /\ current_batch_size \in Nat
  /\ weights \in Weights
  /\ ema \in Nat
  /\ pending \in [Epochs -> Nat]
  /\ step_count \in Nat
  /\ saving \in Saving
  /\ disk \in [Tags -> Checkpoint]
  /\ saves \in Nat
  /\ processes \in Nat
  /\ origin \in [global_step : Nat, best_val_acc : Nat, dropped : [Epochs -> Int]]

(* No gradient is lost or applied twice: of the micro-batches of an epoch   *)
(* that were backpropagated, each one is either in the parameters, or still *)
(* pending, or was pending when an earlier process saved and ended.  This   *)
(* holds although the accumulation of train_epoch is restarted with every   *)
(* epoch and the buffer of the optimizer is not.                            *)
GradientConservation ==
  \A e \in Epochs :
    weights.seen[e] + pending[e] + origin.dropped[e] = weights.visited[e]

(* global_step counts the optimizer steps that are in the weights, in       *)
(* memory and in each checkpoint whose files come from one save, through    *)
(* any number of resumes, unless a resume mixed the files of two saves.     *)
GlobalStepCountsWeights ==
  /\ weights.clean => meta.global_step = weights.steps
  /\ \A t \in Tags : LET c == disk[t] IN
       OneSave(c) /\ c.model.data.clean =>
         c.meta.data.global_step = c.model.data.steps

(* Resuming never skips an epoch: the epochs below meta.epoch have all been *)
(* backpropagated in full on the way to these weights.                      *)
NoEpochSkipped ==
  weights.clean => \A e \in Epochs :
    e < meta.epoch => weights.visited[e] >= MicroBatches

(* The step limit of a process is respected up to the one step that a       *)
(* process resumed at or above the limit takes before it looks.             *)
StepBudget ==
  Running => \A m \in args.max_steps :
    meta.global_step <= m \/ meta.global_step <= origin.global_step + 1

(* An interrupted save leaves the files of different saves under one tag,   *)
(* but only so that a file is never newer than one written before it, and   *)
(* none is there without those.  So a tag that can be loaded and whose meta *)
(* file is of the save of its weights is of one save, its averages too.     *)
FilesInOrder ==
  \A t \in Tags : LET c == disk[t] IN
    /\ c.meta # NoFile => c.ema # NoFile
    /\ c.ema # NoFile => c.model # NoFile
    /\ IsWhole(c.model) /\ IsWhole(c.ema) => c.model.id >= c.ema.id
    /\ IsWhole(c.ema) /\ IsWhole(c.meta) => c.ema.id >= c.meta.id
    /\ Loadable(c) /\ c.model.id = c.meta.id => OneSave(c)

(* A checkpoint of one save records the batch size its weights were last    *)
(* trained with, so that a resume keeps it.  "best" and "final" are saved   *)
(* without it: what they can record instead is the default, and only before *)
(* the first periodic save of a fresh process.                              *)
BeforeFirstPeriodic(t, m) ==
  \/ t = Best /\ m.epoch < SaveEvery
  \/ t = Final /\ (m.epoch + 1 < SaveEvery \/ MaxEpochs = 0)

RecordedBatchSize ==
  \A t \in Tags : LET c == disk[t]
                      m == c.meta.data IN
    OneSave(c) =>
      \/ m.current_batch_size = c.model.data.batch
      \/ m.current_batch_size = DefaultBatchSize /\ BeforeFirstPeriodic(t, m)

(* While a process is not writing it, "best" on disk is the evaluation      *)
(* this process last improved on, with the weights that reached it.         *)
BestTagHoldsBest ==
  /\ Running /\ meta.best_val_acc > origin.best_val_acc
  /\ saving.file = 0 \/ saving.tag # Best
  => /\ OneSave(disk[Best])
     /\ disk[Best].meta.data.best_val_acc = meta.best_val_acc

(* A process that ends well leaves a final checkpoint that resumes to       *)
(* exactly the weights, the EMA and the counters it ended with.             *)
FinalIsLastState ==
  outcome = "ok" => LET c == disk[Final] IN
    /\ OneSave(c)
    /\ c.model.data = weights /\ c.ema.data = ema /\ c.meta.data = meta

(* A process that ends well has reached its step limit, or the weights it   *)
(* leaves have been through every micro-batch of every epoch.               *)
StopsAtALimit ==
  outcome = "ok" /\ weights.clean =>
    \/ HitMaxSteps(meta.global_step)
    \/ \A e \in Epochs : weights.visited[e] >= MicroBatches

(* Every process that is started ends.                                      *)
EveryProcessEnds == Running ~> ~ Running

(* train/trainer.rs:82, bin/train.rs:68: "Stop after this many optimizer    *)
(* steps."                                                                  *)
StopAfterMaxSteps ==
  Running => \A m \in args.max_steps : meta.global_step <= m
=============================================================================
