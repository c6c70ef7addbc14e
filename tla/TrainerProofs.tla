--------------------------- MODULE TrainerProofs ---------------------------
(***************************************************************************)
(* Theorems about Trainer, for every value of its constants: the type      *)
(* invariant, the conservation of gradients, the step budget, and what     *)
(* checkpoints hold.                                                       *)
(***************************************************************************)
EXTENDS Trainer, TLAPS

(* Where the loop variable is inside the range of the for loop, and which   *)
(* file a save is at.                                                       *)
ControlInv ==
  /\ pc \in {"recv", "eval", "periodic"} => epoch < MaxEpochs
  /\ pc = "save" => saving.file \in 1 .. 3
  /\ pc = "save" /\ saving.ret = "periodic" => epoch < MaxEpochs

(* Wherever another optimizer step may still be taken, the limit has not    *)
(* been reached, or this process has not taken a step yet.                  *)
LimitInv ==
  pc \in {"load_data", "loop", "recv"} => \A m \in args.max_steps :
    meta.global_step < m \/ meta.global_step = origin.global_step

TypeInv == TypeOK /\ ControlInv

-----------------------------------------------------------------------------
LEMMA ZeroType == Zero \in [Epochs -> Nat]
BY DEF Zero

LEMMA TagsType ==
  /\ Best \in Tags /\ Final \in Tags
  /\ \A e \in Nat : e < MaxEpochs => EpochTag(e + 1) \in Tags
<1>1. \A e \in Nat : e < MaxEpochs => e + 1 \in 1 .. MaxEpochs
  BY TrainerAssumption
<1> QED
  BY <1>1 DEF Tags

LEMMA SaveOrderType ==
  /\ Len(SaveOrder) = 3
  /\ \A i \in 1 .. 3 : SaveOrder[i] \in Parts
BY DEF SaveOrder, Parts

LEMMA NotSavingType ==
  NotSaving \in Saving
BY TagsType DEF NotSaving, Saving

LEMMA BeginSaveType ==
  ASSUME NEW t \in Tags, NEW ret \in {"periodic", "check", "stopped"},
         saves \in Nat, BeginSave(t, ret)
  PROVE  /\ pc' = "save" /\ saves' \in Nat
         /\ saving' \in Saving /\ saving'.file = 1 /\ saving'.ret = ret
BY DEF BeginSave, Saving

(* The initial values of the counters have their types.                     *)
LEMMA FreshType ==
  ASSUME NEW a \in Args
  PROVE  /\ a.batch_size \in Nat
         /\ a.max_steps \in SUBSET Nat
         /\ [epoch |-> 0, global_step |-> 0, best_val_acc |-> 0,
             current_batch_size |-> DefaultBatchSize] \in Meta
         /\ [steps |-> 0, visited |-> Zero, seen |-> Zero,
             batch |-> a.batch_size, clean |-> TRUE] \in Weights
         /\ [global_step |-> 0, best_val_acc |-> 0, dropped |-> Zero]
              \in [global_step : Nat, best_val_acc : Nat, dropped : [Epochs -> Int]]
<1>1. a \in [batch_size : Nat, max_steps : SUBSET Nat, eval_every : Nat \ {0}]
  BY TrainerAssumption
<1>2. Zero \in [Epochs -> Int]
  BY DEF Zero
<1> QED
  BY <1>1, <1>2, ZeroType, TrainerAssumption DEF Meta, Weights

LEMMA InitTypeInv == Init => TypeInv
<1> SUFFICES ASSUME Init PROVE TypeInv
  OBVIOUS
<1>1. args \in Args
  BY DEF Init
<1>2. disk \in [Tags -> Checkpoint]
  BY DEF Init, Checkpoint, FileOf
<1>3. TypeOK
  BY <1>1, <1>2, FreshType, ZeroType, NotSavingType DEF Init, TypeOK
<1>4. ControlInv
  BY DEF Init, ControlInv
<1> QED
  BY <1>3, <1>4 DEF TypeInv

(* Ending the process keeps the types.                                      *)
LEMMA ExitType ==
  ASSUME TypeInv, NEW how \in {"ok", "error", "crash"}, Exit(how),
         UNCHANGED <<process, meta, trained, disk, saves, processes>>
  PROVE  TypeInv'
<1>1. TypeOK'
  BY NotSavingType DEF TypeInv, TypeOK, Exit, process, trained
<1>2. ControlInv'
  BY DEF Exit, ControlInv
<1> QED
  BY <1>1, <1>2 DEF TypeInv

LEMMA StartType ==
  ASSUME TypeInv, Start
  PROVE  TypeInv'
<1> USE DEF TypeInv
<1>1. ASSUME NEW a \in Args, StartFresh(a) PROVE TypeInv'
  <2>1. TypeOK'
    BY <1>1, FreshType, ZeroType DEF StartFresh, TypeOK, storage
  <2>2. ControlInv'
    BY <1>1 DEF StartFresh, ControlInv
  <2> QED
    BY <2>1, <2>2
<1>2. ASSUME NEW a \in Args, NEW t \in Tags, StartResumed(a, t) PROVE TypeInv'
  <2> DEFINE c == disk[t]
  <2>1. c \in Checkpoint /\ IsWhole(c.model) /\ IsWhole(c.meta)
    BY <1>2 DEF StartResumed, TypeOK, Loadable
  <2>2. c.model.data \in Weights
    BY <2>1 DEF Checkpoint, FileOf, IsWhole, NoFile, Torn
  <2>3. c.meta.data \in Meta
    BY <2>1 DEF Checkpoint, FileOf, IsWhole, NoFile, Torn
  <2>4. IsWhole(c.ema) => c.ema.data \in Nat
    BY <2>1 DEF Checkpoint, FileOf, IsWhole, NoFile, Torn
  <2> HIDE DEF c
  <2>5. weights' \in Weights
    <3>1. weights' = [steps   |-> c.model.data.steps,
                      visited |-> c.model.data.visited,
                      seen    |-> c.model.data.seen,
                      batch   |-> c.meta.data.current_batch_size,
                      clean   |-> c.model.data.clean /\ OneSave(c)]
      BY <1>2 DEF StartResumed, RestoredMeta, c
    <3>2. (c.model.data.clean /\ OneSave(c)) \in BOOLEAN
      OBVIOUS
    <3> QED
      BY <2>2, <2>3, <3>1, <3>2 DEF Weights, Meta
  <2>6. ema' \in Nat
    BY <1>2, <2>4 DEF StartResumed, c
  <2>7. origin' \in [global_step : Nat, best_val_acc : Nat, dropped : [Epochs -> Int]]
    <3>1. \A e \in Epochs : c.model.data.visited[e] - c.model.data.seen[e] \in Int
      BY <2>2 DEF Weights
    <3> QED
      BY <1>2, <2>3, <3>1 DEF StartResumed, RestoredMeta, StartEpoch, Meta, c
  <2>8. meta' \in Meta /\ current_batch_size' \in Nat /\ epoch' \in Nat
    BY <1>2, <2>3 DEF StartResumed, RestoredMeta, StartEpoch, Meta, c
  <2>9. TypeOK'
    BY <1>2, <2>5, <2>6, <2>7, <2>8, ZeroType DEF StartResumed, TypeOK, storage
  <2>10. ControlInv'
    BY <1>2 DEF StartResumed, ControlInv
  <2> QED
    BY <2>9, <2>10
<1>3. ASSUME NEW a \in Args, NEW t \in Tags, ResumeFails(a, t) PROVE TypeInv'
  BY <1>3 DEF ResumeFails, TypeOK, ControlInv, trained, storage
<1> QED
  BY <1>1, <1>2, <1>3 DEF Start

(* The micro-batch loop: what is folded into the buffer and what a step     *)
(* moves from the buffer into the weights.                                  *)
LEMMA FoldedType ==
  ASSUME TypeInv, pc = "recv"
  PROVE  /\ epoch \in Epochs
         /\ Folded \in [Epochs -> Nat]
         /\ Visited \in [Epochs -> Nat]
         /\ \A e \in Epochs :
              Visited[e] - weights.visited[e] = Folded[e] - pending[e]
<1>1. epoch \in Epochs
  BY TrainerAssumption DEF TypeInv, TypeOK, ControlInv, Epochs
<1> DEFINE v == weights.visited
<1>2. v \in [Epochs -> Nat] /\ pending \in [Epochs -> Nat]
  BY DEF TypeInv, TypeOK, Weights
<1>3. Visited = [v EXCEPT ![epoch] = v[epoch] + 1]
  BY DEF Visited
<1> HIDE DEF v
<1>4. Folded \in [Epochs -> Nat] /\ Visited \in [Epochs -> Nat]
  BY <1>1, <1>2, <1>3 DEF Folded
<1>5. \A e \in Epochs : Visited[e] - v[e] = Folded[e] - pending[e]
  BY <1>1, <1>2, <1>3 DEF Folded
<1> QED
  BY <1>1, <1>4, <1>5 DEF v

LEMMA TrainMicroBatchType ==
  ASSUME TypeInv, TrainMicroBatch
  PROVE  TypeInv'
<1> USE DEF TypeInv
<1>1. pc = "recv"
  BY DEF TrainMicroBatch
<1>2. Folded \in [Epochs -> Nat] /\ Visited \in [Epochs -> Nat]
  BY <1>1, FoldedType
<1>3. step_count' \in Nat /\ UNCHANGED <<outcome, process, storage, processes>>
  BY DEF TrainMicroBatch, TypeOK
<1>4. pc' \in {"recv", "eval"}
  BY <1>1 DEF TrainMicroBatch
<1>5. CASE (step_count + 1) % AccumSteps = 0
  <2>1. weights' = [steps   |-> weights.steps + 1,
                    visited |-> Visited,
                    seen    |-> [e \in Epochs |-> weights.seen[e] + Folded[e]],
                    batch   |-> weights.batch,
                    clean   |-> weights.clean]
    BY <1>5 DEF TrainMicroBatch
  <2>2. [e \in Epochs |-> weights.seen[e] + Folded[e]] \in [Epochs -> Nat]
    BY <1>2 DEF TypeOK, Weights
  <2>3. weights' \in Weights
    BY <1>2, <2>1, <2>2 DEF TypeOK, Weights
  <2>4. pending' \in [Epochs -> Nat] /\ ema' \in Nat /\ meta' \in Meta
    BY <1>5, ZeroType DEF TrainMicroBatch, TypeOK, Weights, Meta
  <2>5. TypeOK'
    BY <1>3, <1>4, <2>3, <2>4 DEF TypeOK, process, storage
  <2> QED
    BY <1>1, <1>3, <1>4, <2>5 DEF ControlInv, process, storage
<1>6. CASE (step_count + 1) % AccumSteps # 0
  <2>1. weights' = [weights EXCEPT !.visited = Visited]
    BY <1>6 DEF TrainMicroBatch
  <2>2. weights' \in Weights
    BY <1>2, <2>1 DEF TypeOK, Weights
  <2>3. pending' \in [Epochs -> Nat] /\ UNCHANGED <<ema, meta, pc>>
    BY <1>2, <1>6 DEF TrainMicroBatch
  <2>4. TypeOK'
    BY <1>3, <2>2, <2>3 DEF TypeOK, process, storage
  <2> QED
    BY <1>3, <2>3, <2>4 DEF ControlInv, process, storage
<1> QED
  BY <1>5, <1>6

(* The steps of train() between the files it writes.                        *)
LEMMA LoopType ==
  ASSUME TypeInv,
         \/ EnterEpoch \/ EpochDrained \/ SkipEvaluate \/ NextEpoch
         \/ SaveFinal \/ SavePeriodic \/ \E acc \in Accuracies : Evaluate(acc)
  PROVE  TypeInv'
<1> USE DEF TypeInv
<1> USE TagsType
<1>1. CASE EnterEpoch
  BY <1>1 DEF EnterEpoch, TypeOK, ControlInv, Meta, process, storage
<1>2. CASE EpochDrained
  BY <1>2 DEF EpochDrained, TypeOK, ControlInv, process, trained, storage
<1>3. CASE SkipEvaluate
  BY <1>3 DEF SkipEvaluate, TypeOK, ControlInv, process, trained, storage
<1>4. CASE NextEpoch
  BY <1>4 DEF NextEpoch, TypeOK, ControlInv, trained, storage
<1>5. CASE SaveFinal
  BY <1>5, BeginSaveType DEF SaveFinal, TypeOK, ControlInv, process, trained
<1>6. CASE SavePeriodic
  <2>1. pc = "periodic" /\ epoch < MaxEpochs /\ EpochTag(epoch + 1) \in Tags
    BY <1>6 DEF SavePeriodic, TypeOK, ControlInv
  <2>2. meta' \in Meta
    BY <1>6 DEF SavePeriodic, Stamped, TypeOK, Meta
  <2>3. CASE SaveDue
    <3>1. BeginSave(EpochTag(epoch + 1), "check")
      BY <1>6, <2>3 DEF SavePeriodic
    <3> QED
      BY <1>6, <2>1, <2>2, <3>1, BeginSaveType
      DEF SavePeriodic, TypeOK, ControlInv, process, trained
  <2>4. CASE ~ SaveDue
    BY <1>6, <2>1, <2>2, <2>4
    DEF SavePeriodic, TypeOK, ControlInv, process, trained
  <2> QED
    BY <2>3, <2>4
<1>7. ASSUME NEW acc \in Accuracies, Evaluate(acc) PROVE TypeInv'
  <2>1. meta' \in Meta
    BY <1>7, TrainerAssumption DEF Evaluate, TypeOK, Meta
  <2>2. pc = "eval" /\ epoch < MaxEpochs
    BY <1>7 DEF Evaluate, ControlInv
  <2>3. CASE acc > meta.best_val_acc
    <3>1. BeginSave(Best, "periodic")
      BY <1>7, <2>3 DEF Evaluate
    <3> QED
      BY <1>7, <2>1, <2>2, <3>1, BeginSaveType
      DEF Evaluate, TypeOK, ControlInv, process, trained
  <2>4. CASE ~ (acc > meta.best_val_acc)
    BY <1>7, <2>1, <2>2, <2>4 DEF Evaluate, TypeOK, ControlInv, process, trained
  <2> QED
    BY <2>3, <2>4
<1> QED
  BY <1>1, <1>2, <1>3, <1>4, <1>5, <1>6, <1>7

(* Replacing one file of one checkpoint by a file of its kind.              *)
LEMMA PutType ==
  ASSUME NEW c \in Checkpoint, NEW part \in Parts, NEW f,
         part = "model" => f \in FileOf(Weights),
         part = "ema" => f \in FileOf(Nat),
         part = "meta" => f \in FileOf(Meta)
  PROVE  Put(c, part, f) \in Checkpoint
BY DEF Put, Checkpoint, Parts

LEMMA SaveType ==
  ASSUME TypeInv, OpenFile \/ CloseFile
  PROVE  TypeInv'
<1> USE DEF TypeInv
<1> DEFINE part == SaveOrder[saving.file]
<1>1. pc = "save" /\ saving.file \in 1 .. 3 /\ saving.tag \in Tags /\ part \in Parts
  BY SaveOrderType DEF OpenFile, CloseFile, TypeOK, ControlInv, Saving
<1>2. disk[saving.tag] \in Checkpoint
  BY <1>1 DEF TypeOK
<1>3. CASE OpenFile
  <2>1. Put(disk[saving.tag], part, Torn) \in Checkpoint
    <3>1. \A S : Torn \in FileOf(S)
      BY DEF FileOf
    <3> HIDE DEF part
    <3> QED
      BY <1>1, <1>2, <3>1, PutType
  <2>2. saving' \in Saving /\ saving'.file = saving.file /\ saving'.ret = saving.ret
    BY <1>3 DEF OpenFile, TypeOK, Saving
  <2>3. disk' \in [Tags -> Checkpoint]
    BY <1>1, <1>3, <2>1 DEF OpenFile, TypeOK
  <2> QED
    BY <1>1, <1>3, <2>2, <2>3 DEF OpenFile, TypeOK, ControlInv, process, trained
<1>4. CASE CloseFile
  <2>1. Put(disk[saving.tag], part, Content(part)) \in Checkpoint
    <3>1. /\ part = "model" => Content(part) \in FileOf(Weights)
          /\ part = "ema" => Content(part) \in FileOf(Nat)
          /\ part = "meta" => Content(part) \in FileOf(Meta)
      BY DEF Content, Whole, FileOf, TypeOK
    <3> HIDE DEF part
    <3> QED
      BY <1>1, <1>2, <3>1, PutType
  <2>2. disk' \in [Tags -> Checkpoint]
    BY <1>1, <1>4, <2>1 DEF CloseFile, TypeOK
  <2>3. CASE saving.file < Len(SaveOrder)
    <3>1. UNCHANGED <<pc, outcome>>
          /\ saving' = [tag |-> saving.tag, file |-> saving.file + 1,
                        open |-> FALSE, ret |-> saving.ret]
      BY <1>4, <2>3 DEF CloseFile
    <3>2. saving.file + 1 \in 1 .. 3
      BY <1>1, <2>3, SaveOrderType
    <3>3. saving' \in Saving /\ saving'.file = saving.file + 1 /\ saving'.ret = saving.ret
      BY <3>1, <3>2 DEF TypeOK, Saving
    <3> QED
      BY <1>1, <1>4, <2>2, <3>1, <3>2, <3>3
      DEF CloseFile, TypeOK, ControlInv, process, trained
  <2>4. CASE saving.file = Len(SaveOrder)
    <3>1. saving' = NotSaving /\ pc' = saving.ret /\ outcome' \in {outcome, "ok"}
      BY <1>4, <2>4 DEF CloseFile
    <3>2. saving.ret \in {"periodic", "check", "stopped"}
          /\ (saving.ret = "periodic" => epoch < MaxEpochs)
      BY <1>1 DEF ControlInv, TypeOK, Saving
    <3> QED
      BY <1>1, <1>4, <2>2, <3>1, <3>2, NotSavingType
      DEF CloseFile, TypeOK, ControlInv, process, trained
  <2> QED
    BY <1>4, <2>3, <2>4 DEF CloseFile
<1> QED
  BY <1>3, <1>4

LEMMA StepTypeInv == TypeInv /\ [Next]_vars => TypeInv'
<1> SUFFICES ASSUME TypeInv, [Next]_vars PROVE TypeInv'
  OBVIOUS
<1>1. CASE Start
  BY <1>1, StartType
<1>2. CASE LoadData
  <2>1. CASE pc' = "loop" /\ UNCHANGED <<outcome, saving>>
    BY <1>2, <2>1 DEF LoadData, TypeInv, TypeOK, ControlInv, process, trained
  <2>2. CASE Exit("error")
    BY <1>2, <2>2, ExitType DEF LoadData
  <2> QED
    BY <1>2, <2>1, <2>2 DEF LoadData
<1>3. CASE TrainMicroBatch
  BY <1>3, TrainMicroBatchType
<1>4. CASE TrainMicroBatchFails \/ EvaluateFails \/ SaveFails \/ Crash
  BY <1>4, ExitType DEF TrainMicroBatchFails, EvaluateFails, SaveFails, Crash
<1>5. CASE \/ EnterEpoch \/ EpochDrained \/ SkipEvaluate \/ NextEpoch
           \/ SaveFinal \/ SavePeriodic \/ \E acc \in Accuracies : Evaluate(acc)
  BY <1>5, LoopType
<1>6. CASE OpenFile \/ CloseFile
  BY <1>6, SaveType
<1>7. CASE UNCHANGED vars
  BY <1>7 DEF vars, TypeInv, TypeOK, ControlInv
<1> QED
  BY <1>1, <1>2, <1>3, <1>4, <1>5, <1>6, <1>7 DEF Next, TrainStep

(* The state of Trainer always has its type, and control is where the loops *)
(* of train() and save_checkpoint say.                                      *)
THEOREM TypeCorrect == Spec => [](TypeOK /\ ControlInv)
<1>1. Init => TypeInv
  BY InitTypeInv
<1>2. TypeInv /\ [Next]_vars => TypeInv'
  BY StepTypeInv
<1> QED
  BY <1>1, <1>2, PTL DEF Spec, TypeInv
-----------------------------------------------------------------------------
LEMMA InitConservation == Init => GradientConservation
BY DEF Init, Zero, GradientConservation

LEMMA StepConservation ==
  TypeInv /\ GradientConservation /\ [Next]_vars => GradientConservation'
<1> SUFFICES ASSUME TypeInv, GradientConservation, [Next]_vars,
                    NEW e \in Epochs
             PROVE  weights'.seen[e] + pending'[e] + origin'.dropped[e]
                      = weights'.visited[e]
  BY DEF GradientConservation
<1>1. weights.seen[e] + pending[e] + origin.dropped[e] = weights.visited[e]
  BY DEF GradientConservation
<1>2. /\ weights.seen[e] \in Nat /\ weights.visited[e] \in Nat
      /\ pending[e] \in Nat /\ origin.dropped[e] \in Int
  BY DEF TypeInv, TypeOK, Weights
<1>3. CASE UNCHANGED <<weights, pending, origin>>
  BY <1>1, <1>3
<1>4. ASSUME NEW a \in Args, StartFresh(a)
      PROVE  weights'.seen[e] + pending'[e] + origin'.dropped[e] = weights'.visited[e]
  BY <1>4 DEF StartFresh, Zero
(* A resumed process starts with the pending gradients of the saved one     *)
(* counted as dropped.                                                      *)
<1>5. ASSUME NEW a \in Args, NEW t \in Tags, StartResumed(a, t)
      PROVE  weights'.seen[e] + pending'[e] + origin'.dropped[e] = weights'.visited[e]
  <2> DEFINE w == disk[t].model.data
  <2>1. disk[t] \in Checkpoint /\ IsWhole(disk[t].model)
    BY <1>5 DEF StartResumed, Loadable, TypeInv, TypeOK
  <2>2. w \in Weights
    BY <2>1 DEF Checkpoint, FileOf, IsWhole, NoFile, Torn
  <2>3. w.seen[e] \in Nat /\ w.visited[e] \in Nat
    BY <2>2 DEF Weights
  <2>4. /\ weights'.seen[e] = w.seen[e] /\ weights'.visited[e] = w.visited[e]
        /\ pending'[e] = 0 /\ origin'.dropped[e] = w.visited[e] - w.seen[e]
    BY <1>5 DEF StartResumed, Zero
  <2> HIDE DEF w
  <2> QED
    BY <2>3, <2>4
(* A micro-batch is folded into the buffer, or the whole buffer with it     *)
(* moves into the weights.                                                  *)
<1>6. CASE TrainMicroBatch
  <2>1. Folded[e] \in Nat /\ Visited[e] \in Nat
        /\ Visited[e] - weights.visited[e] = Folded[e] - pending[e]
    BY <1>6, FoldedType DEF TrainMicroBatch
  <2>2. UNCHANGED origin
    BY <1>6 DEF TrainMicroBatch, process
  <2>3. CASE (step_count + 1) % AccumSteps = 0
    <3>1. weights' = [steps   |-> weights.steps + 1,
                      visited |-> Visited,
                      seen    |-> [x \in Epochs |-> weights.seen[x] + Folded[x]],
                      batch   |-> weights.batch,
                      clean   |-> weights.clean]
          /\ pending' = Zero
      BY <1>6, <2>3 DEF TrainMicroBatch
    <3>2. weights'.seen[e] = weights.seen[e] + Folded[e]
          /\ weights'.visited[e] = Visited[e] /\ pending'[e] = 0
      BY <3>1 DEF Zero
    <3> QED
      BY <1>1, <1>2, <2>1, <2>2, <3>2
  <2>4. CASE (step_count + 1) % AccumSteps # 0
    <3>1. weights' = [weights EXCEPT !.visited = Visited] /\ pending' = Folded
      BY <1>6, <2>4 DEF TrainMicroBatch
    <3>2. weights'.seen[e] = weights.seen[e] /\ weights'.visited[e] = Visited[e]
      BY <3>1 DEF TypeInv, TypeOK, Weights
    <3> QED
      BY <1>1, <1>2, <2>1, <2>2, <3>1, <3>2
  <2> QED
    BY <2>3, <2>4
<1>7. CASE TrainStep /\ ~ TrainMicroBatch
  <2>1. UNCHANGED <<weights, pending, origin>>
    BY <1>7 DEF TrainStep, LoadData, EnterEpoch, TrainMicroBatchFails,
       EpochDrained, Evaluate, EvaluateFails, SkipEvaluate, SavePeriodic,
       NextEpoch, SaveFinal, OpenFile, CloseFile, SaveFails, process, trained
  <2> QED
    BY <1>3, <2>1
<1>8. CASE Crash
  BY <1>3, <1>8 DEF Crash, process, trained
<1>9. ASSUME NEW a \in Args, NEW t \in Tags, ResumeFails(a, t)
      PROVE  weights'.seen[e] + pending'[e] + origin'.dropped[e] = weights'.visited[e]
  BY <1>3, <1>9 DEF ResumeFails, trained
<1>10. CASE UNCHANGED vars
  BY <1>3, <1>10 DEF vars
<1> QED
  BY <1>4, <1>5, <1>6, <1>7, <1>8, <1>9, <1>10 DEF Next, Start

(* Through any number of epochs, resumes and crashes no micro-batch         *)
(* gradient is applied twice, and none is lost except those that were       *)
(* pending when a process ended.                                            *)
THEOREM GradientsConserved == Spec => []GradientConservation
<1>1. Init => TypeInv /\ GradientConservation
  BY InitTypeInv, InitConservation
<1>2. TypeInv /\ GradientConservation /\ [Next]_vars
        => TypeInv' /\ GradientConservation'
  BY StepTypeInv, StepConservation
<1> QED
  BY <1>1, <1>2, PTL DEF Spec

-----------------------------------------------------------------------------
LEMMA StepBudgetInit == Init => LimitInv /\ StepBudget
BY DEF Init, LimitInv, StepBudget, Running

LEMMA LimitStep ==
  TypeInv /\ LimitInv /\ StepBudget /\ [Next]_vars => LimitInv' /\ StepBudget'
<1> SUFFICES ASSUME TypeInv, LimitInv, StepBudget, [Next]_vars
             PROVE  LimitInv' /\ StepBudget'
  OBVIOUS
<1>1. args.max_steps \subseteq Nat
  BY TrainerAssumption DEF TypeInv, TypeOK
<1>2. meta.global_step \in Nat /\ origin.global_step \in Nat
  BY DEF TypeInv, TypeOK, Meta
<1>3. ASSUME NEW a \in Args, StartFresh(a) PROVE LimitInv' /\ StepBudget'
  <2>1. meta'.global_step = 0 /\ origin'.global_step = 0
    BY <1>3 DEF StartFresh
  <2> QED
    BY <2>1 DEF LimitInv, StepBudget
<1>4. ASSUME NEW a \in Args, NEW t \in Tags, StartResumed(a, t)
      PROVE  LimitInv' /\ StepBudget'
  <2>1. disk[t] \in Checkpoint /\ IsWhole(disk[t].meta)
    BY <1>4 DEF StartResumed, Loadable, TypeInv, TypeOK
  <2>2. disk[t].meta.data \in Meta
    BY <2>1 DEF Checkpoint, FileOf, IsWhole, NoFile, Torn
  <2>3. meta'.global_step \in Nat /\ origin'.global_step = meta'.global_step
    BY <1>4, <2>2 DEF StartResumed, RestoredMeta, Meta
  <2> QED
    BY <2>3 DEF LimitInv, StepBudget
<1>5. CASE TrainMicroBatch
  <2>1. pc = "recv" /\ UNCHANGED <<args, origin>>
    BY <1>5 DEF TrainMicroBatch, process
  <2>2. CASE (step_count + 1) % AccumSteps = 0
    <3>1. meta' = [meta EXCEPT !.global_step = meta.global_step + 1]
          /\ pc' = IF HitMaxSteps(meta.global_step + 1) THEN "eval" ELSE "recv"
      BY <1>5, <2>2 DEF TrainMicroBatch
    <3>2. meta'.global_step = meta.global_step + 1
      BY <3>1 DEF TypeInv, TypeOK, Meta
    <3>3. StepBudget'
      BY <1>1, <1>2, <2>1, <3>2 DEF LimitInv, StepBudget
    <3>4. LimitInv'
      BY <1>1, <1>2, <2>1, <3>1, <3>2 DEF LimitInv, HitMaxSteps
    <3> QED
      BY <3>3, <3>4
  <2>3. CASE (step_count + 1) % AccumSteps # 0
    BY <1>5, <2>1, <2>3 DEF TrainMicroBatch, LimitInv, StepBudget, Running
  <2> QED
    BY <2>2, <2>3
<1>6. ASSUME UNCHANGED <<args, origin>>, meta'.global_step = meta.global_step,
             pc' = "stopped" \/ Running,
             pc' \in {"load_data", "loop", "recv"} =>
               pc \in {"load_data", "loop", "recv"} \/ ~ HitMaxSteps(meta.global_step)
      PROVE  LimitInv' /\ StepBudget'
  BY <1>1, <1>2, <1>6 DEF LimitInv, StepBudget, Running, HitMaxSteps
<1>7. CASE LoadData \/ TrainMicroBatchFails \/ EvaluateFails \/ SaveFails \/ Crash
  BY <1>6, <1>7 DEF LoadData, TrainMicroBatchFails, EvaluateFails, SaveFails,
     Crash, Exit, process, Running
<1>8. CASE EnterEpoch \/ EpochDrained \/ SkipEvaluate \/ NextEpoch \/ SaveFinal
           \/ OpenFile
  <2>1. meta'.global_step = meta.global_step
    BY <1>8 DEF EnterEpoch, EpochDrained, SkipEvaluate, NextEpoch, SaveFinal,
       OpenFile, TypeInv, TypeOK, Meta
  <2> QED
    BY <1>6, <1>8, <2>1 DEF EnterEpoch, EpochDrained, SkipEvaluate, NextEpoch,
       SaveFinal, OpenFile, BeginSave, process, Running
<1>9. CASE SavePeriodic \/ \E acc \in Accuracies : Evaluate(acc)
  <2>1. meta'.global_step = meta.global_step
    BY <1>9 DEF SavePeriodic, Stamped, Evaluate, TypeInv, TypeOK, Meta
  <2> QED
    BY <1>6, <1>9, <2>1 DEF SavePeriodic, Evaluate, BeginSave, process, Running
<1>10. CASE CloseFile
  <2>1. saving.ret \in {"periodic", "check", "stopped"}
    BY DEF TypeInv, TypeOK, Saving
  <2>2. pc = "save" /\ pc' \in {"save", "periodic", "check", "stopped"}
    BY <1>10, <2>1 DEF CloseFile
  <2> QED
    BY <1>6, <1>10, <2>2 DEF CloseFile, process, Running
<1>11. ASSUME NEW a \in Args, NEW t \in Tags, ResumeFails(a, t)
       PROVE  LimitInv' /\ StepBudget'
  BY <1>11 DEF ResumeFails, LimitInv, StepBudget, Running
<1>12. CASE UNCHANGED vars
  BY <1>12 DEF vars, LimitInv, StepBudget, Running
<1> QED
  BY <1>3, <1>4, <1>5, <1>7, <1>8, <1>9, <1>10, <1>11, <1>12
  DEF Next, Start, TrainStep

(* A process exceeds its step limit by at most the one step it takes after  *)
(* resuming at or above the limit.                                          *)
THEOREM StepBudgetHolds == Spec => []StepBudget
<1>1. Init => TypeInv /\ LimitInv /\ StepBudget
  BY InitTypeInv, StepBudgetInit
<1>2. TypeInv /\ LimitInv /\ StepBudget /\ [Next]_vars
        => TypeInv' /\ LimitInv' /\ StepBudget'
  BY StepTypeInv, LimitStep
<1> QED
  BY <1>1, <1>2, PTL DEF Spec

-----------------------------------------------------------------------------
(***************************************************************************)
(* Checkpoints, across saves that are cut short, crashes and resumes.      *)
(***************************************************************************)

(* How far the save in progress is: the files before the current one are    *)
(* those of this save.                                                      *)
InProgress ==
  /\ saving.file >= 2 => disk[saving.tag].model = Whole(saves, weights)
  /\ saving.file = 3 => disk[saving.tag].ema = Whole(saves, ema)
  /\ saving.ret = "stopped" => saving.tag = Final

(* No file is newer than the last save, and while one is in progress, no    *)
(* meta file is as new.                                                     *)
Dated(c) ==
  /\ IsWhole(c.model) => c.model.id <= saves
  /\ IsWhole(c.ema) => c.ema.id <= saves
  /\ IsWhole(c.meta) => c.meta.id <= saves /\ (pc = "save" => c.meta.id < saves)

(* A file is never newer than one that a save writes before it.             *)
Ordered(c) ==
  /\ c.meta # NoFile => c.ema # NoFile
  /\ c.ema # NoFile => c.model # NoFile
  /\ IsWhole(c.model) /\ IsWhole(c.ema) => c.model.id >= c.ema.id
  /\ IsWhole(c.ema) /\ IsWhole(c.meta) => c.ema.id >= c.meta.id
  /\ IsWhole(c.model) /\ IsWhole(c.meta) => c.model.id >= c.meta.id

FileInv ==
  /\ Running => outcome = "none"
  /\ pc # "save" => saving = NotSaving
  /\ pc = "save" => InProgress
  /\ \A t \in Tags : Dated(disk[t]) /\ Ordered(disk[t])

-----------------------------------------------------------------------------
LEMMA WholeIs ==
  ASSUME NEW i, NEW d
  PROVE  /\ IsWhole(Whole(i, d)) /\ Whole(i, d).id = i /\ Whole(i, d).data = d
         /\ Whole(i, d) # NoFile
BY DEF Whole, IsWhole, NoFile

LEMMA TornIs == ~ IsWhole(Torn) /\ ~ IsWhole(NoFile) /\ Torn # NoFile
BY DEF Torn, NoFile, IsWhole

LEMMA PutIs ==
  ASSUME NEW c, NEW part, NEW f
  PROVE  /\ Put(c, part, f).model = IF part = "model" THEN f ELSE c.model
         /\ Put(c, part, f).ema   = IF part = "ema"   THEN f ELSE c.ema
         /\ Put(c, part, f).meta  = IF part = "meta"  THEN f ELSE c.meta
BY DEF Put

LEMMA SaveOrderIs ==
  SaveOrder[1] = "model" /\ SaveOrder[2] = "ema" /\ SaveOrder[3] = "meta"
BY DEF SaveOrder

LEMMA ContentIs ==
  /\ Content("model") = Whole(saves, weights)
  /\ Content("ema") = Whole(saves, ema)
  /\ Content("meta") = Whole(saves, meta)
BY DEF Content

LEMMA IdsAreNat ==
  ASSUME TypeInv, NEW t \in Tags
  PROVE  /\ saves \in Nat
         /\ IsWhole(disk[t].model) => disk[t].model.id \in Nat
         /\ IsWhole(disk[t].ema) => disk[t].ema.id \in Nat
         /\ IsWhole(disk[t].meta) => disk[t].meta.id \in Nat
<1>1. disk[t] \in Checkpoint /\ saves \in Nat
  BY DEF TypeInv, TypeOK
<1> QED
  BY <1>1 DEF Checkpoint, FileOf, IsWhole, NoFile, Torn

LEMMA InitFileInv == Init => FileInv
<1> SUFFICES ASSUME Init PROVE FileInv
  OBVIOUS
<1>1. ASSUME NEW t \in Tags
      PROVE  ~ IsWhole(disk[t].model) /\ ~ IsWhole(disk[t].ema) /\ ~ IsWhole(disk[t].meta)
  BY TornIs DEF Init
<1> QED
  BY <1>1 DEF Init, FileInv, Running, Dated, Ordered

(* Steps between saves.                                                     *)
LEMMA NoSaveStep ==
  ASSUME FileInv, pc # "save", pc' # "save",
         UNCHANGED <<disk, saving, saves>>,
         (pc' # "stopped" => outcome' = "none")
  PROVE  FileInv'
BY DEF FileInv, Dated, Ordered, Running

LEMMA ExitStep ==
  ASSUME TypeInv, FileInv, NEW how, Exit(how), UNCHANGED <<disk, saves>>
  PROVE  FileInv'
BY DEF Exit, FileInv, Dated, Ordered, Running

LEMMA BeginSaveStep ==
  ASSUME TypeInv, FileInv, NEW t \in Tags, NEW ret, BeginSave(t, ret),
         ret = "stopped" => t = Final, Running, UNCHANGED <<disk, outcome>>
  PROVE  FileInv'
<1>1. pc' = "save" /\ saves' = saves + 1 /\ disk' = disk /\ outcome' = "none"
      /\ saving' = [tag |-> t, file |-> 1, open |-> FALSE, ret |-> ret]
  BY DEF BeginSave, FileInv
<1>2. InProgress'
  BY <1>1 DEF InProgress
<1>3. ASSUME NEW x \in Tags PROVE Dated(disk[x])' /\ Ordered(disk[x])'
  BY <1>1, IdsAreNat DEF FileInv, Dated, Ordered
<1> QED
  BY <1>1, <1>2, <1>3 DEF FileInv

(* A file of the save is created.                                           *)
LEMMA Opened ==
  ASSUME TypeInv, OpenFile
  PROVE  LET c == disk'[saving.tag] IN
         /\ pc = "save" /\ pc' = "save" /\ saving.file \in 1 .. 3 /\ saving.tag \in Tags
         /\ saving'.file = saving.file /\ saving'.ret = saving.ret /\ saving'.tag = saving.tag
         /\ UNCHANGED <<outcome, process, weights, ema, pending, step_count, meta, saves>>
         /\ \A t \in Tags : t # saving.tag => disk'[t] = disk[t]
         /\ c.model = IF saving.file = 1 THEN Torn ELSE disk[saving.tag].model
         /\ c.ema = IF saving.file = 2 THEN Torn ELSE disk[saving.tag].ema
         /\ c.meta = IF saving.file = 3 THEN Torn ELSE disk[saving.tag].meta
<1> DEFINE tag == saving.tag
           part == SaveOrder[saving.file]
           c == Put(disk[tag], part, Torn)
<1>1. /\ pc = "save" /\ pc' = "save" /\ saving.file \in 1 .. 3 /\ tag \in Tags
      /\ disk \in [Tags -> Checkpoint]
  BY DEF OpenFile, TypeInv, TypeOK, ControlInv, Saving
<1>2. /\ saving'.file = saving.file /\ saving'.ret = saving.ret /\ saving'.tag = tag
      /\ UNCHANGED <<outcome, process, weights, ema, pending, step_count, meta, saves>>
  BY DEF OpenFile, TypeInv, TypeOK, Saving, trained
<1>3. \A t \in Tags : disk'[t] = IF t = tag THEN c ELSE disk[t]
  BY <1>1 DEF OpenFile
<1>4. /\ c.model = IF saving.file = 1 THEN Torn ELSE disk[tag].model
      /\ c.ema = IF saving.file = 2 THEN Torn ELSE disk[tag].ema
      /\ c.meta = IF saving.file = 3 THEN Torn ELSE disk[tag].meta
  BY <1>1, PutIs, SaveOrderIs
<1> HIDE DEF c
<1> QED
  BY <1>1, <1>2, <1>3, <1>4 DEF tag

LEMMA OpenFileStep ==
  ASSUME TypeInv, FileInv, OpenFile
  PROVE  FileInv'
<1>0. PICK tag \in Tags : tag = saving.tag
  BY Opened
<1>1. ASSUME NEW t \in Tags PROVE Dated(disk[t])' /\ Ordered(disk[t])'
  <2>1. CASE t # tag
    BY <1>0, <2>1, Opened DEF FileInv, Dated, Ordered
  <2>2. CASE t = tag
    <3>1. /\ disk'[t].model = IF saving.file = 1 THEN Torn ELSE disk[t].model
          /\ disk'[t].ema = IF saving.file = 2 THEN Torn ELSE disk[t].ema
          /\ disk'[t].meta = IF saving.file = 3 THEN Torn ELSE disk[t].meta
          /\ pc = "save" /\ pc' = "save" /\ saves' = saves /\ saving.file \in 1 .. 3
      BY <1>0, <2>2, Opened
    <3>2. /\ saving.file >= 2 => disk[t].model # NoFile
          /\ saving.file = 3 => disk[t].ema # NoFile
      BY <1>0, <2>2, <3>1, WholeIs DEF FileInv, InProgress
    <3>3. Dated(disk[t]) /\ Ordered(disk[t])
      BY DEF FileInv
    <3>4. Dated(disk[t])'
      BY <3>1, <3>3, TornIs DEF Dated
    <3>5. Ordered(disk[t])'
      BY <3>1, <3>2, <3>3, TornIs DEF Ordered
    <3> QED
      BY <3>4, <3>5
  <2> QED
    BY <2>1, <2>2
<1>2. InProgress'
  BY <1>0, Opened DEF FileInv, InProgress
<1> QED
  BY <1>1, <1>2, Opened DEF FileInv, Running

(* A file of the save is complete.                                          *)
LEMMA Closed ==
  ASSUME TypeInv, CloseFile
  PROVE  LET c == disk'[saving.tag] IN
         /\ pc = "save" /\ saving.file \in 1 .. 3 /\ saving.tag \in Tags
         /\ UNCHANGED <<process, weights, ema, pending, step_count, meta, saves>>
         /\ \A t \in Tags : t # saving.tag => disk'[t] = disk[t]
         /\ c.model = IF saving.file = 1 THEN Whole(saves, weights) ELSE disk[saving.tag].model
         /\ c.ema = IF saving.file = 2 THEN Whole(saves, ema) ELSE disk[saving.tag].ema
         /\ c.meta = IF saving.file = 3 THEN Whole(saves, meta) ELSE disk[saving.tag].meta
         /\ \/ /\ saving.file < 3 /\ pc' = "save" /\ outcome' = outcome
               /\ saving'.file = saving.file + 1
               /\ saving'.ret = saving.ret /\ saving'.tag = saving.tag
            \/ /\ saving.file = 3 /\ pc' = saving.ret /\ saving' = NotSaving
               /\ outcome' = IF saving.ret = "stopped" THEN "ok" ELSE outcome
<1> DEFINE tag == saving.tag
           part == SaveOrder[saving.file]
           c == Put(disk[tag], part, Content(part))
<1>1. /\ pc = "save" /\ saving.file \in 1 .. 3 /\ tag \in Tags
      /\ disk \in [Tags -> Checkpoint]
  BY DEF CloseFile, TypeInv, TypeOK, ControlInv, Saving
<1>2. UNCHANGED <<process, weights, ema, pending, step_count, meta, saves>>
  BY DEF CloseFile, trained
<1>3. \A t \in Tags : disk'[t] = IF t = tag THEN c ELSE disk[t]
  BY <1>1 DEF CloseFile
<1>4. /\ c.model = IF saving.file = 1 THEN Whole(saves, weights) ELSE disk[tag].model
      /\ c.ema = IF saving.file = 2 THEN Whole(saves, ema) ELSE disk[tag].ema
      /\ c.meta = IF saving.file = 3 THEN Whole(saves, meta) ELSE disk[tag].meta
  BY <1>1, PutIs, SaveOrderIs, ContentIs
<1>5. \/ /\ saving.file < 3 /\ pc' = "save" /\ outcome' = outcome
         /\ saving'.file = saving.file + 1
         /\ saving'.ret = saving.ret /\ saving'.tag = saving.tag
      \/ /\ saving.file = 3 /\ pc' = saving.ret /\ saving' = NotSaving
         /\ outcome' = IF saving.ret = "stopped" THEN "ok" ELSE outcome
  BY <1>1, SaveOrderType DEF CloseFile
<1> HIDE DEF c
<1> QED
  BY <1>1, <1>2, <1>3, <1>4, <1>5 DEF tag

LEMMA CloseFileStep ==
  ASSUME TypeInv, FileInv, CloseFile
  PROVE  FileInv'
<1>0. PICK tag \in Tags : tag = saving.tag
  BY Closed
<1>1. tag = saving.tag /\ saving.file \in 1 .. 3 /\ saves' = saves /\ Running
  BY <1>0, Closed DEF Running
<1>2. ASSUME NEW t \in Tags, t # tag PROVE Dated(disk[t])' /\ Ordered(disk[t])'
  BY <1>1, <1>2, Closed DEF FileInv, Dated, Ordered
<1>3. Dated(disk[tag])' /\ Ordered(disk[tag])'
  <2>1. /\ disk'[tag].model = IF saving.file = 1 THEN Whole(saves, weights) ELSE disk[tag].model
        /\ disk'[tag].ema = IF saving.file = 2 THEN Whole(saves, ema) ELSE disk[tag].ema
        /\ disk'[tag].meta = IF saving.file = 3 THEN Whole(saves, meta) ELSE disk[tag].meta
        /\ pc = "save" /\ (pc' = "save" => saving.file < 3)
    <3>1. saving.ret # "save"
      BY DEF TypeInv, TypeOK, Saving
    <3> QED
      BY <1>1, <3>1, Closed
  <2> DEFINE m == Whole(saves, weights)
             e == Whole(saves, ema)
             f == Whole(saves, meta)
  <2>2. /\ IsWhole(m) /\ m.id = saves /\ m # NoFile
        /\ IsWhole(e) /\ e.id = saves /\ e # NoFile
        /\ IsWhole(f) /\ f.id = saves
    BY WholeIs
  <2> HIDE DEF m, e, f
  <2>3. /\ saves \in Nat /\ Dated(disk[tag]) /\ Ordered(disk[tag])
        /\ IsWhole(disk[tag].model) => disk[tag].model.id \in Nat
        /\ IsWhole(disk[tag].ema) => disk[tag].ema.id \in Nat
        /\ IsWhole(disk[tag].meta) => disk[tag].meta.id \in Nat
    BY <1>1, IdsAreNat DEF FileInv
  <2>4. CASE saving.file = 1
    <3>1. disk'[tag].model = m /\ disk'[tag].ema = disk[tag].ema /\ disk'[tag].meta = disk[tag].meta
      BY <2>1, <2>4 DEF m
    <3> QED
      BY <1>1, <2>1, <2>2, <2>3, <3>1 DEF Dated, Ordered
  <2>5. CASE saving.file = 2
    <3>1. disk'[tag].model = m /\ disk'[tag].ema = e /\ disk'[tag].meta = disk[tag].meta
      BY <1>1, <2>1, <2>5 DEF FileInv, InProgress, m, e
    <3> QED
      BY <1>1, <2>1, <2>2, <2>3, <3>1 DEF Dated, Ordered
  <2>6. CASE saving.file = 3
    <3>1. disk[tag].model = m /\ disk[tag].ema = e
      BY <1>1, <2>1, <2>6 DEF FileInv, InProgress, m, e
    <3>2. disk'[tag].model = m /\ disk'[tag].ema = e /\ disk'[tag].meta = f /\ pc' # "save"
      BY <2>1, <2>6, <3>1 DEF f
    <3> QED
      BY <1>1, <2>1, <2>2, <2>3, <3>2 DEF Dated, Ordered
  <2> QED
    BY <1>1, <2>4, <2>5, <2>6
<1>4. pc' = "save" => InProgress'
  <2>1. CASE pc' = "save"
    <3>1. /\ saving.file < 3 /\ saving'.file = saving.file + 1
          /\ saving'.ret = saving.ret /\ saving'.tag = tag
      <4>1. saving.ret # "save"
        BY DEF TypeInv, TypeOK, Saving
      <4> QED
        BY <1>1, <2>1, <4>1, Closed
    <3>2. InProgress
      BY Closed DEF FileInv
    <3>3. saving'.file >= 2 => disk'[tag].model = Whole(saves, weights)
      BY <1>1, <3>1, <3>2, Closed DEF InProgress
    <3>4. saving'.file = 3 => disk'[tag].ema = Whole(saves, ema)
      BY <1>1, <3>1, <3>2, Closed DEF InProgress
    <3> QED
      BY <1>1, <3>1, <3>2, <3>3, <3>4, Closed DEF InProgress
  <2> QED
    BY <2>1
<1>5. (Running' => outcome' = "none") /\ (pc' # "save" => saving' = NotSaving)
  BY <1>1, Closed DEF FileInv, Running
<1> QED
  BY <1>2, <1>3, <1>4, <1>5 DEF FileInv

LEMMA NextFileInv == TypeInv /\ FileInv /\ [Next]_vars => FileInv'
<1> SUFFICES ASSUME TypeInv, FileInv, [Next]_vars PROVE FileInv'
  OBVIOUS
<1>1. CASE Start
  BY <1>1, NoSaveStep DEF Start, StartFresh, StartResumed, ResumeFails, storage
<1>2. CASE LoadData \/ EnterEpoch \/ TrainMicroBatch \/ EpochDrained \/ SkipEvaluate \/ NextEpoch
  <2>1. CASE Exit("error")
    BY <1>2, <2>1, ExitStep
    DEF LoadData, EnterEpoch, TrainMicroBatch, EpochDrained, SkipEvaluate, NextEpoch, storage
  <2>2. CASE ~ Exit("error")
    BY <1>2, <2>2, NoSaveStep
    DEF LoadData, EnterEpoch, TrainMicroBatch, EpochDrained, SkipEvaluate, NextEpoch, storage,
        FileInv, Running
  <2> QED
    BY <2>1, <2>2
<1>3. CASE TrainMicroBatchFails \/ EvaluateFails \/ SaveFails \/ Crash
  BY <1>3, ExitStep DEF TrainMicroBatchFails, EvaluateFails, SaveFails, Crash
<1>4. CASE SaveFinal
  <2>1. BeginSave(Final, "stopped") /\ Running /\ UNCHANGED <<disk, outcome>>
    BY <1>4 DEF SaveFinal, Running
  <2> QED
    BY <2>1, BeginSaveStep, TagsType
<1>5. CASE SavePeriodic
  <2>1. CASE SaveDue
    <3>1. BeginSave(EpochTag(epoch + 1), "check") /\ Running /\ UNCHANGED <<disk, outcome>>
      BY <1>5, <2>1 DEF SavePeriodic, Running
    <3>2. EpochTag(epoch + 1) \in Tags
      BY <1>5, TagsType DEF SavePeriodic, TypeInv, TypeOK, ControlInv
    <3> QED
      BY <3>1, <3>2, BeginSaveStep
  <2>2. CASE ~ SaveDue
    BY <1>5, <2>2, NoSaveStep DEF SavePeriodic, FileInv, Running
  <2> QED
    BY <2>1, <2>2
<1>6. ASSUME NEW acc \in Accuracies, Evaluate(acc) PROVE FileInv'
  <2>1. CASE acc > meta.best_val_acc
    <3>1. BeginSave(Best, "periodic") /\ Running /\ UNCHANGED <<disk, outcome>>
      BY <1>6, <2>1 DEF Evaluate, Running
    <3> QED
      BY <3>1, BeginSaveStep, TagsType
  <2>2. CASE ~ (acc > meta.best_val_acc)
    BY <1>6, <2>2, NoSaveStep DEF Evaluate, FileInv, Running
  <2> QED
    BY <2>1, <2>2
<1>7. CASE OpenFile
  BY <1>7, OpenFileStep
<1>8. CASE CloseFile
  BY <1>8, CloseFileStep
<1>9. CASE UNCHANGED vars
  BY <1>9 DEF vars, FileInv, InProgress, Dated, Ordered, Running
<1> QED
  BY <1>1, <1>2, <1>3, <1>4, <1>5, <1>6, <1>7, <1>8, <1>9 DEF Next, TrainStep

LEMMA AlwaysFileInv == Spec => [](TypeInv /\ FileInv)
BY InitTypeInv, StepTypeInv, InitFileInv, NextFileInv, PTL DEF Spec

(* Wherever saves end early or fail, the files under a tag are in the order *)
(* of their saves, and meta and weights of one save make a whole one.       *)
THEOREM FilesStayInOrder == Spec => []FilesInOrder
<1>1. ASSUME TypeInv, FileInv, NEW t \in Tags,
             Loadable(disk[t]), disk[t].model.id = disk[t].meta.id
      PROVE  OneSave(disk[t])
  <2> DEFINE c == disk[t]
  <2>1. /\ IsWhole(c.model) /\ IsWhole(c.meta) /\ c.ema # Torn
        /\ c.meta # NoFile
    BY <1>1, TornIs DEF Loadable
  <2>2. c.ema # NoFile
    BY <1>1, <2>1 DEF FileInv, Ordered
  <2>3. IsWhole(c.ema)
    <3>1. disk[t].ema \in FileOf(Nat)
      BY <1>1 DEF TypeInv, TypeOK, Checkpoint
    <3> QED
      BY <2>1, <2>2, <3>1 DEF FileOf, IsWhole
  <2>4. c.model.id >= c.ema.id /\ c.ema.id >= c.meta.id
    BY <1>1, <2>1, <2>3 DEF FileInv, Ordered
  <2>5. c.model.id \in Nat /\ c.ema.id \in Nat /\ c.meta.id \in Nat
    BY <1>1, <2>1, <2>3, IdsAreNat
  <2>6. c.model.id = c.ema.id /\ c.ema.id = c.meta.id
    <3>1. c.model.id = c.meta.id
      BY <1>1
    <3> HIDE DEF c
    <3> QED
      BY <2>4, <2>5, <3>1
  <2> QED
    BY <2>1, <2>3, <2>6 DEF OneSave
<1>2. TypeInv /\ FileInv => FilesInOrder
  BY <1>1 DEF FileInv, Ordered, FilesInOrder
<1> QED
  BY <1>2, AlwaysFileInv, PTL

-----------------------------------------------------------------------------
(* What the weights have been through, and what the loops rely on: an epoch *)
(* that was left was drained, or the step limit was hit.                    *)
Complete(n) ==
  weights.clean => \A e \in Epochs : e < n => weights.visited[e] >= MicroBatches

EpochDone == HitMaxSteps(meta.global_step) \/ weights.visited[epoch] >= MicroBatches
AllDone   == HitMaxSteps(meta.global_step) \/ Complete(MaxEpochs)

AfterEpoch ==
  pc \in {"eval", "periodic", "check"} \/ (pc = "save" /\ saving.ret # "stopped")

MemoryInv ==
  /\ weights.clean => meta.global_step = weights.steps
  /\ Complete(meta.epoch)
  /\ Running => meta.epoch <= epoch /\ Complete(epoch) /\ weights.batch = current_batch_size
  /\ pc = "recv" => weights.visited[epoch] >= step_count
  /\ AfterEpoch => EpochDone
  /\ pc = "save" /\ saving.ret = "stopped" => AllDone
  /\ outcome = "ok" => AllDone

(* Until its first periodic save, a fresh process has the default recorded. *)
Stale == Running /\ meta.current_batch_size # current_batch_size

BatchInv == Stale =>
  /\ meta.current_batch_size = DefaultBatchSize
  /\ epoch < SaveEvery
  /\ pc \in {"load_data", "loop"} => epoch = 0 \/ meta.epoch < epoch
  /\ pc = "check" => epoch + 1 < SaveEvery
  /\ pc = "save" => BeforeFirstPeriodic(saving.tag, meta) /\ saving.ret # "check"

(* The same of the checkpoints whose files come from one save.              *)
Agree(t, w, m) ==
  /\ w.clean => m.global_step = w.steps
  /\ w.clean => \A e \in Epochs : e < m.epoch => w.visited[e] >= MicroBatches
  /\ \/ m.current_batch_size = w.batch
     \/ m.current_batch_size = DefaultBatchSize /\ BeforeFirstPeriodic(t, m)

DiskInv == \A t \in Tags : OneSave(disk[t]) => Agree(t, disk[t].model.data, disk[t].meta.data)

TrainerInv == TypeInv /\ FileInv /\ MemoryInv /\ BatchInv /\ DiskInv

LEMMA InitTrainerInv == Init => TrainerInv
<1> SUFFICES ASSUME Init PROVE TrainerInv
  OBVIOUS
<1>1. MemoryInv
  <2>1. ~ \E e \in Epochs : e < 0
    BY DEF Epochs
  <2> QED
    BY <2>1 DEF Init, MemoryInv, Complete, AfterEpoch, Running
<1>2. DiskInv
  BY TornIs DEF Init, DiskInv, OneSave
<1>3. BatchInv
  BY DEF Init, BatchInv, Stale, Running
<1> QED
  BY <1>1, <1>2, <1>3, InitTypeInv, InitFileInv DEF TrainerInv

(* What is on disk changes with the completion of a save only.              *)
LEMMA DiskStep == TrainerInv /\ [Next]_vars => DiskInv'
<1> SUFFICES ASSUME TrainerInv, [Next]_vars PROVE DiskInv'
  OBVIOUS
<1>1. CASE disk' = disk
  BY <1>1 DEF TrainerInv, DiskInv
<1>2. CASE OpenFile
  <2> SUFFICES ASSUME NEW t \in Tags, OneSave(disk'[t])
               PROVE  Agree(t, disk'[t].model.data, disk'[t].meta.data)
    BY DEF DiskInv, OneSave, Agree
  <2>1. t # saving.tag
    BY <1>2, Opened, TornIs DEF TrainerInv, OneSave
  <2>2. disk'[t] = disk[t]
    BY <1>2, <2>1, Opened DEF TrainerInv
  <2> QED
    BY <2>2 DEF TrainerInv, DiskInv
<1>3. CASE CloseFile
  <2> SUFFICES ASSUME NEW t \in Tags, OneSave(disk'[t])
               PROVE  Agree(t, disk'[t].model.data, disk'[t].meta.data)
    BY DEF DiskInv, OneSave, Agree
  <2>1. CASE t # saving.tag
    <3>1. disk'[t] = disk[t]
      BY <1>3, <2>1, Closed DEF TrainerInv
    <3> QED
      BY <3>1 DEF TrainerInv, DiskInv
  <2>2. CASE t = saving.tag
    <3> DEFINE c == disk'[t]
               d == disk[t]
    <3>1. /\ pc = "save" /\ saving.file \in 1 .. 3
          /\ c.model = IF saving.file = 1 THEN Whole(saves, weights) ELSE d.model
          /\ c.ema = IF saving.file = 2 THEN Whole(saves, ema) ELSE d.ema
          /\ c.meta = IF saving.file = 3 THEN Whole(saves, meta) ELSE d.meta
      BY <1>3, <2>2, Closed DEF TrainerInv
    <3>2. IsWhole(c.model) /\ IsWhole(c.ema) /\ IsWhole(c.meta)
          /\ c.model.id = c.ema.id /\ c.ema.id = c.meta.id
      BY DEF OneSave
    <3>3. IsWhole(d.meta) => d.meta.id < saves /\ d.meta.id \in Nat /\ saves \in Nat
      BY <3>1, IdsAreNat DEF TrainerInv, FileInv, Dated
    <3>4. Whole(saves, weights).id = saves /\ Whole(saves, ema).id = saves
      BY WholeIs
    <3> HIDE DEF c, d
    <3>5. saving.file = 3
      BY <3>1, <3>2, <3>3, <3>4
    <3>6. c.model = Whole(saves, weights) /\ c.meta = Whole(saves, meta)
      BY <2>2, <3>1, <3>5 DEF TrainerInv, FileInv, InProgress, d
    <3>7. c.model.data = weights /\ c.meta.data = meta
      BY <3>6, WholeIs
    <3>8. \/ meta.current_batch_size = weights.batch
          \/ meta.current_batch_size = DefaultBatchSize /\ BeforeFirstPeriodic(t, meta)
      BY <2>2, <3>1 DEF TrainerInv, MemoryInv, BatchInv, Stale, Running
    <3>9. Agree(t, weights, meta)
      BY <3>8 DEF TrainerInv, MemoryInv, Complete, Agree
    <3> QED
      BY <3>7, <3>9 DEF c
  <2> QED
    BY <2>1, <2>2
<1>4. disk' = disk \/ OpenFile \/ CloseFile
  BY DEF Next, Start, StartFresh, StartResumed, ResumeFails, TrainStep, LoadData, EnterEpoch,
         TrainMicroBatch, TrainMicroBatchFails, EpochDrained, Evaluate, EvaluateFails,
         SkipEvaluate, SavePeriodic, NextEpoch, SaveFinal, SaveFails, Crash, storage, vars
<1> QED
  BY <1>1, <1>2, <1>3, <1>4

-----------------------------------------------------------------------------
(* Steps that train nothing and stay inside the epoch.                      *)
LEMMA MetaFields ==
  ASSUME NEW m \in Meta, NEW v
  PROVE  /\ [m EXCEPT !.epoch = v].epoch = v
         /\ [m EXCEPT !.epoch = v].global_step = m.global_step
         /\ [m EXCEPT !.epoch = v].current_batch_size = m.current_batch_size
         /\ [m EXCEPT !.global_step = v].epoch = m.epoch
         /\ [m EXCEPT !.global_step = v].global_step = v
         /\ [m EXCEPT !.global_step = v].current_batch_size = m.current_batch_size
         /\ [m EXCEPT !.best_val_acc = v].epoch = m.epoch
         /\ [m EXCEPT !.best_val_acc = v].global_step = m.global_step
         /\ [m EXCEPT !.best_val_acc = v].best_val_acc = v
         /\ [m EXCEPT !.best_val_acc = v].current_batch_size = m.current_batch_size
         /\ [m EXCEPT !.current_batch_size = v].epoch = m.epoch
         /\ [m EXCEPT !.current_batch_size = v].global_step = m.global_step
         /\ [m EXCEPT !.current_batch_size = v].best_val_acc = m.best_val_acc
         /\ [m EXCEPT !.current_batch_size = v].current_batch_size = v
BY DEF Meta

LEMMA TagsDiffer == Best # Final
BY DEF Best, Final

LEMMA ExitMemory ==
  ASSUME MemoryInv, NEW how \in {"error", "crash"}, Exit(how), UNCHANGED <<process, meta, trained>>
  PROVE  MemoryInv'
BY DEF Exit, MemoryInv, Complete, AfterEpoch, Running, process, trained

LEMMA StartMemory ==
  ASSUME TrainerInv, Start
  PROVE  MemoryInv'
<1>1. ASSUME NEW a \in Args, StartFresh(a) PROVE MemoryInv'
  <2>1. ~ \E e \in Epochs : e < 0
    BY DEF Epochs
  <2>2. meta'.epoch = 0 /\ meta'.global_step = 0 /\ epoch' = 0 /\ pc' = "load_data" /\ outcome' = "none"
        /\ weights'.steps = 0 /\ weights'.batch = current_batch_size'
    BY <1>1 DEF StartFresh
  <2> QED
    BY <2>1, <2>2 DEF MemoryInv, Complete, AfterEpoch, Running
<1>2. ASSUME NEW a \in Args, NEW t \in Tags, StartResumed(a, t) PROVE MemoryInv'
  <2> DEFINE c == disk[t]
             w == c.model.data
             m == c.meta.data
  <2>1. /\ pc' = "load_data" /\ outcome' = "none" /\ meta' = m /\ epoch' = m.epoch
        /\ current_batch_size' = m.current_batch_size
        /\ weights' = [steps |-> w.steps, visited |-> w.visited, seen |-> w.seen,
                       batch |-> m.current_batch_size, clean |-> w.clean /\ OneSave(c)]
    BY <1>2 DEF StartResumed, RestoredMeta, StartEpoch
  <2>2. m.epoch \in Nat
    <3>1. TypeInv'
      BY StartType DEF TrainerInv
    <3>2. epoch' \in Nat
      BY <3>1 DEF TypeInv, TypeOK
    <3> QED
      BY <2>1, <3>2
  <2>3. OneSave(c) => Agree(t, w, m)
    BY DEF TrainerInv, DiskInv
  <2> HIDE DEF c, w, m
  <2>4. /\ weights'.steps = w.steps /\ weights'.visited = w.visited
        /\ weights'.batch = m.current_batch_size /\ weights'.clean = (w.clean /\ OneSave(c))
    BY <2>1
  <2>5. weights'.clean => w.clean /\ OneSave(c)
    BY <2>4
  <2>6. weights'.clean => meta'.global_step = weights'.steps
    BY <2>1, <2>3, <2>4, <2>5 DEF Agree
  <2>7. Complete(meta.epoch)' /\ Complete(epoch)'
    BY <2>1, <2>3, <2>4, <2>5 DEF Agree, Complete
  <2>8. weights'.batch = current_batch_size' /\ meta'.epoch <= epoch'
    BY <2>1, <2>2, <2>4
  <2> QED
    BY <2>1, <2>6, <2>7, <2>8 DEF MemoryInv, AfterEpoch, Running
<1>3. ASSUME NEW a \in Args, NEW t \in Tags, ResumeFails(a, t) PROVE MemoryInv'
  BY <1>3 DEF ResumeFails, trained, storage, TrainerInv, MemoryInv, Complete, AfterEpoch, Running
<1> QED
  BY <1>1, <1>2, <1>3 DEF Start

LEMMA TrainMemory ==
  ASSUME TrainerInv, TrainMicroBatch
  PROVE  MemoryInv'
<1>1. /\ pc = "recv" /\ step_count' = step_count + 1 /\ step_count \in Nat
      /\ UNCHANGED <<outcome, args, epoch, current_batch_size>>
      /\ weights \in Weights /\ meta \in Meta /\ outcome = "none"
  BY DEF TrainMicroBatch, process, TrainerInv, TypeInv, TypeOK, FileInv, Running
<1>2. /\ epoch \in Epochs /\ weights.visited \in [Epochs -> Nat]
      /\ Visited = [weights.visited EXCEPT ![epoch] = weights.visited[epoch] + 1]
  BY <1>1, FoldedType DEF TrainerInv, Weights, Visited
<1>3. /\ Visited[epoch] = weights.visited[epoch] + 1 /\ weights.visited[epoch] \in Nat
      /\ \A e \in Epochs : weights.visited[e] \in Nat /\ Visited[e] >= weights.visited[e]
  <2> DEFINE v == weights.visited
  <2> HIDE DEF v
  <2>1. v \in [Epochs -> Nat] /\ Visited = [v EXCEPT ![epoch] = v[epoch] + 1]
    BY <1>2 DEF v
  <2>2. Visited[epoch] = v[epoch] + 1 /\ v[epoch] \in Nat
        /\ \A e \in Epochs : v[e] \in Nat /\ Visited[e] >= v[e]
    BY <1>2, <2>1
  <2> QED
    BY <2>2 DEF v
<1>4. /\ weights'.visited = Visited /\ weights'.clean = weights.clean /\ weights'.batch = weights.batch
      /\ \/ /\ weights'.steps = weights.steps + 1
            /\ meta'.global_step = meta.global_step + 1 /\ meta'.epoch = meta.epoch
            /\ pc' = IF HitMaxSteps(meta'.global_step) THEN "eval" ELSE "recv"
         \/ weights'.steps = weights.steps /\ meta' = meta /\ pc' = "recv"
  <2>1. CASE (step_count + 1) % AccumSteps = 0
    <3>1. /\ weights' = [steps   |-> weights.steps + 1,
                         visited |-> Visited,
                         seen    |-> [e \in Epochs |-> weights.seen[e] + Folded[e]],
                         batch   |-> weights.batch,
                         clean   |-> weights.clean]
          /\ meta' = [meta EXCEPT !.global_step = meta.global_step + 1]
          /\ pc' = IF HitMaxSteps(meta.global_step + 1) THEN "eval" ELSE "recv"
      BY <2>1 DEF TrainMicroBatch
    <3>2. meta'.global_step = meta.global_step + 1 /\ meta'.epoch = meta.epoch
      BY <1>1, <3>1, MetaFields
    <3> QED
      BY <3>1, <3>2
  <2>2. CASE (step_count + 1) % AccumSteps # 0
    <3>1. weights' = [weights EXCEPT !.visited = Visited] /\ meta' = meta /\ pc' = pc
      BY <2>2 DEF TrainMicroBatch
    <3> QED
      BY <1>1, <3>1 DEF Weights
  <2> QED
    BY <2>1, <2>2
<1>5. /\ weights.clean => meta.global_step = weights.steps
      /\ Complete(meta.epoch) /\ Complete(epoch) /\ meta.epoch <= epoch
      /\ weights.batch = current_batch_size /\ weights.visited[epoch] >= step_count
  BY <1>1 DEF TrainerInv, MemoryInv, Running
<1>6. MicroBatches \in Nat
  BY TrainerAssumption
<1>7. meta'.epoch = meta.epoch
  BY <1>4
<1>8. Complete(meta.epoch)' /\ Complete(epoch)'
  <2>1. ASSUME weights'.clean, NEW e \in Epochs, e < meta'.epoch \/ e < epoch'
        PROVE  weights'.visited[e] >= MicroBatches
    <3>1. weights.visited[e] >= MicroBatches
      BY <1>1, <1>4, <1>5, <1>7, <2>1 DEF Complete
    <3>2. weights.visited[e] \in Nat /\ Visited[e] \in Nat /\ Visited[e] >= weights.visited[e]
      BY <1>1, <1>3, FoldedType DEF TrainerInv
    <3> QED
      BY <1>4, <1>6, <3>1, <3>2
  <2> QED
    BY <2>1 DEF Complete
<1>9. weights'.clean => meta'.global_step = weights'.steps
  BY <1>4, <1>5
<1>10. pc' = "recv" => weights'.visited[epoch'] >= step_count'
  BY <1>1, <1>3, <1>4, <1>5
<1>11. /\ pc' \in {"eval", "recv"}
       /\ pc' = "eval" => HitMaxSteps(meta.global_step)'
  BY <1>1, <1>4 DEF HitMaxSteps
<1> QED
  BY <1>1, <1>4, <1>5, <1>7, <1>8, <1>9, <1>10, <1>11
  DEF MemoryInv, AfterEpoch, EpochDone, Running

(* The other steps of train(), which leave the weights alone.               *)
LEMMA LoopMemory ==
  ASSUME TrainerInv,
         \/ (LoadData /\ pc' = "loop") \/ EnterEpoch \/ EpochDrained \/ SkipEvaluate
         \/ NextEpoch \/ SaveFinal \/ SavePeriodic \/ \E acc \in Accuracies : Evaluate(acc)
  PROVE  MemoryInv'
<1>1. /\ UNCHANGED <<weights, args, current_batch_size>> /\ outcome' = "none" /\ outcome = "none"
      /\ Running /\ meta \in Meta
  BY DEF TrainerInv, FileInv, TypeInv, TypeOK, Running, LoadData, EnterEpoch, EpochDrained,
         SkipEvaluate, NextEpoch, SaveFinal, SavePeriodic, Evaluate, process, trained, Exit
<1>2. /\ weights.clean => meta.global_step = weights.steps
      /\ Complete(meta.epoch) /\ Complete(epoch) /\ meta.epoch <= epoch
      /\ weights.batch = current_batch_size /\ epoch \in Nat
  BY <1>1 DEF TrainerInv, TypeInv, TypeOK, MemoryInv
<1>3. CASE LoadData /\ pc' = "loop"
  BY <1>1, <1>2, <1>3 DEF LoadData, process, MemoryInv, Complete, AfterEpoch
<1>4. CASE EnterEpoch
  <2>1. /\ meta'.epoch = epoch /\ meta'.global_step = meta.global_step /\ epoch' = epoch
        /\ pc' = "recv" /\ step_count' = 0
    BY <1>1, <1>4, MetaFields DEF EnterEpoch, process
  <2>2. weights.visited[epoch] >= 0
    <3>1. epoch \in Epochs
      BY <1>2, <1>4, TrainerAssumption DEF EnterEpoch, Epochs
    <3> QED
      BY <3>1 DEF TrainerInv, TypeInv, TypeOK, Weights
  <2> QED
    BY <1>1, <1>2, <2>1, <2>2 DEF MemoryInv, Complete, AfterEpoch
<1>5. CASE EpochDrained
  <2>1. EpochDone
    BY <1>5 DEF EpochDrained, TrainerInv, MemoryInv, EpochDone
  <2> QED
    BY <1>1, <1>2, <1>5, <2>1
    DEF EpochDrained, process, MemoryInv, Complete, AfterEpoch, EpochDone, HitMaxSteps
<1>6. CASE SkipEvaluate
  <2>1. EpochDone
    BY <1>6 DEF SkipEvaluate, TrainerInv, MemoryInv, AfterEpoch
  <2> QED
    BY <1>1, <1>2, <1>6, <2>1
    DEF SkipEvaluate, process, MemoryInv, Complete, AfterEpoch, EpochDone, HitMaxSteps
<1>7. CASE NextEpoch
  <2>1. weights.visited[epoch] >= MicroBatches
    BY <1>7 DEF NextEpoch, TrainerInv, MemoryInv, AfterEpoch, EpochDone
  <2>2. Complete(epoch + 1)
    BY <1>2, <2>1 DEF Complete, Epochs
  <2> QED
    <3>1. meta.epoch <= epoch + 1
      BY <1>2 DEF TrainerInv, TypeInv, TypeOK, Meta
    <3> QED
      BY <1>1, <1>2, <1>7, <2>2, <3>1 DEF NextEpoch, MemoryInv, Complete, AfterEpoch
<1>8. CASE SaveFinal
  <2>1. pc' = "save" /\ saving'.ret = "stopped" /\ saving'.tag = Final /\ meta' = meta /\ epoch' = epoch
    BY <1>8 DEF SaveFinal, BeginSave, process
  <2>2. AllDone
    <3>1. CASE epoch >= MaxEpochs
      BY <1>2, <3>1, TrainerAssumption DEF Complete, AllDone, Epochs
    <3> QED
      BY <1>8, <3>1 DEF SaveFinal, AllDone
  <2> QED
    BY <1>1, <1>2, <2>1, <2>2, TagsDiffer
    DEF MemoryInv, Complete, AfterEpoch, AllDone, HitMaxSteps
<1>9. CASE SavePeriodic
  <2>1. EpochDone
    BY <1>9 DEF SavePeriodic, TrainerInv, MemoryInv, AfterEpoch
  <2>2. meta'.global_step = meta.global_step /\ meta'.epoch = meta.epoch /\ epoch' = epoch
    <3>1. meta' = [meta EXCEPT !.current_batch_size = current_batch_size] \/ meta' = meta
      BY <1>9 DEF SavePeriodic, Stamped
    <3>2. meta'.global_step = meta.global_step /\ meta'.epoch = meta.epoch
      <4>1. CASE meta' = [meta EXCEPT !.current_batch_size = current_batch_size]
        BY <1>1, <4>1, MetaFields
      <4> QED
        BY <3>1, <4>1
    <3> QED
      BY <1>9, <3>2 DEF SavePeriodic, process
  <2>3. /\ Complete(meta.epoch)' /\ Complete(epoch)' /\ EpochDone'
        /\ weights'.clean => meta'.global_step = weights'.steps
    BY <1>1, <1>2, <2>1, <2>2 DEF Complete, EpochDone, HitMaxSteps
  <2>4. CASE SaveDue
    <3>1. /\ pc' = "save" /\ saving'.ret = "check"
          /\ meta' = [meta EXCEPT !.current_batch_size = current_batch_size]
      BY <1>9, <2>4 DEF SavePeriodic, Stamped, BeginSave
    <3>2. meta'.current_batch_size = current_batch_size
      BY <1>1, <3>1, MetaFields
    <3> QED
      BY <1>1, <1>2, <2>2, <2>3, <3>1, <3>2 DEF MemoryInv
  <2>5. CASE ~ SaveDue
    <3>1. pc' = "check"
      BY <1>9, <2>5 DEF SavePeriodic
    <3> QED
      BY <1>1, <1>2, <2>2, <2>3, <3>1 DEF MemoryInv
  <2> QED
    BY <2>4, <2>5
<1>10. ASSUME NEW acc \in Accuracies, Evaluate(acc) PROVE MemoryInv'
  <2>1. EpochDone
    BY <1>10 DEF Evaluate, TrainerInv, MemoryInv, AfterEpoch
  <2>2. meta'.global_step = meta.global_step /\ meta'.epoch = meta.epoch /\ epoch' = epoch
    <3>1. meta' = [meta EXCEPT !.best_val_acc = acc] \/ meta' = meta
      BY <1>10 DEF Evaluate
    <3>2. meta'.global_step = meta.global_step /\ meta'.epoch = meta.epoch
      <4>1. CASE meta' = [meta EXCEPT !.best_val_acc = acc]
        BY <1>1, <4>1, MetaFields
      <4> QED
        BY <3>1, <4>1
    <3> QED
      BY <1>10, <3>2 DEF Evaluate, process
  <2>3. /\ Complete(meta.epoch)' /\ Complete(epoch)' /\ EpochDone'
        /\ weights'.clean => meta'.global_step = weights'.steps
    BY <1>1, <1>2, <2>1, <2>2 DEF Complete, EpochDone, HitMaxSteps
  <2>4. \/ pc' = "periodic"
        \/ pc' = "save" /\ saving'.ret = "periodic" /\ saving'.tag = Best
    BY <1>10 DEF Evaluate, BeginSave
  <2> QED
    BY <1>1, <1>2, <2>2, <2>3, <2>4, TagsDiffer DEF MemoryInv
<1> QED
  BY <1>3, <1>4, <1>5, <1>6, <1>7, <1>8, <1>9, <1>10

LEMMA SaveMemory ==
  ASSUME TrainerInv, OpenFile \/ CloseFile
  PROVE  MemoryInv'
<1>1. CASE OpenFile
  BY <1>1, Opened
  DEF TrainerInv, process, MemoryInv, Complete, AfterEpoch, EpochDone, AllDone, HitMaxSteps, Running
<1>2. CASE CloseFile
  <2>1. /\ UNCHANGED <<process, weights, step_count, meta>> /\ pc = "save" /\ Running
        /\ saving.ret \in {"periodic", "check", "stopped"} /\ outcome = "none"
        /\ \/ /\ pc' = "save" /\ outcome' = outcome
              /\ saving'.ret = saving.ret /\ saving'.tag = saving.tag
           \/ /\ pc' = saving.ret
              /\ outcome' = IF saving.ret = "stopped" THEN "ok" ELSE outcome
    BY <1>2, Closed DEF TrainerInv, TypeInv, TypeOK, Saving, FileInv, Running
  <2>2. /\ saving.ret = "stopped" => AllDone
        /\ saving.ret # "stopped" => EpochDone
    BY <2>1 DEF TrainerInv, MemoryInv, AfterEpoch
  <2>3. /\ AllDone' <=> AllDone
        /\ EpochDone' <=> EpochDone
        /\ Complete(meta.epoch)' <=> Complete(meta.epoch)
        /\ Complete(epoch)' <=> Complete(epoch)
    BY <2>1 DEF process, Complete, EpochDone, AllDone, HitMaxSteps
  <2> QED
    BY <2>1, <2>2, <2>3 DEF TrainerInv, process, MemoryInv, AfterEpoch, Running
<1> QED
  BY <1>1, <1>2

(* An epoch below SaveEvery that is not due is not the last one below it.   *)
LEMMA DueAtSaveEvery ==
  ASSUME epoch \in Nat, epoch < SaveEvery, ~ SaveDue
  PROVE  epoch + 1 < SaveEvery
<1>1. SaveEvery \in Nat /\ SaveEvery > 0
  BY TrainerAssumption
<1>2. SaveEvery % SaveEvery = 0
  BY <1>1
<1>3. epoch + 1 # SaveEvery
  BY <1>2 DEF SaveDue
<1> QED
  BY <1>1, <1>3

(* The batch size in meta is the default or the current one, and the        *)
(* default is gone after the first periodic save.                           *)
LEMMA BatchStep == TrainerInv /\ [Next]_vars => BatchInv'
<1> SUFFICES ASSUME TrainerInv, [Next]_vars, Stale' PROVE BatchInv'
  BY DEF BatchInv
<1> USE DEF BatchInv, Stale, BeforeFirstPeriodic
<1>1. meta \in Meta /\ epoch \in Nat /\ meta.epoch \in Nat /\ SaveEvery \in Nat /\ MaxEpochs \in Nat
  BY TrainerAssumption DEF TrainerInv, TypeInv, TypeOK, Meta
<1>2. Running => meta.epoch <= epoch
  BY DEF TrainerInv, MemoryInv
<1>3. ASSUME NEW a \in Args, StartFresh(a) PROVE BatchInv'
  BY <1>3, TrainerAssumption DEF StartFresh
<1>4. ASSUME NEW a \in Args, NEW t \in Tags, StartResumed(a, t) PROVE BatchInv'
  BY <1>4 DEF StartResumed
<1>5. CASE \/ TrainMicroBatchFails \/ EvaluateFails \/ SaveFails \/ Crash
           \/ \E a \in Args, t \in Tags : ResumeFails(a, t)
  BY <1>5 DEF TrainMicroBatchFails, EvaluateFails, SaveFails, Crash, ResumeFails, Exit, Running
<1>6. CASE LoadData
  BY <1>6 DEF LoadData, process, Exit, Running, TrainerInv
<1>7. CASE EnterEpoch
  <2>1. /\ meta'.current_batch_size = meta.current_batch_size
        /\ UNCHANGED <<epoch, current_batch_size>> /\ pc' = "recv" /\ Running
    BY <1>1, <1>7, MetaFields DEF EnterEpoch, process, Running
  <2> QED
    BY <2>1 DEF TrainerInv
<1>8. CASE TrainMicroBatch
  <2>1. meta' = meta \/ meta' = [meta EXCEPT !.global_step = meta.global_step + 1]
    BY <1>8 DEF TrainMicroBatch
  <2>2. meta'.current_batch_size = meta.current_batch_size
    <3>1. CASE meta' = [meta EXCEPT !.global_step = meta.global_step + 1]
      BY <1>1, <3>1, MetaFields
    <3> QED
      BY <2>1, <3>1
  <2>3. UNCHANGED <<epoch, current_batch_size>> /\ pc = "recv" /\ Running
    BY <1>8 DEF TrainMicroBatch, process, Running
  <2>4. pc' \in {"recv", "eval"}
    BY <1>8 DEF TrainMicroBatch
  <2> QED
    BY <2>2, <2>3, <2>4 DEF TrainerInv
<1>9. CASE EpochDrained \/ SkipEvaluate
  BY <1>9 DEF EpochDrained, SkipEvaluate, process, Running, TrainerInv
<1>10. ASSUME NEW acc \in Accuracies, Evaluate(acc) PROVE BatchInv'
  <2>1. meta' = meta \/ meta' = [meta EXCEPT !.best_val_acc = acc]
    BY <1>10 DEF Evaluate
  <2>2. meta'.current_batch_size = meta.current_batch_size /\ meta'.epoch = meta.epoch
    <3>1. CASE meta' = [meta EXCEPT !.best_val_acc = acc]
      BY <1>1, <3>1, MetaFields
    <3> QED
      BY <2>1, <3>1
  <2>3. UNCHANGED <<epoch, current_batch_size>> /\ Running
    BY <1>10 DEF Evaluate, process, Running
  <2>4. \/ pc' = "periodic"
        \/ pc' = "save" /\ saving'.tag = Best /\ saving'.ret = "periodic"
    BY <1>10 DEF Evaluate, BeginSave
  <2> QED
    BY <1>1, <1>2, <2>2, <2>3, <2>4 DEF TrainerInv
(* The periodic save leaves no stale batch size, and before the first one   *)
(* the epoch it is due after lies ahead.                                    *)
<1>11. CASE SavePeriodic
  <2>1. UNCHANGED <<epoch, current_batch_size>> /\ Running
    BY <1>11 DEF SavePeriodic, process, Running
  <2>2. CASE SaveDue
    <3>1. meta' = [meta EXCEPT !.current_batch_size = current_batch_size]
      BY <1>11, <2>2 DEF SavePeriodic, Stamped
    <3> QED
      BY <1>1, <2>1, <3>1, MetaFields
  <2>3. CASE ~ SaveDue
    <3>1. meta' = meta /\ pc' = "check"
      BY <1>11, <2>3 DEF SavePeriodic
    <3> QED
      BY <1>1, <2>1, <2>3, <3>1, DueAtSaveEvery DEF TrainerInv
  <2> QED
    BY <2>2, <2>3
<1>12. CASE NextEpoch
  <2>1. /\ UNCHANGED <<meta, current_batch_size>> /\ epoch' = epoch + 1
        /\ pc = "check" /\ pc' = "loop" /\ Running
    BY <1>12 DEF NextEpoch, Running
  <2> QED
    BY <1>1, <1>2, <2>1 DEF TrainerInv
<1>13. CASE SaveFinal
  <2>1. /\ UNCHANGED <<meta, epoch, current_batch_size>> /\ Running
        /\ pc' = "save" /\ saving'.tag = Final /\ saving'.ret = "stopped"
        /\ pc = "check" \/ (pc = "loop" /\ epoch >= MaxEpochs)
    BY <1>13 DEF SaveFinal, BeginSave, process, Running
  <2>2. meta.epoch + 1 < SaveEvery \/ MaxEpochs = 0
    BY <1>1, <1>2, <2>1 DEF TrainerInv
  <2> QED
    BY <2>1, <2>2 DEF TrainerInv
<1>14. CASE OpenFile
  BY <1>14, Opened DEF TrainerInv, process, Running
<1>15. CASE CloseFile
  <2>1. saving.ret \in {"periodic", "check", "stopped"}
    BY DEF TrainerInv, TypeInv, TypeOK, Saving
  <2>2. /\ UNCHANGED <<meta, epoch, current_batch_size>> /\ pc = "save" /\ Running
        /\ \/ pc' = "save" /\ saving'.ret = saving.ret /\ saving'.tag = saving.tag
           \/ pc' = saving.ret
    BY <1>15, Closed DEF TrainerInv, process, Running
  <2> QED
    BY <2>1, <2>2 DEF TrainerInv, Running
<1>16. CASE UNCHANGED vars
  BY <1>16 DEF vars, TrainerInv, Running
<1> QED
  BY <1>3, <1>4, <1>5, <1>6, <1>7, <1>8, <1>9, <1>10, <1>11, <1>12, <1>13, <1>14, <1>15, <1>16
  DEF Next, Start, TrainStep

LEMMA NextTrainerInv == TrainerInv /\ [Next]_vars => TrainerInv'
<1> SUFFICES ASSUME TrainerInv, [Next]_vars PROVE TrainerInv'
  OBVIOUS
<1>1. TypeInv' /\ FileInv' /\ DiskInv' /\ BatchInv'
  BY StepTypeInv, NextFileInv, DiskStep, BatchStep DEF TrainerInv
<1>2. CASE Start
  BY <1>1, <1>2, StartMemory DEF TrainerInv
<1>3. CASE TrainMicroBatch
  BY <1>1, <1>3, TrainMemory DEF TrainerInv
<1>4. CASE \/ (LoadData /\ pc' = "loop") \/ EnterEpoch \/ EpochDrained \/ SkipEvaluate
           \/ NextEpoch \/ SaveFinal \/ SavePeriodic \/ \E acc \in Accuracies : Evaluate(acc)
  BY <1>1, <1>4, LoopMemory DEF TrainerInv
<1>5. CASE OpenFile \/ CloseFile
  BY <1>1, <1>5, SaveMemory DEF TrainerInv
<1>6. CASE \/ LoadData /\ pc' # "loop"
           \/ TrainMicroBatchFails \/ EvaluateFails \/ SaveFails \/ Crash
  BY <1>1, <1>6, ExitMemory
  DEF TrainerInv, LoadData, TrainMicroBatchFails, EvaluateFails, SaveFails, Crash
<1>7. CASE UNCHANGED vars
  <2>1. MemoryInv'
    BY <1>7 DEF vars, TrainerInv, MemoryInv, Complete, AfterEpoch, EpochDone, AllDone,
                HitMaxSteps, Running
  <2> QED
    BY <1>1, <2>1 DEF TrainerInv
<1> QED
  BY <1>2, <1>3, <1>4, <1>5, <1>6, <1>7 DEF Next, TrainStep

LEMMA AlwaysTrainerInv == Spec => []TrainerInv
BY InitTrainerInv, NextTrainerInv, PTL DEF Spec

(* global_step counts the optimizer steps in the weights, in memory and in  *)
(* every checkpoint that comes from one save.                               *)
THEOREM StepsAreCounted == Spec => []GlobalStepCountsWeights
<1>1. TrainerInv => GlobalStepCountsWeights
  BY DEF TrainerInv, MemoryInv, DiskInv, Agree, GlobalStepCountsWeights
<1> QED
  BY <1>1, AlwaysTrainerInv, PTL

(* A resumed process repeats the epoch it was saved in and skips none.      *)
THEOREM ResumeSkipsNoEpoch == Spec => []NoEpochSkipped
<1>1. TrainerInv => NoEpochSkipped
  BY DEF TrainerInv, MemoryInv, Complete, NoEpochSkipped
<1> QED
  BY <1>1, AlwaysTrainerInv, PTL

(* A checkpoint of one save records the batch size of its weights, or the   *)
(* default if no periodic save of a fresh process came before it.           *)
THEOREM BatchSizeIsRecorded == Spec => []RecordedBatchSize
<1>1. TrainerInv => RecordedBatchSize
  BY DEF TrainerInv, DiskInv, Agree, RecordedBatchSize
<1> QED
  BY <1>1, AlwaysTrainerInv, PTL

(* A process that ends well has reached its limit or trained every epoch.   *)
THEOREM ProcessStopsAtALimit == Spec => []StopsAtALimit
<1>1. TrainerInv => StopsAtALimit
  BY TrainerAssumption DEF TrainerInv, MemoryInv, AllDone, Complete, Epochs, StopsAtALimit
<1> QED
  BY <1>1, AlwaysTrainerInv, PTL

-----------------------------------------------------------------------------
(* A save that completes its last file leaves what is in memory.            *)
LEMMA SaveCompletes ==
  ASSUME TypeInv, FileInv, CloseFile, saving.file = 3
  PROVE  LET c == disk'[saving.tag] IN
         /\ OneSave(c)
         /\ c.model.data = weights /\ c.ema.data = ema /\ c.meta.data = meta
<1> DEFINE c == disk'[saving.tag]
<1>1. /\ c.model = Whole(saves, weights) /\ c.ema = Whole(saves, ema)
      /\ c.meta = Whole(saves, meta)
  BY Closed DEF FileInv, InProgress
<1> HIDE DEF c
<1>2. /\ IsWhole(c.model) /\ c.model.id = saves /\ c.model.data = weights
      /\ IsWhole(c.ema) /\ c.ema.id = saves /\ c.ema.data = ema
      /\ IsWhole(c.meta) /\ c.meta.id = saves /\ c.meta.data = meta
  BY <1>1, WholeIs
<1> QED
  BY <1>2 DEF OneSave, c

LEMMA FinalStep ==
  ASSUME TypeInv, FileInv, FinalIsLastState, [Next]_vars
  PROVE  FinalIsLastState'
<1>1. CASE CloseFile /\ outcome' = "ok"
  <2>1. saving.file = 3 /\ saving.tag = Final
    BY <1>1, Closed DEF FileInv, InProgress, Running
  <2>2. UNCHANGED <<weights, ema, meta>>
    BY <1>1, Closed
  <2> QED
    BY <1>1, <2>1, <2>2, SaveCompletes DEF FinalIsLastState, OneSave
<1>2. CASE UNCHANGED vars
  BY <1>2 DEF vars, FinalIsLastState, OneSave
<1>3. CASE outcome' # "ok"
  BY <1>3 DEF FinalIsLastState
<1>4. outcome' = "ok" => CloseFile \/ UNCHANGED vars
  <2>1. Start => outcome' # "ok"
    BY DEF Start, StartFresh, StartResumed, ResumeFails
  <2>2. Crash \/ SaveFails \/ EvaluateFails \/ TrainMicroBatchFails => outcome' # "ok"
    BY DEF Crash, SaveFails, EvaluateFails, TrainMicroBatchFails, Exit
  <2>3. LoadData => outcome' # "ok"
    BY DEF LoadData, Exit, FileInv, Running
  <2>4. \/ EnterEpoch \/ TrainMicroBatch \/ EpochDrained \/ SkipEvaluate \/ SavePeriodic
        \/ NextEpoch \/ SaveFinal \/ OpenFile \/ (\E acc \in Accuracies : Evaluate(acc))
        => outcome' # "ok"
    BY DEF EnterEpoch, TrainMicroBatch, EpochDrained, SkipEvaluate, SavePeriodic, NextEpoch,
           SaveFinal, OpenFile, Evaluate, FileInv, Running
  <2> QED
    BY <2>1, <2>2, <2>3, <2>4 DEF Next, TrainStep
<1> QED
  BY <1>1, <1>2, <1>3, <1>4

LEMMA BestStep ==
  ASSUME TypeInv, FileInv, BestTagHoldsBest, [Next]_vars
  PROVE  BestTagHoldsBest'
<1> USE DEF BestTagHoldsBest
<1>1. CASE Start
  <2>1. ASSUME NEW a \in Args, StartFresh(a) PROVE meta'.best_val_acc = origin'.best_val_acc
    BY <2>1 DEF StartFresh
  <2>2. ASSUME NEW a \in Args, NEW t \in Tags, StartResumed(a, t)
        PROVE  meta'.best_val_acc = origin'.best_val_acc
    BY <2>2 DEF StartResumed
  <2>3. ASSUME NEW a \in Args, NEW t \in Tags, ResumeFails(a, t) PROVE ~ Running'
    BY <2>3 DEF ResumeFails, Running
  <2>4. TypeInv'
    BY <1>1, StartType
  <2>5. meta'.best_val_acc \in Nat
    BY <2>4 DEF TypeInv, TypeOK, Meta
  <2> QED
    BY <1>1, <2>1, <2>2, <2>3, <2>5 DEF Start
<1>2. CASE pc' = "stopped"
  BY <1>2 DEF Running
<1>3. ASSUME Running, pc # "save", UNCHANGED <<disk, origin>>, meta'.best_val_acc = meta.best_val_acc
      PROVE  BestTagHoldsBest'
  <2>1. saving.file = 0
    BY <1>3 DEF FileInv, NotSaving
  <2> QED
    BY <1>3, <2>1 DEF OneSave
<1>4. CASE OpenFile
  <2>1. Best \in Tags /\ saving.file # 0 /\ meta' = meta /\ origin' = origin /\ Running
    BY <1>4, TagsType, Opened DEF process, Running
  <2>2. CASE saving.tag = Best
    BY <1>4, <2>1, <2>2, Opened
  <2>3. CASE saving.tag # Best
    <3>1. disk'[Best] = disk[Best]
      BY <1>4, <2>1, <2>3, Opened
    <3> QED
      BY <2>1, <2>3, <3>1 DEF OneSave
  <2> QED
    BY <2>2, <2>3
<1>5. CASE CloseFile
  <2>1. Best \in Tags /\ saving.file # 0 /\ meta' = meta /\ origin' = origin /\ Running
    BY <1>5, TagsType, Closed DEF process, Running
  <2>2. CASE saving.tag # Best
    <3>1. disk'[Best] = disk[Best]
      BY <1>5, <2>1, <2>2, Closed
    <3> QED
      BY <2>1, <2>2, <3>1 DEF OneSave
  <2>3. CASE saving.tag = Best /\ saving.file = 3
    BY <1>5, <2>1, <2>3, SaveCompletes DEF OneSave
  <2>4. CASE saving.tag = Best /\ saving.file # 3
    <3>1. saving'.file = saving.file + 1 /\ saving'.tag = Best /\ saving.file \in 1 .. 3
      BY <1>5, <2>4, Closed
    <3> QED
      BY <3>1
  <2> QED
    BY <2>2, <2>3, <2>4
<1>6. CASE LoadData \/ EnterEpoch \/ EpochDrained \/ SkipEvaluate \/ NextEpoch \/ SaveFinal
  <2>1. Running /\ pc # "save" /\ UNCHANGED <<disk, origin>>
    BY <1>6 DEF LoadData, EnterEpoch, EpochDrained, SkipEvaluate, NextEpoch, SaveFinal,
                process, storage, Running
  <2>2. meta' = [meta EXCEPT !.epoch = epoch] \/ meta' = meta
    BY <1>6 DEF LoadData, EnterEpoch, EpochDrained, SkipEvaluate, NextEpoch, SaveFinal
  <2>3. meta'.best_val_acc = meta.best_val_acc
    BY <2>2 DEF TypeInv, TypeOK, Meta
  <2> QED
    BY <1>3, <2>1, <2>3
<1>7. CASE TrainMicroBatch
  <2>1. Running /\ pc # "save" /\ UNCHANGED <<disk, origin>>
    BY <1>7 DEF TrainMicroBatch, process, storage, Running
  <2>2. meta' = [meta EXCEPT !.global_step = meta.global_step + 1] \/ meta' = meta
    BY <1>7 DEF TrainMicroBatch
  <2>3. meta'.best_val_acc = meta.best_val_acc
    BY <2>2 DEF TypeInv, TypeOK, Meta
  <2> QED
    BY <1>3, <2>1, <2>3
<1>8. CASE SavePeriodic
  <2>1. Running /\ pc # "save" /\ UNCHANGED <<disk, origin>>
    BY <1>8 DEF SavePeriodic, process, Running
  <2>2. meta' = [meta EXCEPT !.current_batch_size = current_batch_size] \/ meta' = meta
    BY <1>8 DEF SavePeriodic, Stamped
  <2>3. meta'.best_val_acc = meta.best_val_acc
    BY <2>2 DEF TypeInv, TypeOK, Meta
  <2> QED
    BY <1>3, <2>1, <2>3
<1>9. ASSUME NEW acc \in Accuracies, Evaluate(acc) PROVE BestTagHoldsBest'
  <2>1. Running /\ pc # "save" /\ UNCHANGED <<disk, origin>>
    BY <1>9 DEF Evaluate, process, Running
  <2>2. CASE acc > meta.best_val_acc
    <3>1. saving'.tag = Best /\ saving'.file = 1
      BY <1>9, <2>2 DEF Evaluate, BeginSave
    <3> QED
      BY <3>1
  <2>3. CASE ~ (acc > meta.best_val_acc)
    BY <1>3, <1>9, <2>1, <2>3 DEF Evaluate
  <2> QED
    BY <2>2, <2>3
<1>10. CASE TrainMicroBatchFails \/ EvaluateFails \/ SaveFails \/ Crash
  BY <1>2, <1>10 DEF TrainMicroBatchFails, EvaluateFails, SaveFails, Crash, Exit
<1>11. CASE UNCHANGED vars
  BY <1>11 DEF vars, Running, OneSave
<1> QED
  BY <1>1, <1>4, <1>5, <1>6, <1>7, <1>8, <1>9, <1>10, <1>11 DEF Next, TrainStep

(* A process that ends well leaves a final checkpoint of its last state.    *)
THEOREM FinalCheckpointIsComplete == Spec => []FinalIsLastState
<1>1. Init => FinalIsLastState
  BY DEF Init, FinalIsLastState
<1> QED
  BY <1>1, FinalStep, AlwaysFileInv, PTL DEF Spec

(* The "best" checkpoint is the one of the evaluation that was best.        *)
THEOREM BestCheckpointIsBest == Spec => []BestTagHoldsBest
<1>1. Init => BestTagHoldsBest
  BY DEF Init, BestTagHoldsBest, Running
<1> QED
  BY <1>1, BestStep, AlwaysFileInv, PTL DEF Spec
=============================================================================
