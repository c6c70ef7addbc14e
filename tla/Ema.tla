--------------------------------- MODULE Ema ---------------------------------
(***************************************************************************)
(* EMA (src/train/ema.rs) with the optimizer step before each update and   *)
(* Trainer::evaluate, which swaps the averages into the model and back     *)
(* (src/train/trainer.rs).                                                 *)
(*                                                                         *)
(* Tensors are handles of storage that they may share: a variable and what *)
(* detach() makes of it have the same storage, and Var::set writes into    *)
(* the storage of the variable and refuses a tensor that shares it.  The   *)
(* content of a storage is abstracted to the weights averaged in it: pairs *)
(* of a variable and the optimizer step that set it.                       *)
(***************************************************************************)
EXTENDS Naturals, FiniteSets

CONSTANTS
  Names,       \* names of the variables in the VarMap
  Warmups,     \* values of warmup_steps
  MaxSteps,    \* bound: optimizer steps
  MaxResumes   \* bound: checkpoints loaded

ASSUME EmaAssumption ==
  /\ Names # {} /\ IsFiniteSet(Names)
  /\ Warmups \subseteq Nat /\ MaxSteps \in Nat /\ MaxResumes \in Nat

VARIABLES
  warmup,     \* self.warmup_steps
  store,      \* storage -> the weights averaged in it
  shadow,     \* self.shadows: name -> storage, or None
  step,       \* self.step
  steps,      \* history: optimizer steps since the process started
  resumes,    \* history: checkpoints loaded
  loaded,     \* history: was an average loaded with the weights?
  pc,         \* "train", "ended", or where evaluate() is: "in", "out"
  todo,       \* names the loop of swap_in or swap_out has not reached
  originals,  \* local of evaluate: name -> storage, or None
  before      \* history: content of the variables when evaluate started

training == <<warmup, shadow, step, steps, resumes, loaded>>
vars == <<training, store, pc, todo, originals, before>>

Var(n)   == <<n, "var">>       \* the storage of a variable
Avg(n)   == <<n, "avg">>       \* a storage of its own, for an average
Storages == {Var(n) : n \in Names} \cup {Avg(n) : n \in Names}
None     == <<"none", "none">>

-----------------------------------------------------------------------------
(* Tensor::detach: the storage of the variable itself.                      *)
Detach(n) == Var(n)

(* Var::set(src): error if src shares the storage of the variable.          *)
SetOk(n, src) == src # Var(n)

Init ==
  /\ warmup \in Warmups
  /\ store = [s \in Storages |-> IF s[2] = "var" THEN {<<s[1], 0>>} ELSE {}]
  /\ shadow = [n \in Names |-> None]
  /\ step = 0 /\ steps = 0 /\ resumes = 0 /\ loaded = FALSE
  /\ pc = "train" /\ todo = {}
  /\ originals = [n \in Names |-> None]
  /\ before = [n \in Names |-> {}]

(* load_checkpoint into a new trainer: weights and averages of another      *)
(* process, here those of step 0.  The EMA file of a process without a step *)
(* is empty.  ema.step is not in the checkpoint and starts at 0 again.      *)
KeptStep == step                                 \* mutant of NewStep
NewStep == 0

Resume(withAverage) ==
  /\ pc \in {"train", "ended"} /\ resumes < MaxResumes
  /\ pc' = "train"
  /\ resumes' = resumes + 1
  /\ store' = [s \in Storages |-> {<<s[1], 0>>}]
  /\ shadow' = [n \in Names |-> IF withAverage THEN Avg(n) ELSE None]
  /\ step' = NewStep /\ steps' = 0 /\ loaded' = withAverage
  /\ UNCHANGED <<warmup, todo, originals, before>>

(* MultiGroupOptimizer::step sets every variable to new weights, and        *)
(* EMA::update follows: in the warm-up it takes a handle of each variable,  *)
(* later it mixes each shadow with the weights into a new tensor.           *)
Stepped(s) ==
  [x \in Storages |-> IF x[2] = "var" THEN {<<x[1], s>>} ELSE store[x]]

WarmUntil(s) == s < warmup                       \* mutant of WarmingUp
WarmingUp(s) == s <= warmup

Mix(st, n) == st[IF shadow[n] = None THEN Var(n) ELSE shadow[n]] \cup st[Var(n)]

TrainStep ==
  /\ pc = "train" /\ steps < MaxSteps
  /\ steps' = steps + 1 /\ step' = step + 1
  /\ LET st == Stepped(steps + 1)
     IN  \/ /\ WarmingUp(step + 1)
            /\ store' = st
            /\ shadow' = [n \in Names |-> Detach(n)]
         \/ /\ ~ WarmingUp(step + 1)
            /\ store' = [x \in Storages |-> IF x[2] = "avg" THEN Mix(st, x[1]) ELSE st[x]]
            /\ shadow' = [n \in Names |-> Avg(n)]
  /\ UNCHANGED <<warmup, resumes, loaded, pc, todo, originals, before>>

-----------------------------------------------------------------------------
(* evaluate() returns an error: train() passes it on and the process ends.  *)
Fail == pc' = "ended" /\ todo' = {}

(* evaluate(): swap_in walks the variables in the order of a HashMap.       *)
BeginEvaluate ==
  /\ pc = "train"
  /\ pc' = "in" /\ todo' = Names
  /\ originals' = [n \in Names |-> None]
  /\ before' = [n \in Names |-> store[Var(n)]]
  /\ UNCHANGED <<training, store>>

FirstShadow(n) == shadow[CHOOSE m \in Names : TRUE]    \* mutant of ShadowOf
ShadowOf(n) == shadow[n]

SwapIn(n) ==
  /\ pc = "in" /\ n \in todo
  /\ originals' = [originals EXCEPT ![n] = Detach(n)]
  /\ \/ /\ ShadowOf(n) # None /\ ~ SetOk(n, ShadowOf(n))
        /\ Fail
        /\ UNCHANGED store
     \/ /\ ShadowOf(n) = None \/ SetOk(n, ShadowOf(n))
        /\ store' = [store EXCEPT ![Var(n)] =
                       IF ShadowOf(n) = None THEN @ ELSE store[ShadowOf(n)]]
        /\ todo' = todo \ {n}
        /\ UNCHANGED pc
  /\ UNCHANGED <<training, before>>

(* The forward passes over the validation data, which may fail.             *)
Forward ==
  /\ pc = "in" /\ todo = {}
  /\ \/ pc' = "out" /\ todo' = Names
     \/ Fail
  /\ UNCHANGED <<training, store, originals, before>>

(* swap_out sets each variable to its original; the last one returns.       *)
SwapOut(n) ==
  /\ pc = "out" /\ n \in todo
  /\ IF SetOk(n, originals[n])
     THEN /\ store' = [store EXCEPT ![Var(n)] = store[originals[n]]]
          /\ todo' = todo \ {n}
          /\ pc' = IF todo = {n} THEN "train" ELSE "out"
     ELSE Fail /\ UNCHANGED store
  /\ UNCHANGED <<training, originals, before>>

Evaluate ==
  \/ BeginEvaluate \/ Forward
  \/ \E n \in Names : SwapIn(n) \/ SwapOut(n)

Next == (\E b \in BOOLEAN : Resume(b)) \/ TrainStep \/ Evaluate

Spec == Init /\ [][Next]_vars
-----------------------------------------------------------------------------
TypeOK ==
  /\ warmup \in Warmups
  /\ store \in [Storages -> SUBSET (Names \X (0 .. MaxSteps))]
  /\ shadow \in [Names -> Storages \cup {None}]
  /\ step \in 0 .. MaxSteps /\ steps \in 0 .. MaxSteps
  /\ resumes \in 0 .. MaxResumes /\ loaded \in BOOLEAN
  /\ pc \in {"train", "ended", "in", "out"}
  /\ todo \in SUBSET Names
  /\ originals \in [Names -> Storages \cup {None}]
  /\ before \in [Names -> SUBSET (Names \X (0 .. MaxSteps))]

(* After the warm-up a shadow averages the weights of exactly the steps     *)
(* since: not those of the warm-up, whose last shadow is a handle of the    *)
(* variable and has moved on with it, and of a loaded average only without  *)
(* a warm-up.                                                               *)
AverageSinceWarmup ==
  pc = "train" /\ step > warmup => \A n \in Names :
    store[shadow[n]] =
      {n} \X (warmup + 1 .. step \cup IF warmup = 0 /\ loaded THEN {0} ELSE {})

(* The forward passes see the average of every variable that has one, and   *)
(* the weights of the others: no mixture, though swap_in overwrites one     *)
(* variable after the other.                                                *)
EvaluatesAverages ==
  pc = "out" => \A n \in Names :
    store[Var(n)] = IF shadow[n] = None THEN before[n] ELSE store[Avg(n)]

(* train/optimizer.rs:213: "always allocate a fresh buffer for Var::set."   *)
FreshBufferForSet ==
  /\ pc = "in"  => \A n \in todo : shadow[n] # None => SetOk(n, shadow[n])
  /\ pc = "out" => \A n \in todo : SetOk(n, originals[n])
=============================================================================
