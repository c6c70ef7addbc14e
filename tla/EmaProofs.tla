------------------------------ MODULE EmaProofs ------------------------------
(***************************************************************************)
(* Theorems about Ema, for any set of variables, length of the warm-up,    *)
(* number of optimizer steps and number of checkpoints loaded.             *)
(***************************************************************************)
EXTENDS Ema, TLAPS

Types ==
  /\ warmup \in Nat /\ step \in Nat /\ steps = step /\ loaded \in BOOLEAN
  /\ pc \in {"train", "ended", "in", "out"} /\ todo \in SUBSET Names
  /\ store \in [Storages -> SUBSET (Names \X Nat)]
  /\ shadow \in [Names -> Storages \cup {None}]
  /\ originals \in [Names -> Storages \cup {None}]
  /\ before \in [Names -> SUBSET (Names \X Nat)]

(* The steps whose weights are in an average.                               *)
Averaged == (warmup + 1 .. step) \cup (IF warmup = 0 /\ loaded THEN {0} ELSE {})

(* While the loop trains, a variable holds the weights of the last step, and *)
(* its shadow is: in the warm-up a handle of the variable, afterwards an    *)
(* average, before the first step what was loaded, if anything.             *)
ShadowInv(n) ==
  /\ store[Var(n)] = {<<n, step>>}
  /\ step = 0 => /\ shadow[n] = (IF loaded THEN Avg(n) ELSE None)
                 /\ loaded => store[Avg(n)] = {<<n, 0>>}
  /\ step \in 1 .. warmup => shadow[n] = Var(n)
  /\ step > warmup => shadow[n] = Avg(n) /\ store[Avg(n)] = {n} \X Averaged

(* A variable that swap_in has been at.                                     *)
SwappedIn(n) ==
  /\ originals[n] = Var(n) /\ shadow[n] # Var(n)
  /\ store[Var(n)] = IF shadow[n] = None THEN before[n] ELSE store[Avg(n)]

EmaInv ==
  /\ Types
  /\ \A n \in Names : shadow[n] \in {None, Var(n), Avg(n)}
  /\ pc = "train" => \A n \in Names : ShadowInv(n)
  /\ pc = "in" => \A n \in Names : IF n \in todo THEN store[Var(n)] = before[n]
                                                 ELSE SwappedIn(n)
  /\ pc = "out" => \A n \in Names : SwappedIn(n)

LEMMA Handles ==
  ASSUME NEW n \in Names
  PROVE  /\ Var(n) \in Storages /\ Avg(n) \in Storages
         /\ Var(n) # Avg(n) /\ Var(n) # None /\ Avg(n) # None
         /\ Var(n)[1] = n /\ Var(n)[2] = "var" /\ Avg(n)[1] = n /\ Avg(n)[2] = "avg"
         /\ \A m \in Names : /\ Var(m) # Avg(n)
                             /\ m # n => Var(m) # Var(n) /\ Avg(m) # Avg(n)
BY DEF Var, Avg, Storages, None

LEMMA StorageIs ==
  ASSUME NEW s \in Storages
  PROVE  s[1] \in Names /\ ((s = Var(s[1]) /\ s[2] = "var") \/ (s = Avg(s[1]) /\ s[2] = "avg"))
<1>1. PICK n \in Names : s = Var(n) \/ s = Avg(n)
  BY DEF Storages
<1> QED
  BY <1>1, Handles

LEMMA InitEmaInv == Init => EmaInv
<1> SUFFICES ASSUME Init PROVE EmaInv
  OBVIOUS
<1>1. store \in [Storages -> SUBSET (Names \X Nat)]
  BY StorageIs DEF Init
<1>2. Types
  BY <1>1, EmaAssumption DEF Init, Types
<1>3. ASSUME NEW n \in Names PROVE ShadowInv(n) /\ shadow[n] = None
  BY <1>2, Handles DEF Init, ShadowInv, Types
<1> QED
  BY <1>2, <1>3 DEF Init, EmaInv

LEMMA ResumeStep ==
  ASSUME EmaInv, NEW b \in BOOLEAN, Resume(b)
  PROVE  EmaInv'
<1>1. /\ pc' = "train" /\ step' = 0 /\ steps' = 0 /\ loaded' = b
      /\ store' = [s \in Storages |-> {<<s[1], 0>>}]
      /\ shadow' = [n \in Names |-> IF b THEN Avg(n) ELSE None]
      /\ UNCHANGED <<warmup, todo, originals, before>>
  BY DEF Resume, NewStep
<1>2. store' \in [Storages -> SUBSET (Names \X Nat)]
  BY <1>1, StorageIs
<1>3. shadow' \in [Names -> Storages \cup {None}]
  BY <1>1, Handles
<1>4. Types'
  BY <1>1, <1>2, <1>3 DEF EmaInv, Types
<1>5. ASSUME NEW n \in Names
      PROVE  ShadowInv(n)' /\ shadow'[n] \in {None, Var(n), Avg(n)}
  <2>1. store'[Var(n)] = {<<n, 0>>} /\ store'[Avg(n)] = {<<n, 0>>}
    BY <1>1, Handles
  <2> QED
    BY <1>1, <2>1 DEF ShadowInv, EmaInv, Types
<1> QED
  BY <1>1, <1>4, <1>5 DEF EmaInv

LEMMA SteppedIs ==
  ASSUME EmaInv, NEW s \in Nat
  PROVE  /\ Stepped(s) \in [Storages -> SUBSET (Names \X Nat)]
         /\ \A n \in Names : Stepped(s)[Var(n)] = {<<n, s>>}
                             /\ Stepped(s)[Avg(n)] = store[Avg(n)]
<1>1. ASSUME NEW n \in Names
      PROVE  Stepped(s)[Var(n)] = {<<n, s>>} /\ Stepped(s)[Avg(n)] = store[Avg(n)]
  BY Handles DEF Stepped
<1>2. ASSUME NEW x \in Storages
      PROVE  (IF x[2] = "var" THEN {<<x[1], s>>} ELSE store[x]) \in SUBSET (Names \X Nat)
  BY <1>2, StorageIs DEF EmaInv, Types
<1> QED
  BY <1>1, <1>2 DEF Stepped

LEMMA AddToProduct ==
  ASSUME NEW n, NEW S, NEW k
  PROVE  ({n} \X S) \cup {<<n, k>>} = {n} \X (S \cup {k})
OBVIOUS

LEMMA TrainStepStep == EmaInv /\ TrainStep => EmaInv'
<1> SUFFICES ASSUME EmaInv, TrainStep PROVE EmaInv'
  OBVIOUS
<1> DEFINE st == Stepped(steps + 1)
<1>1. /\ pc = "train" /\ pc' = "train" /\ steps' = steps + 1 /\ step' = step + 1
      /\ UNCHANGED <<warmup, resumes, loaded, todo, originals, before>>
  BY DEF TrainStep
<1>2. steps = step /\ step \in Nat /\ warmup \in Nat
  BY DEF EmaInv, Types
<1>3. /\ st \in [Storages -> SUBSET (Names \X Nat)]
      /\ \A n \in Names : st[Var(n)] = {<<n, step + 1>>} /\ st[Avg(n)] = store[Avg(n)]
  BY <1>2, SteppedIs
<1>4. \/ /\ step + 1 <= warmup /\ store' = st
         /\ shadow' = [n \in Names |-> Var(n)]
      \/ /\ ~ (step + 1 <= warmup)
         /\ store' = [x \in Storages |-> IF x[2] = "avg" THEN Mix(st, x[1]) ELSE st[x]]
         /\ shadow' = [n \in Names |-> Avg(n)]
  BY DEF TrainStep, WarmingUp, Detach
<1> HIDE DEF st
<1>5. CASE step + 1 <= warmup
  <2>1. store' = st /\ shadow' = [n \in Names |-> Var(n)]
    BY <1>4, <1>5
  <2>2. Types'
    <3>1. shadow' \in [Names -> Storages \cup {None}]
      BY <2>1, Handles
    <3> QED
      BY <1>1, <1>2, <1>3, <2>1, <3>1 DEF EmaInv, Types
  <2>3. ASSUME NEW n \in Names
        PROVE  ShadowInv(n)' /\ shadow'[n] \in {None, Var(n), Avg(n)}
    BY <1>1, <1>2, <1>3, <1>5, <2>1 DEF ShadowInv
  <2> QED
    BY <1>1, <2>2, <2>3 DEF EmaInv
<1>6. CASE ~ (step + 1 <= warmup)
  <2>1. /\ store' = [x \in Storages |-> IF x[2] = "avg" THEN Mix(st, x[1]) ELSE st[x]]
        /\ shadow' = [n \in Names |-> Avg(n)]
    BY <1>4, <1>6
  <2>2. ASSUME NEW n \in Names
        PROVE  Mix(st, n) = {n} \X Averaged' /\ Mix(st, n) \in SUBSET (Names \X Nat)
    <3>1. ShadowInv(n)
      BY <1>1 DEF EmaInv
    <3>2. Averaged' = (warmup + 1 .. step + 1) \cup (IF warmup = 0 /\ loaded THEN {0} ELSE {})
      BY <1>1 DEF Averaged
    <3>3. st[Var(n)] = {<<n, step + 1>>} /\ st[Avg(n)] = store[Avg(n)]
      BY <1>3
    <3>4. CASE step = warmup /\ ~ loaded
      <4>1. Mix(st, n) = {<<n, step + 1>>}
        <5>1. shadow[n] = Var(n) \/ shadow[n] = None
          BY <1>2, <3>1, <3>4 DEF ShadowInv
        <5> QED
          BY <3>3, <5>1, Handles DEF Mix
      <4>2. Averaged' = {step + 1}
        BY <1>2, <3>2, <3>4
      <4> QED
        BY <1>2, <4>1, <4>2
    <3>5. CASE step = warmup /\ loaded /\ warmup # 0
      <4>1. Mix(st, n) = {<<n, step + 1>>}
        BY <1>2, <3>1, <3>3, <3>5, Handles DEF ShadowInv, Mix
      <4>2. Averaged' = {step + 1}
        BY <1>2, <3>2, <3>5
      <4> QED
        BY <1>2, <4>1, <4>2
    <3>6. CASE step = warmup /\ loaded /\ warmup = 0
      <4>1. Mix(st, n) = {<<n, 0>>, <<n, 1>>}
        BY <1>2, <3>1, <3>3, <3>6, Handles DEF ShadowInv, Mix
      <4>2. Averaged' = {0, 1}
        BY <1>2, <3>2, <3>6
      <4> QED
        BY <1>2, <4>1, <4>2
    <3>7. CASE step > warmup
      <4>1. Mix(st, n) = ({n} \X Averaged) \cup {<<n, step + 1>>}
        BY <1>2, <3>1, <3>3, <3>7, Handles DEF ShadowInv, Mix
      <4>2. Averaged' = Averaged \cup {step + 1}
        BY <1>2, <3>2, <3>7 DEF Averaged
      <4>3. Averaged \subseteq Nat
        BY <1>2 DEF Averaged
      <4>4. Mix(st, n) = {n} \X (Averaged \cup {step + 1})
        BY <4>1, AddToProduct
      <4>5. step + 1 \in Nat
        BY <1>2
      <4> QED
        BY <4>2, <4>3, <4>4, <4>5
    <3> QED
      BY <1>2, <1>6, <3>4, <3>5, <3>6, <3>7 DEF EmaInv, Types
  <2>3. ASSUME NEW n \in Names
        PROVE  store'[Var(n)] = {<<n, step + 1>>} /\ store'[Avg(n)] = {n} \X Averaged'
    BY <1>3, <2>1, <2>2, Handles
  <2>4. store' \in [Storages -> SUBSET (Names \X Nat)]
    <3>1. ASSUME NEW x \in Storages
          PROVE  (IF x[2] = "avg" THEN Mix(st, x[1]) ELSE st[x]) \in SUBSET (Names \X Nat)
      BY <1>3, <2>2, StorageIs
    <3> QED
      BY <2>1, <3>1
  <2>5. Types'
    <3>1. shadow' \in [Names -> Storages \cup {None}]
      BY <2>1, Handles
    <3> QED
      BY <1>1, <1>2, <2>4, <3>1 DEF EmaInv, Types
  <2>6. ASSUME NEW n \in Names
        PROVE  ShadowInv(n)' /\ shadow'[n] \in {None, Var(n), Avg(n)}
    BY <1>1, <1>2, <1>6, <2>1, <2>3 DEF ShadowInv
  <2> QED
    BY <1>1, <2>5, <2>6 DEF EmaInv
<1> QED
  BY <1>5, <1>6

-----------------------------------------------------------------------------
(* evaluate().                                                              *)
LEMMA SwapInStep ==
  ASSUME EmaInv, NEW n \in Names, SwapIn(n)
  PROVE  EmaInv'
<1>1. /\ pc = "in" /\ n \in todo /\ originals' = [originals EXCEPT ![n] = Var(n)]
      /\ UNCHANGED <<warmup, shadow, step, steps, resumes, loaded, before>>
  BY DEF SwapIn, Detach, training
<1>2. shadow[n] \in {None, Var(n), Avg(n)} /\ store[Var(n)] = before[n]
  BY <1>1 DEF EmaInv
<1>3. originals' \in [Names -> Storages \cup {None}]
  BY <1>1, Handles DEF EmaInv, Types
<1>4. CASE shadow[n] = Var(n)
  <2>1. pc' = "ended" /\ todo' = {} /\ store' = store
    BY <1>4, Handles DEF SwapIn, ShadowOf, SetOk, Fail
  <2> QED
    BY <1>1, <1>3, <2>1 DEF EmaInv, Types
<1>5. CASE shadow[n] # Var(n)
  <2> DEFINE v == IF shadow[n] = None THEN store[Var(n)] ELSE store[Avg(n)]
  <2>1. store' = [store EXCEPT ![Var(n)] = v] /\ todo' = todo \ {n} /\ pc' = pc
    BY <1>2, <1>5 DEF SwapIn, ShadowOf, SetOk
  <2>2. v \in SUBSET (Names \X Nat)
    BY Handles DEF EmaInv, Types
  <2>3. Types'
    BY <1>1, <1>3, <2>1, <2>2, Handles DEF EmaInv, Types
  <2>4. /\ store'[Var(n)] = v
        /\ \A m \in Names : /\ store'[Avg(m)] = store[Avg(m)]
                            /\ m # n => store'[Var(m)] = store[Var(m)]
    BY <2>1, Handles DEF EmaInv, Types
  <2>5. SwappedIn(n)'
    BY <1>1, <1>2, <1>5, <2>4 DEF SwappedIn, EmaInv, Types
  <2>6. ASSUME NEW m \in Names, m # n
        PROVE  IF m \in todo' THEN store'[Var(m)] = before'[m] ELSE SwappedIn(m)'
    <3>1. IF m \in todo THEN store[Var(m)] = before[m] ELSE SwappedIn(m)
      BY <1>1 DEF EmaInv
    <3>2. originals'[m] = originals[m]
      BY <1>1, <2>6 DEF EmaInv, Types
    <3> QED
      BY <1>1, <2>1, <2>4, <2>6, <3>1, <3>2 DEF SwappedIn
  <2>7. \A m \in Names : IF m \in todo' THEN store'[Var(m)] = before'[m] ELSE SwappedIn(m)'
    BY <2>1, <2>5, <2>6
  <2> QED
    BY <1>1, <2>1, <2>3, <2>7 DEF EmaInv
<1> QED
  BY <1>4, <1>5

LEMMA SwapOutStep ==
  ASSUME EmaInv, NEW n \in Names, SwapOut(n)
  PROVE  EmaInv'
<1>1. originals[n] = Var(n)
  BY DEF SwapOut, EmaInv, SwappedIn
<1>2. pc' = "ended" /\ todo' = {} /\ UNCHANGED <<training, originals, before, store>>
  BY <1>1 DEF SwapOut, SetOk, Fail
<1> QED
  BY <1>2 DEF training, EmaInv, Types

LEMMA NextEmaInv == EmaInv /\ [Next]_vars => EmaInv'
<1> SUFFICES ASSUME EmaInv, [Next]_vars PROVE EmaInv'
  OBVIOUS
<1>1. ASSUME NEW b \in BOOLEAN, Resume(b) PROVE EmaInv'
  BY <1>1, ResumeStep
<1>2. CASE TrainStep
  BY <1>2, TrainStepStep
<1>3. CASE BeginEvaluate
  <2>1. /\ pc = "train" /\ pc' = "in" /\ todo' = Names
        /\ before' = [n \in Names |-> store[Var(n)]]
        /\ originals' = [n \in Names |-> None]
        /\ UNCHANGED <<warmup, shadow, step, steps, resumes, loaded, store>>
    BY <1>3 DEF BeginEvaluate, training
  <2>2. Types'
    BY <2>1, Handles DEF EmaInv, Types
  <2>3. \A n \in Names : store'[Var(n)] = before'[n]
    BY <2>1
  <2> QED
    BY <2>1, <2>2, <2>3 DEF EmaInv
<1>4. CASE Forward
  <2>1. UNCHANGED <<training, store, originals, before>> /\ pc = "in" /\ todo = {}
        /\ ((pc' = "out" /\ todo' = Names) \/ (pc' = "ended" /\ todo' = {}))
    BY <1>4 DEF Forward, Fail
  <2> QED
    BY <2>1 DEF training, EmaInv, Types, SwappedIn
<1>5. ASSUME NEW n \in Names, SwapIn(n) \/ SwapOut(n) PROVE EmaInv'
  BY <1>5, SwapInStep, SwapOutStep
<1>6. CASE UNCHANGED vars
  BY <1>6 DEF vars, training, EmaInv, Types, ShadowInv, SwappedIn, Averaged
<1> QED
  BY <1>1, <1>2, <1>3, <1>4, <1>5, <1>6 DEF Next, Evaluate

LEMMA AlwaysEmaInv == Spec => []EmaInv
BY InitEmaInv, NextEmaInv, PTL DEF Spec

-----------------------------------------------------------------------------
(* A shadow averages the weights of exactly the steps since the warm-up,    *)
(* those of the last shadow of the warm-up not among them.                  *)
THEOREM ShadowsAverageSinceWarmup == Spec => []AverageSinceWarmup
<1>1. EmaInv => AverageSinceWarmup
  BY DEF EmaInv, ShadowInv, AverageSinceWarmup, Averaged
<1> QED
  BY <1>1, AlwaysEmaInv, PTL

(* The forward passes of evaluate() see the averages, never a mixture of    *)
(* averages and weights, in whatever order swap_in walks the variables.     *)
THEOREM ForwardSeesAverages == Spec => []EvaluatesAverages
<1>1. EmaInv => EvaluatesAverages
  BY DEF EmaInv, SwappedIn, EvaluatesAverages
<1> QED
  BY <1>1, AlwaysEmaInv, PTL

(* Every variable keeps its type, and the counters their bounds.            *)
THEOREM EmaType == Spec => []TypeOK
<1> DEFINE Weights == SUBSET (Names \X (0 .. MaxSteps))
<1>1. Init => TypeOK
  <2> SUFFICES ASSUME Init PROVE TypeOK
    OBVIOUS
  <2>1. \A s \in Storages : s[1] \in Names
    BY StorageIs
  <2>2. store \in [Storages -> Weights]
    BY <2>1, EmaAssumption DEF Init
  <2>3. before \in [Names -> Weights]
    BY DEF Init
  <2>4. /\ shadow \in [Names -> Storages \cup {None}]
        /\ originals \in [Names -> Storages \cup {None}]
    BY DEF Init
  <2>5. /\ step \in 0 .. MaxSteps /\ steps \in 0 .. MaxSteps
        /\ resumes \in 0 .. MaxResumes
    BY EmaAssumption DEF Init
  <2>6. /\ warmup \in Warmups /\ loaded \in BOOLEAN /\ todo \in SUBSET Names
        /\ pc \in {"train", "ended", "in", "out"}
    BY DEF Init
  <2> QED
    BY <2>2, <2>3, <2>4, <2>5, <2>6, Zenon DEF TypeOK
<1>2. EmaInv /\ TypeOK /\ [Next]_vars => TypeOK'
  <2> SUFFICES ASSUME EmaInv, TypeOK, [Next]_vars PROVE TypeOK'
    OBVIOUS
  <2>1. /\ store \in [Storages -> Weights] /\ before \in [Names -> Weights]
        /\ shadow \in [Names -> Storages \cup {None}]
        /\ originals \in [Names -> Storages \cup {None}]
        /\ \A s \in Storages : s[1] \in Names
        /\ \A n \in Names : Var(n) \in Storages /\ Avg(n) \in Storages
        /\ steps = step /\ MaxSteps \in Nat /\ MaxResumes \in Nat
    BY StorageIs, Handles, EmaAssumption DEF TypeOK, EmaInv, Types
  <2>2. ASSUME NEW b \in BOOLEAN, Resume(b) PROVE TypeOK'
    <3>1. store' \in [Storages -> Weights] /\ shadow' \in [Names -> Storages \cup {None}]
      BY <2>1, <2>2 DEF Resume
    <3> QED
      BY <3>1, <2>1, <2>2 DEF Resume, NewStep, TypeOK
  <2>3. CASE TrainStep
    <3> DEFINE st == Stepped(steps + 1)
    <3>1. steps + 1 \in 0 .. MaxSteps /\ step + 1 = steps + 1
      BY <2>1, <2>3 DEF TrainStep, TypeOK
    <3>2. st \in [Storages -> Weights]
      BY <3>1, <2>1 DEF Stepped
    <3>3. ASSUME NEW n \in Names PROVE Mix(st, n) \in Weights
      <4>1. pc = "train" => shadow[n] \in {None, Var(n), Avg(n)}
        BY DEF EmaInv
      <4>2. (IF shadow[n] = None THEN Var(n) ELSE shadow[n]) \in Storages
        BY <2>1, <4>1, <2>3 DEF TrainStep
      <4> HIDE DEF st
      <4> QED
        BY <4>2, <3>2, <2>1 DEF Mix
    <3>4. store' \in [Storages -> Weights] /\ shadow' \in [Names -> Storages \cup {None}]
      <4> HIDE DEF st
      <4> QED
        BY <3>2, <3>3, <2>1, <2>3 DEF TrainStep, Detach, st
    <3> QED
      BY <3>1, <3>4, <2>3 DEF TrainStep, TypeOK
  <2>4. CASE BeginEvaluate
    <3>1. before' \in [Names -> Weights] /\ originals' \in [Names -> Storages \cup {None}]
      BY <2>1, <2>4 DEF BeginEvaluate
    <3> QED
      BY <3>1, <2>1, <2>4 DEF BeginEvaluate, training, TypeOK
  <2>5. CASE Forward
    BY <2>5 DEF Forward, Fail, training, TypeOK
  <2>6. ASSUME NEW n \in Names, SwapIn(n) PROVE TypeOK'
    <3>1. originals' \in [Names -> Storages \cup {None}]
      BY <2>1, <2>6 DEF SwapIn, Detach
    <3>2. shadow[n] # None => shadow[n] \in Storages /\ store[shadow[n]] \in Weights
      BY <2>1
    <3>3. store' \in [Storages -> Weights]
      BY <2>1, <2>6, <3>2 DEF SwapIn, ShadowOf
    <3>4. todo' \in SUBSET Names /\ pc' \in {"train", "ended", "in", "out"}
      BY <2>6 DEF SwapIn, Fail, TypeOK
    <3> QED
      BY <3>1, <3>3, <3>4, <2>6 DEF SwapIn, training, TypeOK
  <2>7. ASSUME NEW n \in Names, SwapOut(n) PROVE TypeOK'
    <3>1. ~ SetOk(n, originals[n])
      BY <2>7 DEF SwapOut, SetOk, EmaInv, SwappedIn
    <3> QED
      BY <3>1, <2>7 DEF SwapOut, Fail, training, TypeOK
  <2>8. CASE UNCHANGED vars
    BY <2>8 DEF vars, training, TypeOK
  <2> QED
    BY <2>2, <2>3, <2>4, <2>5, <2>6, <2>7, <2>8 DEF Next, Evaluate
<1> QED
  BY <1>1, <1>2, AlwaysEmaInv, PTL DEF Spec
=============================================================================
