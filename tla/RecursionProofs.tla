--------------------------- MODULE RecursionProofs ---------------------------
(***************************************************************************)
(* Theorems about Recursion, for any configurations, batch size, lengths   *)
(* of the three parts of a sequence and limits of the solver.              *)
(***************************************************************************)
EXTENDS Recursion, SequenceTheorems, TLAPS

(***************************************************************************)
(* Flat indices.                                                           *)
(***************************************************************************)
LEMMA Multiple ==
  ASSUME NEW d \in Int, NEW n \in Nat, d >= 1
  PROVE  d * n >= n
BY SMT

LEMMA ProductIsNat ==
  ASSUME NEW a \in Nat, NEW n \in Nat
  PROVE  a * n \in Nat
BY SMT

(* A number has one quotient and one remainder.                             *)
LEMMA OneQuotient ==
  ASSUME NEW n \in Nat, NEW a \in Nat, NEW c \in Nat,
         NEW k \in 0 .. n - 1, NEW m \in 0 .. n - 1, a * n + k = c * n + m
  PROVE  a = c /\ k = m
<1>1. a * n \in Int /\ c * n \in Int
  BY ProductIsNat
<1>2. (a - c) * n = a * n - c * n /\ (c - a) * n = c * n - a * n
  OBVIOUS
<1>3. ~ a > c
  <2> SUFFICES ASSUME a > c PROVE FALSE
    OBVIOUS
  <2>1. (a - c) * n >= n
    BY Multiple
  <2> QED
    BY <2>1, <1>1, <1>2
<1>4. ~ c > a
  <2> SUFFICES ASSUME c > a PROVE FALSE
    OBVIOUS
  <2>1. (c - a) * n >= n
    BY Multiple
  <2> QED
    BY <2>1, <1>1, <1>2
<1>5. a = c
  BY <1>3, <1>4
<1> QED
  BY <1>1, <1>5

(* Two positions of a mask have two indices.                                *)
LEMMA AtIsInjective ==
  ASSUME NEW n \in Nat, NEW b \in Nat, NEW c \in Nat,
         NEW q \in 0 .. n - 1, NEW r \in 0 .. n - 1,
         NEW k \in 0 .. n - 1, NEW m \in 0 .. n - 1, At(b, q, k, n) = At(c, r, m, n)
  PROVE  b = c /\ q = r /\ k = m
<1> DEFINE s == b * n + q
           t == c * n + r
<1>1. s \in Nat /\ t \in Nat
  BY ProductIsNat
<1>2. s * n + k = t * n + m
  BY DEF At
<1>3. s = t /\ k = m
  <2> HIDE DEF s, t
  <2> QED
    BY <1>1, <1>2, OneQuotient
<1>4. b = c /\ q = r
  BY <1>3, OneQuotient
<1> QED
  BY <1>3, <1>4

(* The stride of an example is the size of its mask, so a diagonal element  *)
(* is one of the example's own mask.                                        *)
LEMMA DiagonalIsAt ==
  ASSUME NEW n \in Nat, NEW batch \in Nat \ {0}, NEW b \in Nat, NEW i \in 0 .. n - 1
  PROVE  Diagonal(b, i, n, batch) = At(b, i, i, n)
<1> DEFINE m == n * n
           p == batch * n * n
           d == p \div batch
<1>1. m \in Nat /\ b * n \in Nat
  BY ProductIsNat
<1>2. p = m * batch
  OBVIOUS
<1>3. p \in Nat
  BY <1>1, <1>2, ProductIsNat
<1>4. d \in Nat /\ p = d * batch + (p % batch) /\ p % batch \in 0 .. batch - 1
  <2> HIDE DEF p
  <2> QED
    BY <1>3
<1>5. d = m
  <2> HIDE DEF d, p, m
  <2>1. d * batch + (p % batch) = m * batch + 0
    BY <1>1, <1>2, <1>3, <1>4, ProductIsNat
  <2> QED
    BY <2>1, <1>1, <1>4, OneQuotient
<1>6. (b * n + i) * n = b * m + i * n
  BY <1>1
<1> QED
  BY <1>5, <1>6 DEF Diagonal, At

(* The two masks, element by element.                                       *)
LEMMA PadMaskHas ==
  ASSUME NEW n \in Nat, NEW l \in [Examples -> Nat], NEW b \in Nat, b \in Examples,
         NEW q \in 0 .. n - 1, NEW k \in 0 .. n - 1
  PROVE  At(b, q, k, n) \in PadMask(l, n) <=> q >= l[b] \/ k >= l[b]
<1> DEFINE P == {p \in (DOMAIN l) \X (0 .. n - 1) \X (0 .. n - 1) :
                   p[2] >= l[p[1]] \/ p[3] >= l[p[1]]}
<1>1. ASSUME q >= l[b] \/ k >= l[b] PROVE At(b, q, k, n) \in PadMask(l, n)
  <2>1. <<b, q, k>> \in P
    BY <1>1 DEF Examples
  <2> QED
    BY <2>1 DEF PadMask
<1>2. ASSUME At(b, q, k, n) \in PadMask(l, n) PROVE q >= l[b] \/ k >= l[b]
  <2>1. PICK t \in P : At(b, q, k, n) = At(t[1], t[2], t[3], n)
    BY <1>2 DEF PadMask
  <2>2. PICK c \in Nat, r \in 0 .. n - 1, m \in 0 .. n - 1 :
          At(b, q, k, n) = At(c, r, m, n) /\ (r >= l[c] \/ m >= l[c])
    BY <2>1, RecursionAssumption DEF Examples
  <2>4. At(b, q, k, n) = At(c, r, m, n)
    BY <2>2
  <2>5. b = c /\ q = r /\ k = m
    <3> HIDE DEF P
    <3> QED
      BY <2>4, AtIsInjective
  <2> QED
    BY <2>2, <2>5
<1> QED
  BY <1>1, <1>2

LEMMA ExpandHas ==
  ASSUME NEW m, NEW b \in Nat, b \in Examples,
         NEW q \in 0 .. Total - 1, NEW k \in 0 .. Total - 1
  PROVE  At(b, q, k, Total) \in Expand(m, XSeq, Batch, XSeq, XSeq, ZSeq)
           <=> k < XSeq /\ Diagonal(b, k, XSeq, Batch) \in m
<1> DEFINE P == {p \in (0 .. Batch - 1) \X (0 .. Total - 1) \X (0 .. XSeq - 1) :
                   Diagonal(p[1], p[3], XSeq, Batch) \in m}
<1>1. Total \in Nat /\ XSeq < Total
  BY RecursionAssumption DEF Examples, Total
<1>2. Expand(m, XSeq, Batch, XSeq, XSeq, ZSeq) = {At(t[1], t[2], t[3], Total) : t \in P}
  BY <1>1, RecursionAssumption DEF Expand, Total
<1>3. ASSUME k < XSeq, Diagonal(b, k, XSeq, Batch) \in m
      PROVE  At(b, q, k, Total) \in Expand(m, XSeq, Batch, XSeq, XSeq, ZSeq)
  <2>1. <<b, q, k>> \in P
    BY <1>3, <1>1, RecursionAssumption DEF Examples
  <2> QED
    BY <2>1, <1>2
<1>4. ASSUME At(b, q, k, Total) \in Expand(m, XSeq, Batch, XSeq, XSeq, ZSeq)
      PROVE  k < XSeq /\ Diagonal(b, k, XSeq, Batch) \in m
  <2>1. PICK t \in P : At(b, q, k, Total) = At(t[1], t[2], t[3], Total)
    BY <1>4, <1>2
  <2>2. PICK c \in Nat, r \in 0 .. Total - 1, j \in 0 .. XSeq - 1 :
          At(b, q, k, Total) = At(c, r, j, Total) /\ Diagonal(c, j, XSeq, Batch) \in m
    BY <2>1, RecursionAssumption
  <2>3. j \in 0 .. Total - 1
    BY RecursionAssumption, <1>1
  <2>4. At(b, q, k, Total) = At(c, r, j, Total)
    BY <2>2
  <2>5. b = c /\ q = r /\ k = j
    <3> HIDE DEF P
    <3> QED
      BY <2>3, <2>4, <1>1, AtIsInjective
  <2> QED
    BY <2>2, <2>5, RecursionAssumption
<1> QED
  BY <1>3, <1>4

(* What the expanded mask of a padded batch hides: the padding, as keys.    *)
LEMMA MaskHas ==
  ASSUME NEW l \in [Examples -> 1 .. XSeq], NEW b \in Nat, b \in Examples,
         NEW q \in 0 .. Total - 1, NEW k \in 0 .. Total - 1
  PROVE  At(b, q, k, Total) \in Expand(PadMask(l, XSeq), XSeq, Batch, XSeq, XSeq, ZSeq)
           <=> k < XSeq /\ k >= l[b]
<1>1. Total \in Nat /\ l \in [Examples -> Nat] /\ XSeq \in Nat
  BY RecursionAssumption DEF Examples, Total
<1>2. CASE k < XSeq
  <2>1. k \in 0 .. XSeq - 1
    BY <1>2, <1>1
  <2>2. Diagonal(b, k, XSeq, Batch) = At(b, k, k, XSeq)
    BY <2>1, <1>1, DiagonalIsAt, RecursionAssumption
  <2>3. At(b, k, k, XSeq) \in PadMask(l, XSeq) <=> k >= l[b]
    BY <2>1, <1>1, PadMaskHas
  <2> QED
    BY <2>2, <2>3, <1>2, ExpandHas
<1>3. CASE ~ k < XSeq
  BY <1>3, ExpandHas
<1> QED
  BY <1>2, <1>3

(* Its indices stay inside a tensor of shape (B, 1, n, n).                  *)
LEMMA MaskIsInside ==
  ASSUME NEW l \in [Examples -> 1 .. XSeq]
  PROVE  Expand(PadMask(l, XSeq), XSeq, Batch, XSeq, XSeq, ZSeq)
           \subseteq 0 .. Batch * Total * Total - 1
<1> DEFINE n == Total
<1>1. n \in Nat /\ XSeq < n /\ Batch \in Nat
  BY RecursionAssumption DEF Total
<1>2. ASSUME NEW b \in 0 .. Batch - 1, NEW q \in 0 .. n - 1, NEW k \in 0 .. n - 1
      PROVE  At(b, q, k, n) \in 0 .. Batch * n * n - 1
  <2> HIDE DEF n
  <2> DEFINE s == b * n + q
             r == Batch * n
  <2>1. b * n \in Nat /\ r \in Nat
    BY <1>1, ProductIsNat
  <2>2. (Batch - b) * n = r - b * n /\ (Batch - b) * n >= n
    BY <1>1, <2>1, Multiple
  <2>3. s \in Nat /\ s < r
    BY <2>1, <2>2, <1>1
  <2>4. At(b, q, k, n) = s * n + k
    BY DEF At
  <2> HIDE DEF s, r
  <2>5. s * n \in Nat /\ r * n \in Nat
    BY <2>1, <2>3, <1>1, ProductIsNat
  <2>6. (r - s) * n = r * n - s * n /\ (r - s) * n >= n
    BY <2>1, <2>3, <2>5, <1>1, Multiple
  <2>7. s * n + k \in 0 .. r * n - 1
    BY <2>5, <2>6, <1>1
  <2> QED
    BY <2>4, <2>7 DEF r
<1>3. ASSUME NEW e \in Expand(PadMask(l, XSeq), XSeq, Batch, XSeq, XSeq, ZSeq)
      PROVE  e \in 0 .. Batch * Total * Total - 1
  <2>1. PICK t \in (0 .. Batch - 1) \X (0 .. n - 1) \X (0 .. XSeq - 1) :
          e = At(t[1], t[2], t[3], n)
    BY <1>1, <1>3, RecursionAssumption DEF Expand, Total
  <2>2. t[1] \in 0 .. Batch - 1 /\ t[2] \in 0 .. n - 1 /\ t[3] \in 0 .. n - 1
    BY <1>1, RecursionAssumption
  <2> QED
    BY <2>1, <2>2, <1>2
<1> QED
  BY <1>3

-----------------------------------------------------------------------------
(***************************************************************************)
(* The inductive invariant.                                                *)
(***************************************************************************)
Graphs == [age : Nat, live : SUBSET Nat]
Confidences == [sure : SUBSET Examples, live : SUBSET Nat, ages : Seq(Nat)]

Types ==
  /\ cfg \in Configs /\ call \in {"train", "evaluate", "infer"}
  /\ lens \in [Examples -> 1 .. XSeq]
  /\ mask = IF call = "infer" THEN {}
            ELSE Expand(PadMask(lens, XSeq), XSeq, Batch, XSeq, XSeq, ZSeq)
  /\ pc \in IF cfg.deq THEN {"solve", "fixed", "return", "neumann", "done"}
            ELSE {"loop", "halt", "return", "backward", "done"}
  /\ sup \in 0 .. cfg.n_sup
  /\ y \in Graphs /\ prev_y \in Graphs /\ z \in [live : SUBSET Nat]
  /\ prev_y.age <= cfg.n_sup
  /\ terms \in Seq(Graphs) /\ halts \in Seq(Confidences)
  /\ steps_used \in Steps /\ grad_enabled_steps \in Steps
  /\ pc = "loop" => grad_enabled_steps <= sup
  /\ pc = "halt" => grad_enabled_steps <= sup + 1
  /\ u \in Seq(Nat) /\ Len(u) <= NeumannIters + 1

(* Where a gradient of the answer after step i ends, right after it.        *)
Reach(i) == IF cfg.detach /\ i > 1 THEN {i} ELSE 0 .. i

(* What k supervision steps leave in the trace.                             *)
Trace(k) ==
  /\ Len(halts) = k /\ y.age = k
  /\ Len(terms) = IF cfg.collect THEN k ELSE 0
  /\ \A i \in 1 .. Len(terms) : terms[i].age = i /\ terms[i].live = Reach(i)
  /\ \A i \in 1 .. k :
       /\ halts[i].live = IF cfg.adaptive /\ cfg.head THEN Reach(i) ELSE {}
       /\ halts[i].ages = <<>> \/ halts[i].ages = <<i - 1, i>>

NoneSure(k) == cfg.adaptive => \A i \in 1 .. k : halts[i].sure # Examples

(* Between two steps y and z hang on what the next gradient may reach.      *)
LoopInv ==
  /\ Trace(sup) /\ NoneSure(sup) /\ prev_y.age = sup
  /\ y.live = IF sup < cfg.n_sup
              THEN (IF cfg.detach /\ sup > 0 THEN {} ELSE 0 .. sup) ELSE Reach(sup)
  /\ z.live \subseteq y.live
  /\ prev_y.live \subseteq 0 .. sup

HaltInv ==
  /\ sup < cfg.n_sup /\ Trace(sup + 1) /\ NoneSure(sup)
  /\ y.live = Reach(sup + 1) /\ z.live \subseteq y.live
  /\ prev_y.live \subseteq 0 .. sup

ReturnInv ==
  /\ steps_used <= cfg.n_sup /\ Trace(steps_used) /\ NoneSure(steps_used - 1)
  /\ cfg.adaptive /\ steps_used < cfg.n_sup => halts[steps_used].sure = Examples
  /\ \A e \in y.live \cup z.live \cup prev_y.live : e <= cfg.n_sup

DoneInv ==
  /\ Trace(steps_used)
  /\ \A e \in y.live \cup z.live \cup prev_y.live : e <= cfg.n_sup
  /\ steps_used <= cfg.n_sup
  /\ trained \subseteq 0 .. cfg.n_sup
  /\ call = "train" =>
       trained \ {0} = IF cfg.adaptive /\ cfg.head THEN 1 .. steps_used
                       ELSE IF ~ cfg.collect THEN {}
                       ELSE IF cfg.last_only /\ cfg.detach THEN {steps_used} \ {0}
                       ELSE 1 .. steps_used

UnrolledInv ==
  ~ cfg.deq =>
    /\ pc = "loop" => LoopInv
    /\ pc = "halt" => HaltInv
    /\ pc \in {"return", "backward"} => ReturnInv
    /\ pc = "done" => DoneInv
    /\ pc # "done" => trained = {}

(* DEQ mode reports one step.                                               *)
DeqInv ==
  cfg.deq =>
    /\ \A e \in y.live \cup z.live \cup prev_y.live : e <= 1
    /\ trained \subseteq {0, 1}
    /\ \A i \in 1 .. Len(terms) : terms[i].age = i /\ \A e \in terms[i].live : e <= 1
    /\ \A i \in 1 .. Len(halts) : halts[i].live = {} /\ halts[i].ages = <<>>
    /\ prev_y.age <= 1 /\ y.age <= 1
    /\ Len(terms) <= 1 /\ (pc \in {"solve", "fixed"} => terms = <<>>)
    /\ pc \in {"return", "neumann"} =>
         /\ y.age = 1 /\ steps_used = 1 /\ Len(halts) = 1
         /\ Len(terms) = IF cfg.collect THEN 1 ELSE 0

(* The deques hold the last iterates, without a gap.                        *)
SolverInv ==
  /\ iter \in 0 .. MaxIter
  /\ hist = [z |-> hist.z, f |-> hist.z, r |-> hist.z] /\ hist.z \in Seq(Nat)
  /\ Len(hist.z) <= iter /\ (Len(hist.z) <= cfg.history \/ Len(hist.z) <= 1)
  /\ \A i \in 1 .. Len(hist.z) : hist.z[i] = iter - Len(hist.z) + i - 1
  /\ state.kind \in {"start", "image", "mix"} /\ state.uses \subseteq 0 .. MaxIter
  /\ state.kind = "mix" => iter - 1 \in state.uses
  /\ pc = "fixed" => state = Image(iter)

RecursionInv == Types /\ UnrolledInv /\ DeqInv /\ SolverInv

LEMMA Config ==
  ASSUME cfg \in Configs
  PROVE  /\ cfg.n_sup \in Nat /\ cfg.n_l \in Nat /\ cfg.history \in Nat
         /\ cfg.deq \in BOOLEAN /\ cfg.adaptive \in BOOLEAN /\ cfg.head \in BOOLEAN
         /\ cfg.detach \in BOOLEAN /\ cfg.collect \in BOOLEAN
         /\ cfg.last_only \in BOOLEAN /\ cfg.ift \in BOOLEAN
         /\ MaxIter \in Nat /\ NeumannIters \in Nat
BY RecursionAssumption

(* What every call starts from.                                             *)
Fresh ==
  /\ sup = 0 /\ y = Y0 /\ z = Z0 /\ prev_y = Y0 /\ terms = <<>> /\ halts = <<>>
  /\ steps_used = 0 /\ grad_enabled_steps = 0
  /\ iter = 0 /\ state = S0 /\ hist = H0 /\ u = <<1>> /\ trained = {}

LEMMA FreshTypes ==
  ASSUME Fresh, cfg \in Configs
  PROVE  /\ sup \in 0 .. cfg.n_sup
         /\ y \in Graphs /\ prev_y \in Graphs /\ z \in [live : SUBSET Nat]
         /\ prev_y.age <= cfg.n_sup
         /\ terms \in Seq(Graphs) /\ halts \in Seq(Confidences)
         /\ steps_used \in Steps /\ grad_enabled_steps \in Steps
         /\ grad_enabled_steps <= sup
         /\ u \in Seq(Nat) /\ Len(u) <= NeumannIters + 1
BY Config DEF Fresh, Y0, Z0, Graphs, Steps

LEMMA FreshTrace ==
  ASSUME Fresh, cfg \in Configs
  PROVE  Trace(0) /\ NoneSure(0)
BY Config DEF Fresh, Y0, Trace, NoneSure

LEMMA FreshLoop ==
  ASSUME Fresh, cfg \in Configs
  PROVE  LoopInv
<1>1. y.live = {0} /\ z.live = {0} /\ prev_y.live = {0} /\ prev_y.age = 0 /\ sup = 0
  BY DEF Fresh, Y0, Z0
<1>2. 0 .. sup = {0} /\ Reach(sup) = {0}
  BY <1>1 DEF Reach
<1> QED
  BY <1>1, <1>2, FreshTrace DEF LoopInv

LEMMA FreshDone ==
  ASSUME Fresh, cfg \in Configs, call = "infer"
  PROVE  DoneInv
<1>1. y.live = {0} /\ z.live = {0} /\ prev_y.live = {0} /\ steps_used = 0 /\ trained = {}
  BY DEF Fresh, Y0, Z0
<1> QED
  BY <1>1, FreshTrace, Config DEF DoneInv

LEMMA FreshDeq ==
  ASSUME Fresh, pc \in {"loop", "solve", "done"}
  PROVE  DeqInv
<1>1. y.live = {0} /\ z.live = {0} /\ prev_y.live = {0} /\ prev_y.age = 0 /\ y.age = 0
  BY DEF Fresh, Y0, Z0
<1>2. Len(terms) = 0 /\ Len(halts) = 0 /\ trained = {}
  BY DEF Fresh
<1> QED
  BY <1>1, <1>2 DEF DeqInv

LEMMA FreshSolver ==
  ASSUME Fresh, pc # "fixed", cfg \in Configs
  PROVE  SolverInv
<1>1. iter = 0 /\ hist.z = <<>> /\ hist = [z |-> <<>>, f |-> <<>>, r |-> <<>>]
  BY DEF Fresh, H0
<1>2. state.kind = "start" /\ state.uses = {}
  BY DEF Fresh, S0
<1> QED
  BY <1>1, <1>2, Config DEF SolverInv

StartState ==
  /\ Fresh /\ cfg \in Configs /\ call \in {"train", "evaluate", "infer"}
  /\ lens \in [Examples -> 1 .. XSeq]
  /\ mask = IF call = "infer" THEN {}
            ELSE Expand(PadMask(lens, XSeq), XSeq, Batch, XSeq, XSeq, ZSeq)
  /\ \/ pc = (IF cfg.deq THEN "solve" ELSE "loop")
     \/ pc = "done" /\ call = "infer"

LEMMA StartInv == StartState => RecursionInv
<1> SUFFICES ASSUME StartState PROVE RecursionInv
  OBVIOUS
<1>1. Fresh /\ cfg \in Configs /\ pc \in {"solve", "loop", "done"}
  BY DEF StartState
<1>2. Types
  BY <1>1, FreshTypes DEF Types, StartState
<1>3. UnrolledInv
  BY <1>1, FreshLoop, FreshDone DEF UnrolledInv, StartState, Fresh
<1> QED
  BY <1>1, <1>2, <1>3, FreshDeq, FreshSolver DEF RecursionInv

LEMMA StartInvNext == StartState' => RecursionInv'
BY StartInv, PTL

LEMMA InitRecursionInv == Init => RecursionInv
<1>1. Init => StartState
  BY RecursionAssumption DEF Init, StartState, Fresh
<1> QED
  BY <1>1, StartInv

LEMMA BeginStep == RecursionInv /\ Begin => RecursionInv'
<1> SUFFICES ASSUME RecursionInv, Begin PROVE StartState'
  BY StartInvNext
<1>1. cfg \in Configs /\ cfg' = cfg
  BY DEF RecursionInv, Types, Begin
<1>2. PICK what \in {"train", "evaluate", "infer"}, l \in [Examples -> 1 .. XSeq] :
        Start(cfg, what, l)
  <2>1. [b \in Examples |-> XSeq] \in [Examples -> 1 .. XSeq]
    BY RecursionAssumption
  <2>2. Lengths \subseteq [Examples -> 1 .. XSeq]
    BY DEF Lengths
  <2> QED
    BY <2>1, <2>2 DEF Begin
<1> QED
  BY <1>1, <1>2 DEF Start, Fresh, StartState

LEMMA SolverKept ==
  ASSUME SolverInv, UNCHANGED <<cfg, solver>>, pc' # "fixed"
  PROVE  SolverInv'
BY DEF SolverInv, solver

LEMMA LoopFacts ==
  ASSUME Types, pc \in {"loop", "halt", "backward"}
  PROVE  ~ cfg.deq
BY Config DEF Types

LEMMA SuperviseStep == RecursionInv /\ Supervise => RecursionInv'
<1> SUFFICES ASSUME RecursionInv, Supervise PROVE RecursionInv'
  OBVIOUS
<1> DEFINE k == sup + 1
<1>1. Types /\ SolverInv /\ ~ cfg.deq /\ LoopInv /\ cfg \in Configs
  BY LoopFacts DEF RecursionInv, UnrolledInv, Supervise, Types
<1>2. /\ cfg' = cfg /\ sup' = sup /\ pc' = "halt" /\ sup \in Nat /\ sup < cfg.n_sup
      /\ y' = CycleY(k) /\ z' = CycleZ(k) /\ prev_y' = prev_y
      /\ terms' = Push(terms, cfg, y') /\ trained' = trained /\ steps_used' = steps_used
  BY <1>1, Config DEF Supervise, Types
<1>3. PICK h \in Confidences :
        /\ halts' = Append(halts, h)
        /\ h.live = IF cfg.adaptive /\ cfg.head THEN y'.live ELSE {}
        /\ h.ages = <<>> \/ h.ages = <<prev_y.age, y'.age>>
  <2>1. PICK sure \in SUBSET Examples :
          halts' = Append(halts,
            [sure |-> sure,
             live |-> IF cfg.adaptive /\ cfg.head THEN y'.live ELSE {},
             ages |-> IF NoHaltHead(cfg) THEN <<prev_y.age, y'.age>> ELSE <<>>])
    BY DEF Supervise
  <2>2. y'.live \in SUBSET Nat /\ y'.age \in Nat /\ prev_y.age \in Nat
    BY <1>1, <1>2 DEF CycleY, CycleZ, Types, Graphs
  <2> DEFINE lv == IF cfg.adaptive /\ cfg.head THEN y'.live ELSE {}
             ag == IF NoHaltHead(cfg) THEN <<prev_y.age, y'.age>> ELSE <<>>
             h == [sure |-> sure, live |-> lv, ages |-> ag]
  <2>3. lv \in SUBSET Nat
    BY <2>2
  <2>4. ag \in Seq(Nat) /\ (ag = <<>> \/ ag = <<prev_y.age, y'.age>>)
    BY <2>2
  <2>5. h \in Confidences
    <3> HIDE DEF lv, ag
    <3> QED
      BY <2>3, <2>4 DEF Confidences
  <2> QED
    BY <2>1, <2>4, <2>5
<1>4. y'.age = k /\ y'.live = y.live \cup {k} /\ z'.live \subseteq y.live \cup {k}
  BY <1>1, <1>2 DEF CycleY, CycleZ, LoopInv, Trace
<1>5. y'.live = Reach(k)
  <2>1. k \in Nat /\ k > 0 /\ 0 .. k = (0 .. sup) \cup {k}
    BY <1>2
  <2>2. y.live = IF cfg.detach /\ sup > 0 THEN {} ELSE 0 .. sup
    BY <1>1, <1>2 DEF LoopInv
  <2>3. CASE cfg.detach /\ sup > 0
    <3>1. Reach(k) = {k}
      BY <2>1, <2>3, <1>2 DEF Reach
    <3> QED
      BY <3>1, <2>2, <2>3, <1>4
  <2>4. CASE ~ (cfg.detach /\ sup > 0)
    <3>1. Reach(k) = 0 .. k
      BY <2>1, <2>4, <1>2 DEF Reach
    <3> QED
      BY <3>1, <2>1, <2>2, <2>4, <1>4
  <2> QED
    BY <2>3, <2>4
<1>6. y' \in Graphs /\ z' \in [live : SUBSET Nat] /\ terms' \in Seq(Graphs)
      /\ halts' \in Seq(Confidences)
  <2>1. y.live \subseteq Nat /\ z.live \subseteq Nat /\ y.age \in Nat /\ k \in Nat
    BY <1>1, <1>2 DEF Types, Graphs
  <2>2. CycleZ(k).live \subseteq Nat /\ z' \in [live : SUBSET Nat]
    BY <2>1, <1>2 DEF CycleZ
  <2>3. y' \in Graphs
    BY <2>1, <2>2, <1>2 DEF CycleY, Graphs
  <2>4. terms \in Seq(Graphs) /\ halts \in Seq(Confidences)
    BY <1>1 DEF Types
  <2>5. terms' \in Seq(Graphs)
    BY <2>3, <2>4, <1>2 DEF Push
  <2> QED
    BY <2>2, <2>3, <2>4, <2>5, <1>3
<1>7. Types'
  BY <1>1, <1>2, <1>6, Config DEF Supervise, Types, Steps
<1>8. /\ Len(halts') = k
      /\ Len(terms') = (IF cfg.collect THEN k ELSE 0)
  BY <1>1, <1>2, <1>3 DEF LoopInv, Trace, Push, Types
<1>9. ASSUME NEW i \in 1 .. Len(terms')
      PROVE  terms'[i].age = i /\ terms'[i].live = Reach(i)
  <2>1. cfg.collect /\ terms' = Append(terms, y') /\ Len(terms) = sup
    BY <1>1, <1>2, <1>8 DEF Push, LoopInv, Trace
  <2>2. CASE i = k
    BY <2>1, <2>2, <1>1, <1>4, <1>5, <1>6 DEF Types
  <2>3. CASE i # k
    <3>1. i \in 1 .. Len(terms) /\ terms'[i] = terms[i]
      BY <2>1, <2>3, <1>1, <1>2, <1>6, <1>8 DEF Types
    <3> QED
      BY <3>1, <1>1 DEF LoopInv, Trace
  <2> QED
    BY <2>2, <2>3
<1>10. halts'[k] = h /\ \A i \in 1 .. sup : halts'[i] = halts[i]
  BY <1>1, <1>2, <1>3 DEF LoopInv, Trace, Types
<1>11. ASSUME NEW i \in 1 .. k
       PROVE  /\ halts'[i].live = IF cfg.adaptive /\ cfg.head THEN Reach(i) ELSE {}
              /\ halts'[i].ages = <<>> \/ halts'[i].ages = <<i - 1, i>>
  <2>1. CASE i = k
    <3>1. prev_y.age = i - 1 /\ y'.age = i
      BY <2>1, <1>1, <1>2, <1>4 DEF LoopInv
    <3>2. h.ages = <<>> \/ h.ages = <<i - 1, i>>
      BY <3>1, <1>3
    <3> QED
      BY <3>2, <2>1, <1>3, <1>5, <1>10
  <2>2. CASE i # k
    <3>1. i \in 1 .. sup
      BY <2>2, <1>2
    <3> QED
      BY <3>1, <1>1, <1>10 DEF LoopInv, Trace
  <2> QED
    BY <2>1, <2>2
<1>12. Trace(k)'
  BY <1>2, <1>4, <1>8, <1>9, <1>11 DEF Trace, Reach
<1>13. NoneSure(sup)'
  BY <1>1, <1>2, <1>10 DEF LoopInv, NoneSure
<1>14. HaltInv'
  BY <1>1, <1>2, <1>4, <1>5, <1>12, <1>13 DEF HaltInv, LoopInv, Reach
<1>15. trained = {}
  BY <1>1 DEF RecursionInv, UnrolledInv, Supervise
<1>16. SolverInv'
  BY <1>1, <1>2, SolverKept DEF Supervise
<1> QED
  BY <1>1, <1>2, <1>7, <1>14, <1>15, <1>16 DEF RecursionInv, UnrolledInv, DeqInv

LEMMA ReachBound ==
  ASSUME NEW i \in Nat
  PROVE  Reach(i) \subseteq 0 .. i
BY DEF Reach

LEMMA HaltStep == RecursionInv /\ Halt => RecursionInv'
<1> SUFFICES ASSUME RecursionInv, Halt PROVE RecursionInv'
  OBVIOUS
<1> DEFINE k == sup + 1
<1>1. Types /\ SolverInv /\ ~ cfg.deq /\ HaltInv /\ cfg \in Configs /\ trained = {}
  BY LoopFacts DEF RecursionInv, UnrolledInv, Halt, Types
<1>2. /\ UNCHANGED <<cfg, call, lens, mask, sup, y, z, prev_y, terms, halts,
                    grad_enabled_steps, iter, state, hist, u, trained>>
      /\ pc' = "return" /\ steps_used' = k /\ cfg.adaptive /\ halts[Len(halts)].sure = Examples
      /\ sup \in Nat /\ k \in Nat /\ k <= cfg.n_sup
  BY <1>1, Config DEF Halt, AllSure, Last, HaltInv, Types, solver
<1>3. Types'
  BY <1>1, <1>2, Config DEF Types, Steps
<1>4. Trace(steps_used)' /\ NoneSure(steps_used - 1)'
  <2>1. Trace(k) /\ NoneSure(sup)
    BY <1>1 DEF HaltInv
  <2>2. Trace(steps_used)'
    BY <2>1, <1>2 DEF Trace, Reach
  <2>3. NoneSure(steps_used - 1)'
    BY <2>1, <1>2 DEF NoneSure
  <2> QED
    BY <2>2, <2>3
<1>5. halts[k].sure = Examples
  BY <1>1, <1>2 DEF HaltInv, Trace
<1>6. \A e \in y.live \cup z.live \cup prev_y.live : e <= cfg.n_sup
  BY <1>1, <1>2, Config, ReachBound DEF HaltInv
<1>7. ReturnInv'
  BY <1>2, <1>4, <1>5, <1>6 DEF ReturnInv
<1>8. SolverInv'
  BY <1>1, <1>2, SolverKept DEF solver
<1> QED
  BY <1>1, <1>2, <1>3, <1>7, <1>8 DEF RecursionInv, UnrolledInv, DeqInv

LEMMA ContinueStep == RecursionInv /\ Continue => RecursionInv'
<1> SUFFICES ASSUME RecursionInv, Continue PROVE RecursionInv'
  OBVIOUS
<1> DEFINE k == sup + 1
<1>1. Types /\ SolverInv /\ ~ cfg.deq /\ HaltInv /\ cfg \in Configs /\ trained = {}
  BY LoopFacts DEF RecursionInv, UnrolledInv, Continue, Types
<1>2. /\ UNCHANGED <<cfg, call, lens, mask, terms, halts, steps_used,
                    grad_enabled_steps, iter, state, hist, u, trained>>
      /\ pc' = "loop" /\ sup' = k /\ prev_y' = y'
      /\ sup \in Nat /\ k \in Nat /\ k <= cfg.n_sup
  BY <1>1, Config DEF Continue, HaltInv, Types, solver
<1>3. cfg.adaptive => halts[Len(halts)].sure # Examples
  BY DEF Continue, AllSure, Last
<1>4. y \in Graphs /\ z \in [live : SUBSET Nat] /\ y.age = k
      /\ y.live = Reach(k) /\ z.live \subseteq y.live
  BY <1>1, <1>2 DEF Types, HaltInv, Trace
<1>5. /\ y' \in Graphs /\ z' \in [live : SUBSET Nat] /\ y'.age = k
      /\ y'.live = IF cfg.detach /\ k < cfg.n_sup THEN {} ELSE Reach(k)
      /\ z'.live \subseteq y'.live
  <2>1. CASE cfg.detach /\ k < cfg.n_sup
    <3>1. y' = [y EXCEPT !.live = {}] /\ z' = [z EXCEPT !.live = {}]
      BY <2>1, <1>1, <1>2, Config DEF Continue, Carried, Detached
    <3> QED
      BY <3>1, <2>1, <1>4 DEF Graphs
  <2>2. CASE ~ (cfg.detach /\ k < cfg.n_sup)
    <3>1. y' = y /\ z' = z
      BY <2>2, <1>1, <1>2, Config DEF Continue, Carried
    <3> QED
      BY <3>1, <2>2, <1>4
  <2> QED
    BY <2>1, <2>2
<1>6. Types'
  <2>1. k <= cfg.n_sup /\ k \in 0 .. cfg.n_sup /\ grad_enabled_steps <= k
    BY <1>1, <1>2, Config DEF Types, Continue
  <2> HIDE DEF k
  <2> QED
    BY <1>1, <1>2, <1>5, <2>1 DEF Types, Steps
<1>7. Trace(sup)'
  <2>1. Trace(k)
    BY <1>1 DEF HaltInv
  <2> QED
    BY <2>1, <1>2, <1>5 DEF Trace, Reach
<1>8. NoneSure(sup)'
  <2> SUFFICES ASSUME cfg.adaptive, NEW i \in 1 .. k PROVE halts[i].sure # Examples
    BY <1>2 DEF NoneSure
  <2>1. CASE i = k
    BY <2>1, <1>1, <1>3 DEF HaltInv, Trace
  <2>2. CASE i # k
    BY <2>2, <1>1, <1>2 DEF HaltInv, NoneSure
  <2> QED
    BY <2>1, <2>2
<1>9. y'.live = IF k < cfg.n_sup
                THEN (IF cfg.detach /\ k > 0 THEN {} ELSE 0 .. k) ELSE Reach(k)
  <2>1. k > 0 /\ (~ cfg.detach => Reach(k) = 0 .. k)
    BY <1>2 DEF Reach
  <2> QED
    BY <2>1, <1>5
<1>10. y'.live \subseteq 0 .. k
  BY <1>2, <1>5, ReachBound
<1>11. LoopInv'
  BY <1>2, <1>5, <1>7, <1>8, <1>9, <1>10 DEF LoopInv, Reach
<1>12. SolverInv'
  BY <1>1, <1>2, SolverKept DEF solver
<1> QED
  BY <1>1, <1>2, <1>6, <1>11, <1>12 DEF RecursionInv, UnrolledInv, DeqInv

LEMMA EndLoopStep == RecursionInv /\ EndLoop => RecursionInv'
<1> SUFFICES ASSUME RecursionInv, EndLoop PROVE RecursionInv'
  OBVIOUS
<1> DEFINE k == cfg.n_sup
<1>1. Types /\ SolverInv /\ ~ cfg.deq /\ LoopInv /\ cfg \in Configs /\ trained = {}
  BY LoopFacts DEF RecursionInv, UnrolledInv, EndLoop, Types
<1>2. /\ UNCHANGED <<cfg, call, lens, mask, sup, y, z, prev_y, terms, halts,
                    grad_enabled_steps, iter, state, hist, u, trained>>
      /\ pc' = "return" /\ steps_used' = k /\ sup = k /\ k \in Nat
  BY <1>1, Config DEF EndLoop, solver
<1>3. Types'
  BY <1>1, <1>2, Config DEF Types, Steps
<1>4. Trace(steps_used)' /\ NoneSure(steps_used - 1)'
  <2>1. Trace(k) /\ NoneSure(k)
    BY <1>1, <1>2 DEF LoopInv
  <2>2. Trace(steps_used)'
    BY <2>1, <1>2 DEF Trace, Reach
  <2>3. NoneSure(steps_used - 1)'
    BY <2>1, <1>2 DEF NoneSure
  <2> QED
    BY <2>2, <2>3
<1>5. \A e \in y.live \cup z.live \cup prev_y.live : e <= cfg.n_sup
  BY <1>1, <1>2, ReachBound DEF LoopInv
<1>6. ReturnInv'
  BY <1>2, <1>4, <1>5 DEF ReturnInv
<1>7. SolverInv'
  BY <1>1, <1>2, SolverKept DEF solver
<1> QED
  BY <1>1, <1>2, <1>3, <1>6, <1>7 DEF RecursionInv, UnrolledInv, DeqInv

(* The steps of the solver leave the trace alone.                           *)
LEMMA SolveFacts ==
  ASSUME RecursionInv, pc \in {"solve", "fixed", "neumann"}
  PROVE  cfg.deq /\ cfg \in Configs /\ Types /\ DeqInv /\ SolverInv
BY Config DEF RecursionInv, Types

LEMMA SolveTypes ==
  ASSUME Types, cfg.deq, UNCHANGED <<cfg, call, lens, mask, loop, u>>,
         pc' \in {"solve", "fixed", "return", "neumann", "done"}
  PROVE  Types'
<1>1. cfg' = cfg /\ call' = call /\ lens' = lens /\ mask' = mask /\ sup' = sup /\ y' = y
      /\ z' = z /\ prev_y' = prev_y /\ terms' = terms /\ halts' = halts /\ u' = u
      /\ steps_used' = steps_used /\ grad_enabled_steps' = grad_enabled_steps
  BY DEF loop
<1> QED
  BY <1>1 DEF Types, Steps

LEMMA SolveDeq ==
  ASSUME DeqInv, cfg.deq, UNCHANGED <<cfg, loop>>, trained' = trained \/ trained' = {1},
         pc' \in {"solve", "fixed"} => pc \in {"solve", "fixed"},
         pc' \in {"return", "neumann"} => pc \in {"return", "neumann"}
  PROVE  DeqInv'
<1>1. cfg' = cfg /\ y' = y /\ z' = z /\ prev_y' = prev_y /\ terms' = terms
      /\ halts' = halts /\ steps_used' = steps_used
  BY DEF loop
<1> QED
  BY <1>1 DEF DeqInv

LEMMA ConvergeStep == RecursionInv /\ Converge => RecursionInv'
<1> SUFFICES ASSUME RecursionInv, Converge PROVE RecursionInv'
  OBVIOUS
<1>1. cfg.deq /\ cfg \in Configs /\ Types /\ DeqInv /\ SolverInv
  BY SolveFacts DEF Converge
<1>2. /\ UNCHANGED <<cfg, call, lens, mask, loop, iter, hist, u, trained>>
      /\ pc = "solve" /\ pc' = "fixed"
      /\ state' = Image(iter) /\ iter < MaxIter /\ iter \in 0 .. MaxIter
  BY <1>1 DEF Converge, SolverInv
<1>3. SolverInv'
  BY <1>1, <1>2 DEF SolverInv, Image
<1>4. Types' /\ DeqInv'
  BY <1>1, <1>2, SolveTypes, SolveDeq
<1> QED
  BY <1>1, <1>2, <1>3, <1>4 DEF RecursionInv, UnrolledInv

LEMMA GiveUpStep == RecursionInv /\ GiveUp => RecursionInv'
<1> SUFFICES ASSUME RecursionInv, GiveUp PROVE RecursionInv'
  OBVIOUS
<1>1. cfg.deq /\ cfg \in Configs /\ Types /\ DeqInv /\ SolverInv
  BY SolveFacts DEF GiveUp
<1>2. /\ UNCHANGED <<cfg, call, lens, mask, loop, iter, hist, u, trained>>
      /\ pc = "solve" /\ pc' = "fixed"
      /\ state' = Image(iter) /\ iter \in 0 .. MaxIter
  BY <1>1 DEF GiveUp, LastImage, SolverInv
<1>3. SolverInv'
  BY <1>1, <1>2 DEF SolverInv, Image
<1>4. Types' /\ DeqInv'
  BY <1>1, <1>2, SolveTypes, SolveDeq
<1> QED
  BY <1>1, <1>2, <1>3, <1>4 DEF RecursionInv, UnrolledInv

(* A push keeps the newest iterates: the oldest makes room in a full deque. *)
LEMMA PushKeepsNewest ==
  ASSUME NEW d \in Seq(Nat), NEW i \in Nat, cfg.history \in Nat,
         Len(d) <= i, Len(d) <= cfg.history \/ Len(d) <= 1,
         \A j \in 1 .. Len(d) : d[j] = i - Len(d) + j - 1
  PROVE  LET e == PushHist(d, i) IN
         /\ e \in Seq(Nat) /\ Len(e) > 0 /\ Len(e) <= i + 1
         /\ Len(e) <= cfg.history \/ Len(e) <= 1
         /\ \A j \in 1 .. Len(e) : e[j] = i + 1 - Len(e) + j - 1
<1> DEFINE e == PushHist(d, i)
<1>1. CASE Len(d) >= cfg.history /\ d # <<>>
  <2>1. e = Append(Tail(d), i)
    BY <1>1 DEF PushHist
  <2>2. Tail(d) \in Seq(Nat) /\ Len(Tail(d)) = Len(d) - 1 /\ Len(d) > 0
        /\ \A j \in 1 .. Len(d) - 1 : Tail(d)[j] = d[j + 1]
    BY <1>1
  <2>3. e \in Seq(Nat) /\ Len(e) = Len(d)
    BY <2>1, <2>2
  <2>4. ASSUME NEW j \in 1 .. Len(e) PROVE e[j] = i + 1 - Len(e) + j - 1
    <3>1. CASE j = Len(e)
      BY <3>1, <2>1, <2>2, <2>3
    <3>2. CASE j # Len(e)
      <4>1. j \in 1 .. Len(d) - 1
        <5> HIDE DEF e
        <5>1. Len(e) = Len(d) /\ Len(d) \in Nat
          BY <2>3
        <5> QED
          BY <5>1, <3>2
      <4>2. e[j] = Tail(d)[j]
        <5> DEFINE t == Tail(d)
        <5>1. t \in Seq(Nat) /\ j \in 1 .. Len(t) /\ e = Append(t, i)
          BY <4>1, <2>1, <2>2
        <5> HIDE DEF t, e
        <5>2. e[j] = t[j]
          BY <5>1
        <5> QED
          BY <5>2 DEF t
      <4>3. e[j] = d[j + 1] /\ j + 1 \in 1 .. Len(d)
        BY <4>1, <4>2, <2>2
      <4> QED
        BY <4>3, <2>3
    <3> QED
      BY <3>1, <3>2
  <2> QED
    BY <2>2, <2>3, <2>4
<1>2. CASE ~ (Len(d) >= cfg.history /\ d # <<>>)
  <2>1. e = Append(d, i)
    BY <1>2 DEF PushHist
  <2>2. e \in Seq(Nat) /\ Len(e) = Len(d) + 1
    BY <2>1
  <2>3. Len(e) <= cfg.history \/ Len(e) <= 1
    BY <1>2, <2>2
  <2>4. ASSUME NEW j \in 1 .. Len(e) PROVE e[j] = i + 1 - Len(e) + j - 1
    <3>1. CASE j = Len(e)
      BY <3>1, <2>1, <2>2
    <3>2. CASE j # Len(e)
      <4>1. e[j] = d[j] /\ j \in 1 .. Len(d)
        BY <3>2, <2>1, <2>2
      <4> QED
        BY <4>1, <2>2
    <3> QED
      BY <3>1, <3>2
  <2> QED
    BY <2>2, <2>3, <2>4
<1> QED
  BY <1>1, <1>2

LEMMA IterateStep == RecursionInv /\ Iterate => RecursionInv'
<1> SUFFICES ASSUME RecursionInv, Iterate PROVE RecursionInv'
  OBVIOUS
<1> DEFINE e == PushHist(hist.z, iter)
<1>1. cfg.deq /\ cfg \in Configs /\ Types /\ DeqInv /\ SolverInv
  BY SolveFacts DEF Iterate
<1>2. /\ UNCHANGED <<cfg, call, lens, mask, pc, loop, u, trained>>
      /\ pc = "solve" /\ iter < MaxIter /\ iter \in 0 .. MaxIter /\ iter' = iter + 1
      /\ state' \in Accelerated(hist', iter)
  BY <1>1 DEF Iterate, SolverInv
<1>3. hist' = [z |-> e, f |-> e, r |-> e]
  <2>1. hist.f = hist.z /\ hist.r = hist.z
    BY <1>1 DEF SolverInv
  <2> QED
    BY <2>1 DEF Iterate
<1>4. /\ e \in Seq(Nat) /\ Len(e) > 0 /\ Len(e) <= iter + 1
      /\ Len(e) <= cfg.history \/ Len(e) <= 1
      /\ \A j \in 1 .. Len(e) : e[j] = iter + 1 - Len(e) + j - 1
  <2>1. iter \in Nat /\ cfg.history \in Nat
    BY <1>1, <1>2, Config
  <2>2. hist.z \in Seq(Nat) /\ Len(hist.z) <= iter
        /\ (Len(hist.z) <= cfg.history \/ Len(hist.z) <= 1)
        /\ \A j \in 1 .. Len(hist.z) : hist.z[j] = iter - Len(hist.z) + j - 1
    BY <1>1 DEF SolverInv
  <2> QED
    BY <2>1, <2>2, PushKeepsNewest
<1> HIDE DEF e
<1>5. ToSet(e) \subseteq 0 .. MaxIter /\ iter \in ToSet(e)
  <2>1. \A j \in 1 .. Len(e) : e[j] \in 0 .. MaxIter
    BY <1>2, <1>4, Config, <1>1
  <2>2. e[Len(e)] = iter /\ DOMAIN e = 1 .. Len(e) /\ Len(e) \in DOMAIN e
    BY <1>2, <1>4
  <2> QED
    BY <2>1, <2>2 DEF ToSet
<1>6. \/ state' = [kind |-> "image", uses |-> {iter}]
      \/ state' = [kind |-> "mix", uses |-> ToSet(e)]
  BY <1>2, <1>3 DEF Accelerated, Image
<1>7. state'.kind \in {"image", "mix"} /\ state'.uses \subseteq 0 .. MaxIter
      /\ iter \in state'.uses
  BY <1>2, <1>5, <1>6
<1>8. SolverInv'
  <2>1. iter' \in 0 .. MaxIter /\ iter' - 1 = iter
    BY <1>1, <1>2, Config
  <2>2. hist'.z = e /\ hist' = [z |-> hist'.z, f |-> hist'.z, r |-> hist'.z]
    BY <1>3
  <2>3. \A j \in 1 .. Len(hist'.z) : hist'.z[j] = iter' - Len(hist'.z) + j - 1
    BY <2>2, <1>2, <1>4
  <2> QED
    BY <2>1, <2>2, <2>3, <1>2, <1>4, <1>7 DEF SolverInv
<1>9. Types' /\ DeqInv'
  BY <1>1, <1>2, SolveTypes, SolveDeq
<1> QED
  BY <1>1, <1>2, <1>8, <1>9 DEF RecursionInv, UnrolledInv

LEMMA DeqReturnStep == RecursionInv /\ DeqReturn => RecursionInv'
<1> SUFFICES ASSUME RecursionInv, DeqReturn PROVE RecursionInv'
  OBVIOUS
<1>1. cfg.deq /\ cfg \in Configs /\ Types /\ DeqInv /\ SolverInv
  BY SolveFacts DEF DeqReturn
<1>2. /\ UNCHANGED <<cfg, call, lens, mask, sup, prev_y, iter, state, hist, u, trained>>
      /\ pc' = "return" /\ steps_used' = 1 /\ grad_enabled_steps' = 1
      /\ y' = [age |-> 1, live |-> {0, 1}] /\ z' = [live |-> {0, 1}]
      /\ terms' = Push(terms, cfg, y')
      /\ halts' = <<[sure |-> Examples, live |-> {}, ages |-> <<>>]>>
  BY DEF DeqReturn, solver
<1>3. [sure |-> Examples, live |-> {}, ages |-> <<>>] \in Confidences
  BY DEF Confidences
<1>4. y' \in Graphs /\ z' \in [live : SUBSET Nat] /\ halts' \in Seq(Confidences)
  BY <1>2, <1>3 DEF Graphs
<1>5. terms' \in Seq(Graphs)
  BY <1>1, <1>2, <1>4 DEF Types, Push
<1>6. Types'
  BY <1>1, <1>2, <1>4, <1>5, Config DEF Types, Steps
<1>7. DeqInv'
  <2>1. terms = <<>>
    BY <1>1 DEF DeqInv, DeqReturn
  <2>2. terms' = IF cfg.collect THEN <<y'>> ELSE <<>>
    BY <2>1, <1>2 DEF Push
  <2>3. Len(terms') = (IF cfg.collect THEN 1 ELSE 0)
        /\ \A i \in 1 .. Len(terms') : terms'[i] = y'
    BY <2>2
  <2>4. Len(halts') = 1 /\ \A i \in 1 .. Len(halts') : halts'[i].live = {} /\ halts'[i].ages = <<>>
    BY <1>2
  <2>5. (\A e \in y'.live \cup z'.live \cup prev_y.live : e <= 1) /\ trained \subseteq {0, 1}
    BY <1>1, <1>2 DEF DeqInv
  <2> QED
    BY <1>1, <1>2, <2>3, <2>4, <2>5 DEF DeqInv
<1>8. SolverInv'
  BY <1>1, <1>2, SolverKept DEF solver
<1> QED
  BY <1>1, <1>2, <1>6, <1>7, <1>8 DEF RecursionInv, UnrolledInv

LEMMA ReturnStep == RecursionInv /\ Return => RecursionInv'
<1> SUFFICES ASSUME RecursionInv, Return PROVE RecursionInv'
  OBVIOUS
<1>1. Types /\ SolverInv /\ cfg \in Configs /\ cfg.deq \in BOOLEAN
  BY Config DEF RecursionInv, Types
<1>2. /\ UNCHANGED <<cfg, call, lens, mask, loop, iter, state, hist, u, trained>>
      /\ pc = "return" /\ pc' \in {"done", "neumann", "backward"}
      /\ pc' = "done" => call # "train"
      /\ pc' = "neumann" => cfg.deq
      /\ pc' = "backward" => ~ cfg.deq
  BY DEF Return, solver
<1>3. sup' = sup /\ y' = y /\ z' = z /\ prev_y' = prev_y /\ terms' = terms
      /\ halts' = halts /\ steps_used' = steps_used
      /\ grad_enabled_steps' = grad_enabled_steps
  BY <1>2 DEF loop
<1>4. Types'
  BY <1>1, <1>2, <1>3 DEF Types, Steps
<1>5. SolverInv'
  BY <1>1, <1>2, SolverKept DEF solver
<1>6. CASE cfg.deq
  <2>1. DeqInv'
    BY <1>2, <1>6, SolveDeq DEF RecursionInv
  <2> QED
    BY <2>1, <1>2, <1>4, <1>5, <1>6 DEF RecursionInv, UnrolledInv
<1>7. CASE ~ cfg.deq
  <2>1. ReturnInv /\ trained = {}
    BY <1>2, <1>7 DEF RecursionInv, UnrolledInv
  <2>2. Trace(steps_used) /\ Trace(steps_used)'
    BY <2>1, <1>2, <1>3 DEF ReturnInv, Trace, Reach
  <2>3. NoneSure(steps_used - 1)'
    BY <2>1, <1>2, <1>3 DEF ReturnInv, NoneSure
  <2>4. ReturnInv'
    BY <2>1, <2>2, <2>3, <1>2, <1>3 DEF ReturnInv
  <2>5. pc' = "done" => DoneInv'
    BY <2>1, <2>2, <1>2, <1>3 DEF ReturnInv, DoneInv
  <2> QED
    BY <2>1, <2>4, <2>5, <1>2, <1>4, <1>5, <1>7 DEF RecursionInv, UnrolledInv, DeqInv
<1> QED
  BY <1>1, <1>6, <1>7

(* The union of the graphs of the terms and confidences in the loss.        *)
LEMMA BackwardTrains ==
  ASSUME cfg \in Configs, Types, ReturnInv, Backward
  PROVE  /\ trained' \subseteq 0 .. cfg.n_sup
         /\ trained' \ {0} = IF cfg.adaptive /\ cfg.head THEN 1 .. steps_used
                             ELSE IF ~ cfg.collect THEN {}
                             ELSE IF cfg.last_only /\ cfg.detach THEN {steps_used} \ {0}
                             ELSE 1 .. steps_used
<1> DEFINE k == steps_used
           W == Weighted(Len(terms))
<1>1. k \in Nat /\ k <= cfg.n_sup /\ cfg.n_sup \in Nat
  BY Config DEF ReturnInv, Types, Steps
<1>2. Len(terms) = (IF cfg.collect THEN k ELSE 0) /\ W \subseteq 1 .. Len(terms)
      /\ W = IF cfg.last_only THEN {Len(terms)} \ {0} ELSE 1 .. Len(terms)
  <2>1. Len(terms) = (IF cfg.collect THEN k ELSE 0)
    BY DEF ReturnInv, Trace
  <2> QED
    BY <2>1, <1>1 DEF Weighted
<1>3. \A i \in W : terms[i].live = Reach(i)
  BY <1>2 DEF ReturnInv, Trace
<1>4. DOMAIN halts = 1 .. k /\ \A i \in 1 .. k :
        halts[i].live = IF cfg.adaptive /\ cfg.head THEN Reach(i) ELSE {}
  BY DEF ReturnInv, Trace, Types
<1>5. \A i \in 1 .. k : i \in Reach(i) /\ Reach(i) \subseteq 0 .. k
  BY <1>1 DEF Reach
<1> DEFINE A == {terms[i].live : i \in W}
           B == {halts[i].live : i \in 1 .. k}
<1>6. trained' = UNION (A \cup B)
  BY <1>4 DEF Backward
<1>7. /\ \A i \in W : Reach(i) \in A
      /\ \A s \in A : \E i \in W : s = Reach(i)
  BY <1>3
<1>8. /\ \A i \in 1 .. k : cfg.adaptive /\ cfg.head => Reach(i) \in B
      /\ \A s \in B : s = {} \/ (cfg.adaptive /\ cfg.head /\ \E i \in 1 .. k : s = Reach(i))
  BY <1>4
<1>9. W \subseteq 1 .. k
  BY <1>1, <1>2
<1> HIDE DEF W, A, B
<1>10. \A s \in A \cup B : s \subseteq 0 .. k
  BY <1>5, <1>7, <1>8, <1>9
<1>11. trained' \subseteq 0 .. k /\ trained' \subseteq 0 .. cfg.n_sup
  <2>1. trained' \subseteq 0 .. k
    BY <1>6, <1>10
  <2> QED
    BY <2>1, <1>1
<1>12. ASSUME NEW C \in SUBSET (A \cup B), \A i \in 1 .. k : \E s \in C : i \in s
       PROVE  trained' \ {0} = 1 .. k
  <2>1. \A i \in 1 .. k : i \in trained'
    BY <1>6, <1>12
  <2>2. 1 .. k \subseteq trained' \ {0}
    BY <2>1, <1>1
  <2>3. (0 .. k) \ {0} = 1 .. k
    BY <1>1
  <2> QED
    BY <2>2, <2>3, <1>11
<1>13. CASE cfg.adaptive /\ cfg.head
  <2>1. \A i \in 1 .. k : \E s \in B : i \in s
    BY <1>5, <1>8, <1>13
  <2> QED
    BY <2>1, <1>11, <1>12, <1>13
<1>14. ~ (cfg.adaptive /\ cfg.head) => \A s \in B : s = {}
  BY <1>8
<1>15. CASE ~ (cfg.adaptive /\ cfg.head) /\ ~ cfg.collect
  <2>1. W = {}
    BY <1>2, <1>15
  <2>2. \A s \in A \cup B : s = {}
    BY <2>1, <1>7, <1>14, <1>15
  <2>3. trained' = {}
    BY <2>2, <1>6
  <2> QED
    BY <2>3, <1>11, <1>15
<1>16. CASE ~ (cfg.adaptive /\ cfg.head) /\ cfg.collect /\ cfg.last_only /\ cfg.detach
  <2>1. W = {k} \ {0}
    BY <1>2, <1>16
  <2>2. Reach(k) \ {0} = {k} \ {0}
    BY <1>1, <1>16 DEF Reach
  <2>3. trained' \ {0} = {k} \ {0}
    <3>1. CASE k = 0
      <4>1. \A s \in A \cup B : s = {}
        BY <2>1, <3>1, <1>7, <1>14, <1>16
      <4> QED
        BY <4>1, <3>1, <1>6
    <3>2. CASE k # 0
      <4>1. A = {Reach(k)}
        BY <2>1, <3>2, <1>7
      <4>2. UNION (A \cup B) = Reach(k)
        BY <4>1, <1>14, <1>16
      <4> QED
        BY <4>2, <2>2, <1>6
    <3> QED
      BY <3>1, <3>2
  <2> QED
    BY <2>3, <1>11, <1>16
<1>17. CASE ~ (cfg.adaptive /\ cfg.head) /\ cfg.collect /\ cfg.last_only /\ ~ cfg.detach
  <2>1. W = {k} \ {0} /\ Reach(k) = 0 .. k
    BY <1>2, <1>17 DEF Reach
  <2>2. k # 0 => Reach(k) \in A
    BY <2>1, <1>7
  <2>3. \A i \in 1 .. k : \E s \in A : i \in s
    BY <2>1, <2>2, <1>1
  <2> QED
    BY <2>3, <1>11, <1>12, <1>17
<1>18. CASE ~ (cfg.adaptive /\ cfg.head) /\ cfg.collect /\ ~ cfg.last_only
  <2>1. W = 1 .. k
    BY <1>2, <1>18
  <2>2. \A i \in 1 .. k : \E s \in A : i \in s
    BY <2>1, <1>5, <1>7
  <2> QED
    BY <2>2, <1>11, <1>12, <1>18
<1> QED
  BY <1>13, <1>15, <1>16, <1>17, <1>18, Config

LEMMA BackwardStep == RecursionInv /\ Backward => RecursionInv'
<1> SUFFICES ASSUME RecursionInv, Backward PROVE RecursionInv'
  OBVIOUS
<1>1. Types /\ SolverInv /\ ~ cfg.deq /\ ReturnInv /\ cfg \in Configs
  BY LoopFacts DEF RecursionInv, UnrolledInv, Backward, Types
<1>2. /\ UNCHANGED <<cfg, call, lens, mask, loop, iter, state, hist, u>> /\ pc' = "done"
  BY DEF Backward, solver
<1>3. sup' = sup /\ y' = y /\ z' = z /\ prev_y' = prev_y /\ terms' = terms
      /\ halts' = halts /\ steps_used' = steps_used
      /\ grad_enabled_steps' = grad_enabled_steps
  BY <1>2 DEF loop
<1>4. Types'
  BY <1>1, <1>2, <1>3 DEF Types, Steps
<1>5. SolverInv'
  BY <1>1, <1>2, SolverKept DEF solver
<1>6. Trace(steps_used)'
  BY <1>1, <1>2, <1>3 DEF ReturnInv, Trace, Reach
<1>7. DoneInv'
  BY <1>1, <1>2, <1>3, <1>6, BackwardTrains DEF DoneInv, ReturnInv
<1> QED
  BY <1>1, <1>2, <1>4, <1>5, <1>7 DEF RecursionInv, UnrolledInv, DeqInv

LEMMA NeumannStepInv == RecursionInv /\ NeumannStep => RecursionInv'
<1> SUFFICES ASSUME RecursionInv, NeumannStep PROVE RecursionInv'
  OBVIOUS
<1>1. cfg.deq /\ cfg \in Configs /\ Types /\ DeqInv /\ SolverInv
  BY SolveFacts DEF NeumannStep
<1>2. /\ UNCHANGED <<cfg, call, lens, mask, loop, iter, state, hist>>
      /\ pc = "neumann" /\ pc' \in {"neumann", "done"}
      /\ trained' = trained \/ trained' = {1}
  BY DEF NeumannStep, solver
<1>3. u' \in Seq(Nat) /\ Len(u') <= NeumannIters + 1
  <2>1. u \in Seq(Nat) /\ u' = <<1>> \o u /\ Len(u) <= NeumannIters
    BY <1>1 DEF Types, NeumannStep, NextU, More
  <2> QED
    BY <2>1, Config, <1>1
<1>4. sup' = sup /\ y' = y /\ z' = z /\ prev_y' = prev_y /\ terms' = terms
      /\ halts' = halts /\ steps_used' = steps_used
      /\ grad_enabled_steps' = grad_enabled_steps
  BY <1>2 DEF loop
<1>5. Types'
  BY <1>1, <1>2, <1>3, <1>4 DEF Types, Steps
<1>6. DeqInv'
  BY <1>1, <1>2, SolveDeq
<1>7. SolverInv'
  BY <1>1, <1>2, SolverKept DEF solver
<1> QED
  BY <1>1, <1>2, <1>5, <1>6, <1>7 DEF RecursionInv, UnrolledInv

LEMMA NeumannEndInv == RecursionInv /\ NeumannEnd => RecursionInv'
<1> SUFFICES ASSUME RecursionInv, NeumannEnd PROVE RecursionInv'
  OBVIOUS
<1>1. cfg.deq /\ cfg \in Configs /\ Types /\ DeqInv /\ SolverInv
  BY SolveFacts DEF NeumannEnd
<1>2. /\ UNCHANGED <<cfg, call, lens, mask, loop, iter, state, hist, u>>
      /\ pc = "neumann" /\ pc' = "done" /\ trained' = {1}
  BY DEF NeumannEnd, solver
<1>3. Types' /\ DeqInv'
  BY <1>1, <1>2, SolveTypes, SolveDeq
<1>4. SolverInv'
  BY <1>1, <1>2, SolverKept DEF solver
<1> QED
  BY <1>1, <1>2, <1>3, <1>4 DEF RecursionInv, UnrolledInv

LEMMA StutterInv == RecursionInv /\ UNCHANGED vars => RecursionInv'
<1> SUFFICES ASSUME RecursionInv, UNCHANGED vars PROVE RecursionInv'
  OBVIOUS
<1>1. UNCHANGED <<cfg, call, lens, mask, pc, sup, y, z, prev_y, terms, halts, steps_used,
                  grad_enabled_steps, iter, state, hist, u, trained>>
  BY DEF vars, loop, solver
<1>2. Types'
  BY <1>1 DEF RecursionInv, Types, Steps
<1>3. LoopInv => LoopInv'
  BY <1>1 DEF LoopInv, Trace, NoneSure, Reach
<1>4. HaltInv => HaltInv'
  BY <1>1 DEF HaltInv, Trace, NoneSure, Reach
<1>5. ReturnInv => ReturnInv'
  BY <1>1 DEF ReturnInv, Trace, NoneSure, Reach
<1>6. DoneInv => DoneInv'
  BY <1>1 DEF DoneInv, Trace, Reach
<1>7. UnrolledInv'
  BY <1>1, <1>3, <1>4, <1>5, <1>6 DEF RecursionInv, UnrolledInv
<1>8. DeqInv' /\ SolverInv'
  BY <1>1 DEF RecursionInv, DeqInv, SolverInv
<1> QED
  BY <1>2, <1>7, <1>8 DEF RecursionInv

LEMMA NextRecursionInv == RecursionInv /\ [Next]_vars => RecursionInv'
BY BeginStep, SuperviseStep, HaltStep, ContinueStep, EndLoopStep, ConvergeStep,
   IterateStep, GiveUpStep, DeqReturnStep, ReturnStep, BackwardStep, NeumannStepInv,
   NeumannEndInv, StutterInv DEF Next

LEMMA AlwaysRecursionInv == Spec => []RecursionInv
BY InitRecursionInv, NextRecursionInv, PTL DEF Spec

-----------------------------------------------------------------------------
(* For any lengths of a batch, every query attends to its own question's    *)
(* tokens, to the answer and to the latent, and to nothing else.            *)
THEOREM PaddingIsHidden == Spec => []MaskHidesPadding
<1>1. Types => MaskHidesPadding
  <2> SUFFICES ASSUME Types, call # "infer", NEW b \in Examples, NEW q \in 0 .. Total - 1
               PROVE  Visible(mask, b, q, Total) = (0 .. lens[b] - 1) \cup (XSeq .. Total - 1)
    BY DEF MaskHidesPadding
  <2>1. /\ mask = Expand(PadMask(lens, XSeq), XSeq, Batch, XSeq, XSeq, ZSeq)
        /\ lens \in [Examples -> 1 .. XSeq] /\ b \in Nat
    BY RecursionAssumption DEF Types, Examples
  <2>2. \A k \in 0 .. Total - 1 : At(b, q, k, Total) \in mask <=> k < XSeq /\ k >= lens[b]
    BY <2>1, MaskHas
  <2>3. Visible(mask, b, q, Total) = {k \in 0 .. Total - 1 : ~ (k < XSeq /\ k >= lens[b])}
    BY <2>2 DEF Visible
  <2>4. lens[b] \in 1 .. XSeq /\ XSeq \in Nat /\ Total \in Nat /\ XSeq < Total
    BY <2>1, RecursionAssumption DEF Total
  <2> QED
    BY <2>3, <2>4
<1> QED
  BY <1>1, AlwaysRecursionInv, PTL DEF RecursionInv

(* A call returns the answer of the step it reports, and with adaptive      *)
(* halting that is the first step the whole batch agrees on.                *)
THEOREM AnswerIsFirstAgreed == Spec => []HaltsAtFirstAgreement
<1>1. RecursionInv => HaltsAtFirstAgreement
  <2> SUFFICES ASSUME RecursionInv PROVE HaltsAtFirstAgreement
    OBVIOUS
  <2>1. cfg \in Configs /\ Types /\ cfg.deq \in BOOLEAN /\ halts \in Seq(Confidences)
        /\ terms \in Seq(Graphs)
    BY Config DEF RecursionInv, Types
  <2>2. CASE cfg.deq
    <3>1. DeqInv /\ pc # "backward" /\ DOMAIN halts = 1 .. Len(halts)
          /\ DOMAIN terms = 1 .. Len(terms)
      BY <2>1, <2>2 DEF RecursionInv, Types
    <3>2. \A i \in 1 .. Len(halts) : halts[i].ages = <<>>
      BY <3>1, <2>2 DEF DeqInv
    <3>3. \A i \in 1 .. Len(terms) : terms[i].age = i
      BY <3>1, <2>2 DEF DeqInv
    <3>4. pc \in {"return", "neumann"} =>
            /\ y.age = steps_used /\ Len(halts) = steps_used
            /\ cfg.collect => Len(terms) = steps_used
      BY <3>1, <2>2 DEF DeqInv
    <3> QED
      BY <3>1, <3>2, <3>3, <3>4, <2>2 DEF HaltsAtFirstAgreement
  <2>3. CASE ~ cfg.deq
    <3>1. pc \in {"return", "backward", "neumann"} => ReturnInv
      BY <2>1, <2>3 DEF RecursionInv, Types, UnrolledInv
    <3>2. \E k \in Nat : Trace(k)
      BY <2>1, <2>3, Config
      DEF RecursionInv, Types, UnrolledInv, LoopInv, HaltInv, ReturnInv, DoneInv, Steps
    <3>3. \A i \in DOMAIN halts : halts[i].ages # <<>> => halts[i].ages = <<i - 1, i>>
      BY <2>1, <3>2 DEF Trace
    <3>4. ReturnInv => /\ y.age = steps_used /\ Len(halts) = steps_used
                       /\ cfg.collect => Len(terms) = steps_used
                       /\ \A i \in DOMAIN terms : terms[i].age = i
                       /\ cfg.adaptive =>
                            /\ \A i \in 1 .. steps_used - 1 : halts[i].sure # Examples
                            /\ steps_used < cfg.n_sup => halts[steps_used].sure = Examples
      BY <2>1 DEF ReturnInv, Trace, NoneSure
    <3> QED
      BY <3>1, <3>3, <3>4 DEF HaltsAtFirstAgreement
  <2> QED
    BY <2>1, <2>2, <2>3
<1> QED
  BY <1>1, AlwaysRecursionInv, PTL

(* For any number of steps and every configuration: the gradient of a term  *)
(* ends where detaching cuts it, and these are the steps a loss trains.     *)
THEOREM BackpropIsTruncated == Spec => []TruncatedBackprop
<1>1. RecursionInv => TruncatedBackprop
  <2> SUFFICES ASSUME RecursionInv, ~ cfg.deq PROVE TruncatedBackprop
    BY DEF TruncatedBackprop
  <2>1. Types /\ cfg \in Configs /\ terms \in Seq(Graphs)
    BY DEF RecursionInv, Types
  <2>2. \E k \in Nat : Trace(k)
    BY <2>1, Config
    DEF RecursionInv, Types, UnrolledInv, LoopInv, HaltInv, ReturnInv, DoneInv, Steps
  <2>3. \A i \in DOMAIN terms : terms[i].live = IF cfg.detach /\ i > 1 THEN {i} ELSE 0 .. i
    BY <2>1, <2>2 DEF Trace, Reach
  <2>4. pc = "done" => DoneInv
    BY DEF RecursionInv, UnrolledInv
  <2> QED
    BY <2>3, <2>4 DEF TruncatedBackprop, DoneInv
<1> QED
  BY <1>1, AlwaysRecursionInv, PTL

(* For any history and number of iterations the solver's deques stay in     *)
(* step and the fixed point it returns is an image of f.                    *)
THEOREM FixedPointIsAnImage == Spec => []DeqReturnsAnImage
<1>1. SolverInv => DeqReturnsAnImage
  BY DEF SolverInv, DeqReturnsAnImage
<1> QED
  BY <1>1, AlwaysRecursionInv, PTL DEF RecursionInv

(* Every variable keeps its type.                                           *)
THEOREM RecursionType == Spec => []TypeOK
<1>1. RecursionInv => TypeOK
  <2> SUFFICES ASSUME RecursionInv PROVE TypeOK
    OBVIOUS
  <2>1. cfg \in Configs /\ Types /\ cfg.deq \in BOOLEAN /\ SolverInv /\ cfg.n_sup \in Nat
    BY Config DEF RecursionInv, Types
  <2>2. mask \subseteq 0 .. Batch * Total * Total - 1
    <3>1. lens \in [Examples -> 1 .. XSeq]
      BY <2>1 DEF Types
    <3> QED
      BY <3>1, <2>1, MaskIsInside DEF Types
  <2>3. /\ y \in Graphs /\ prev_y \in Graphs /\ z \in [live : SUBSET Nat]
        /\ terms \in Seq(Graphs) /\ halts \in Seq(Confidences)
        /\ DOMAIN terms = 1 .. Len(terms) /\ DOMAIN halts = 1 .. Len(halts)
        /\ prev_y.age \in Steps
    BY <2>1 DEF Types, Graphs, Steps
  <2>4. /\ y.age \in Steps
        /\ y.live \subseteq Steps /\ z.live \subseteq Steps /\ prev_y.live \subseteq Steps
        /\ trained \subseteq Steps
        /\ \A i \in 1 .. Len(terms) : terms[i].age \in Steps /\ terms[i].live \subseteq Steps
        /\ \A i \in 1 .. Len(halts) : halts[i].live \subseteq Steps
    <3>1. CASE cfg.deq
      <4>1. DeqInv
        BY DEF RecursionInv
      <4>2. y.age \in Nat /\ y.live \subseteq Nat /\ z.live \subseteq Nat /\ prev_y.live \subseteq Nat
        BY <2>3 DEF Graphs
      <4>3. ASSUME NEW i \in 1 .. Len(terms)
            PROVE  terms[i].age \in Steps /\ terms[i].live \subseteq Steps
        <5>1. terms[i] \in Graphs /\ Len(terms) \in Nat
          BY <2>3
        <5>2. terms[i].live \subseteq Nat
          BY <5>1 DEF Graphs
        <5>3. Len(terms) <= 1 /\ terms[i].age = i /\ \A e \in terms[i].live : e <= 1
          BY <4>1, <3>1 DEF DeqInv
        <5> QED
          BY <5>1, <5>2, <5>3, <2>1 DEF Steps
      <4> QED
        BY <4>1, <4>2, <4>3, <3>1, <2>1 DEF DeqInv, Steps
    <3>2. CASE ~ cfg.deq
      <4>1. PICK k \in 0 .. cfg.n_sup : Trace(k)
        BY <2>1, <3>2, Config
        DEF RecursionInv, Types, UnrolledInv, LoopInv, HaltInv, ReturnInv, DoneInv, Steps
      <4>2. \A i \in 0 .. cfg.n_sup : Reach(i) \subseteq Steps
        BY <2>1 DEF Reach, Steps
      <4>3. \A i \in 1 .. Len(terms) : i \in 0 .. cfg.n_sup /\ terms[i].age = i /\ terms[i].live = Reach(i)
        BY <4>1, <2>1, <2>3 DEF Trace
      <4>4. \A i \in 1 .. Len(halts) : i \in 0 .. cfg.n_sup /\ (halts[i].live = {} \/ halts[i].live = Reach(i))
        BY <4>1, <2>1, <2>3 DEF Trace
      <4>5. trained \subseteq Steps
        BY <3>2, <2>1 DEF RecursionInv, UnrolledInv, DoneInv, Steps
      <4>6. y.live \subseteq Nat /\ z.live \subseteq Nat /\ prev_y.live \subseteq Nat
        BY <2>3 DEF Graphs
      <4>7. \A e \in y.live \cup z.live \cup prev_y.live : e <= cfg.n_sup
        BY <2>1, <3>2, ReachBound
        DEF RecursionInv, Types, UnrolledInv, LoopInv, HaltInv, ReturnInv, DoneInv, Steps
      <4>8. y.age \in Steps
        BY <4>1, <2>1 DEF Trace, Steps
      <4>9. /\ \A i \in 1 .. Len(terms) : terms[i].age \in Steps /\ terms[i].live \subseteq Steps
            /\ \A i \in 1 .. Len(halts) : halts[i].live \subseteq Steps
        BY <4>2, <4>3, <4>4, <2>1 DEF Steps
      <4> QED
        BY <4>5, <4>6, <4>7, <4>8, <4>9, <2>1 DEF Steps
    <3> QED
      BY <3>1, <3>2, <2>1
  <2>5. \A t \in ToSet(terms) : t.age \in Steps /\ t.live \subseteq Steps
    BY <2>3, <2>4 DEF ToSet
  <2>6. \A h \in ToSet(halts) : h.sure \subseteq Examples /\ h.live \subseteq Steps
    <3>1. \A i \in 1 .. Len(halts) : halts[i] \in Confidences
      BY <2>3
    <3>2. \A i \in 1 .. Len(halts) : halts[i].sure \subseteq Examples
      BY <3>1 DEF Confidences
    <3> QED
      BY <3>2, <2>3, <2>4 DEF ToSet
  <2>7. pc \in {"loop", "halt", "solve", "fixed", "return", "backward", "neumann", "done"}
    BY <2>1 DEF Types
  <2>8. \A t \in {y, prev_y} \cup ToSet(terms) : t.age \in Steps /\ t.live \subseteq Steps
    BY <2>3, <2>4, <2>5
  <2>9. /\ cfg \in Configs /\ call \in {"train", "evaluate", "infer"}
        /\ lens \in [Examples -> 1 .. XSeq] /\ sup \in 0 .. cfg.n_sup
        /\ steps_used \in Steps /\ grad_enabled_steps \in Steps
        /\ Len(u) <= NeumannIters + 1
    BY <2>1 DEF Types
  <2>10. iter \in 0 .. MaxIter /\ state.kind \in {"start", "image", "mix"}
         /\ state.uses \subseteq 0 .. MaxIter
    BY <2>1 DEF SolverInv
  <2> QED
    BY <2>2, <2>4, <2>6, <2>7, <2>8, <2>9, <2>10 DEF TypeOK
<1> QED
  BY <1>1, AlwaysRecursionInv, PTL
=============================================================================
