--------------------------- MODULE BlockReduceProofs ---------------------------
(***************************************************************************)
(* Theorems about BlockReduce, for any launches: every block size of       *)
(* attention, every power of two of layer_norm, any number of rows and     *)
(* tiles.                                                                  *)
(***************************************************************************)
EXTENDS BlockReduce, TLAPS

(***************************************************************************)
(* The tree.  Before the step of stride s the leaders hold what their      *)
(* groups contribute, and the groups of the leaders are all of the block:  *)
(* runs of s threads in attention, residues modulo twice s in layer_norm.  *)
(***************************************************************************)
Width(s)     == IF s = 0 THEN 1 ELSE 2 * s
Leader(t, s) == IF Attention THEN t % s = 0 ELSE t < Width(s)
Group(t, s)  == IF Attention THEN {u \in Threads : t <= u /\ u < t + s}
                             ELSE {u \in Threads : u % Width(s) = t}

(* The strides that occur: in layer_norm, halves of divisors of the block.  *)
IsStride(s) == IF Attention THEN s \in 1 .. 2 * N
                            ELSE s \in 0 .. N /\ N % Width(s) = 0

(***************************************************************************)
(* Between two barriers the threads are in one of five phases, in which    *)
(* those that have arrived are one step ahead of the others.               *)
(***************************************************************************)
AfterStride(s) == IF StrideOk(s) THEN "add" ELSE "read"
Waits(t, next) == op[t] = "sync" /\ then[t] = next

Holds(t, s, r) == Leader(t, s) => red[t] = Terms(r, Group(t, s))

LoadPhase(r) ==
  /\ Attention
  /\ \A t \in Threads : row[t] = r /\ (op[t] = "load" \/ Waits(t, "write"))

(* The racy one: some may still be reading the reduction before.            *)
Reads(t, r)  == op[t] = "read" /\ row[t] = r /\ r \in Reductions /\ ~ LastOfTile(r)
Writes(t, r) == op[t] = "write" /\ row[t] = r
Wrote(t, r)  == /\ row[t] = r /\ stride[t] = FirstStride
                /\ Waits(t, AfterStride(FirstStride))
                /\ red[t] = Terms(r, {t})
WritePhase(r) ==
  /\ \A t \in Threads : Reads(t, r - 1) \/ Writes(t, r) \/ Wrote(t, r)
  /\ \A t \in Threads : op[t] = "read" => Wrote(0, r) \/ red[0] = Sum(r - 1)

(* Of two threads that are added, only one writes.                          *)
ToAdd(t, s, r) == op[t] = "add" /\ stride[t] = s /\ Holds(t, s, r)
Added(t, s, r) == /\ stride[t] = NextStride(s) /\ Waits(t, AfterStride(NextStride(s)))
                  /\ Holds(t, NextStride(s), r)
                  /\ ~ Adds(t, s) => Holds(t, s, r)
AddPhase(s, r) ==
  /\ IsStride(s) /\ StrideOk(s)
  /\ \A t \in Threads : row[t] = r /\ (ToAdd(t, s, r) \/ Added(t, s, r))

(* After the last row of a tile of attention the threads meet again.        *)
LastRead(t, r) ==
  /\ row[t] = r + 1
  /\ IF Attention THEN Waits(t, IF r = Rows * Tiles THEN "done" ELSE "load")
                  ELSE op[t] = "done"
ReadPhase(r) ==
  /\ LastOfTile(r) /\ red[0] = Sum(r)
  /\ \A t \in Threads : (op[t] = "read" /\ row[t] = r) \/ LastRead(t, r)

DonePhase == \A t \in Threads : op[t] = "done" /\ row[t] = Rows * Tiles + 1

(* What has been read.                                                      *)
GoodScore(t, r) ==
  \/ score[t][r] = Sum(r)
  \/ t # 0 /\ ~ LastOfTile(r) /\ score[t][r] = Terms(r + 1, {0})

Phase ==
  \/ DonePhase
  \/ \E r \in Reductions : LoadPhase(r) \/ WritePhase(r) \/ ReadPhase(r)
  \/ \E r \in Reductions, s \in 0 .. 2 * N : AddPhase(s, r)

BlockInv ==
  /\ TypeOK
  /\ Phase
  /\ \A t \in Threads, r \in Reductions : HasRead(t, r) => GoodScore(t, r)

-----------------------------------------------------------------------------
(* Remainders.                                                              *)
LEMMA Products ==
  ASSUME NEW d \in Nat, NEW k \in Nat
  PROVE  d * k \in Nat /\ d * (k + 1) = d * k + d /\ (k >= 1 => d * k >= d)
         /\ d * (2 * k) = 2 * (d * k) /\ (2 * d) * k = 2 * (d * k)
<1>1. d * k \in Nat
  BY SMT
<1>2. d * (k + 1) = d * k + d
  BY SMT
<1>3. k >= 1 => d * k >= d
  <2> SUFFICES ASSUME k >= 1 PROVE d * k >= d
    OBVIOUS
  <2>1. d * k = d * (k - 1) + d
    BY SMT
  <2>2. d * (k - 1) >= 0
    <3>1. k - 1 \in Nat
      OBVIOUS
    <3> QED
      BY <3>1, SMT
  <2> QED
    BY <1>1, <2>1, <2>2
<1>4. d * (2 * k) = 2 * (d * k) /\ (2 * d) * k = 2 * (d * k)
  BY SMT
<1> QED
  BY <1>1, <1>2, <1>3, <1>4

LEMMA Division ==
  ASSUME NEW n \in Nat, NEW d \in Nat \ {0}
  PROVE  n % d \in 0 .. d - 1 /\ n \div d \in Nat /\ n = d * (n \div d) + (n % d)
<1>1. n % d \in 0 .. d - 1
  BY SMT
<1>2. n = d * (n \div d) + (n % d)
  BY SMT
<1>3. n \div d \in Nat
  <2> DEFINE q == n \div d
  <2>1. q \in Int /\ n = d * q + (n % d)
    BY <1>2
  <2> HIDE DEF q
  <2> SUFFICES ASSUME ~ q \in Nat PROVE FALSE
    BY DEF q
  <2>2. -q \in Nat /\ -q >= 1
    BY <2>1
  <2>3. d * (-q) >= d
    BY <2>2, Products
  <2>4. d * (-q) = -(d * q) /\ d * q \in Int
    BY <2>1, SMT
  <2> QED
    BY <1>1, <2>1, <2>3, <2>4
<1> QED
  BY <1>1, <1>2, <1>3

LEMMA Remainder ==
  ASSUME NEW n \in Nat, NEW d \in Nat \ {0}, NEW k \in Nat, NEW r \in 0 .. d - 1,
         n = d * k + r
  PROVE  n % d = r
<1>1. \A a, b \in Nat : a < b => d * b >= d * a + d
  <2> TAKE a, b \in Nat
  <2> HAVE a < b
  <2>1. b - a \in Nat /\ b - a >= 1 /\ d * (b - a) = d * b - d * a
    OBVIOUS
  <2> QED
    BY <2>1, Products
<1> DEFINE k2 == n \div d
           r2 == n % d
<1>2. k2 \in Nat /\ r2 \in 0 .. d - 1 /\ n = d * k2 + r2
  BY Division
<1> HIDE DEF k2, r2
<1>3. d * k \in Nat /\ d * k2 \in Nat
  BY <1>2, Products
<1>4. k = k2
  BY <1>1, <1>2, <1>3
<1> QED
  BY <1>2, <1>3, <1>4 DEF r2

LEMMA Halves ==
  ASSUME NEW n \in Nat, NEW h \in Nat \ {0}
  PROVE  n % (2 * h) = n % h \/ n % (2 * h) = (n % h) + h
<1> DEFINE k == n \div (2 * h)
           r == n % (2 * h)
<1>1. k \in Nat /\ r \in 0 .. 2 * h - 1 /\ n = (2 * h) * k + r
  <2>1. 2 * h \in Nat \ {0}
    OBVIOUS
  <2> QED
    BY <2>1, Division
<1> HIDE DEF k, r
<1>2. h * k \in Nat /\ (2 * h) * k = h * (2 * k) /\ h * (2 * k) \in Nat
      /\ h * (2 * k + 1) = h * (2 * k) + h
  BY <1>1, Products
<1>3. CASE r < h
  <2>1. n = h * (2 * k) + r
    BY <1>1, <1>2
  <2>2. 2 * k \in Nat /\ r \in 0 .. h - 1
    BY <1>1, <1>3
  <2>3. n % h = r
    BY <2>1, <2>2, Remainder
  <2> QED
    BY <2>3 DEF r
<1>4. CASE r >= h
  <2>1. n = h * (2 * k + 1) + (r - h)
    BY <1>1, <1>2
  <2>2. 2 * k + 1 \in Nat /\ r - h \in 0 .. h - 1
    BY <1>1, <1>4
  <2>3. n % h = r - h
    BY <2>1, <2>2, Remainder
  <2> QED
    BY <1>1, <2>3 DEF r
<1> QED
  BY <1>1, <1>3, <1>4

(* A multiple of twice s, and the place s further.                          *)
LEMMA NextMultiple ==
  ASSUME NEW t \in Nat, NEW s \in Nat \ {0}, t % (2 * s) = 0
  PROVE  t % s = 0 /\ (t + s) % s = 0 /\ (t + s) % (2 * s) = s
<1> DEFINE k == t \div (2 * s)
<1>1. k \in Nat /\ t = (2 * s) * k
  <2>1. 2 * s \in Nat \ {0}
    OBVIOUS
  <2>2. k \in Nat /\ t = (2 * s) * k + (t % (2 * s))
    BY <2>1, Division
  <2>3. (2 * s) * k \in Nat
    BY <2>1, <2>2, Products
  <2> QED
    BY <2>2, <2>3
<1> HIDE DEF k
<1>2. (2 * s) * k \in Nat /\ (2 * s) * k = s * (2 * k) /\ s * (2 * k) \in Nat
      /\ s * (2 * k + 1) = s * (2 * k) + s
  BY <1>1, Products
<1>3. t % s = 0
  <2>1. 2 * k \in Nat /\ 0 \in 0 .. s - 1 /\ t = s * (2 * k) + 0
    BY <1>1, <1>2
  <2> QED
    BY <2>1, Remainder
<1>4. (t + s) % s = 0
  <2>1. 2 * k + 1 \in Nat /\ 0 \in 0 .. s - 1 /\ t + s = s * (2 * k + 1) + 0
    BY <1>1, <1>2
  <2> QED
    BY <2>1, Remainder
<1>5. (t + s) % (2 * s) = s
  <2>1. s \in 0 .. 2 * s - 1 /\ t + s = (2 * s) * k + s /\ 2 * s \in Nat \ {0} /\ t + s \in Nat
    BY <1>1, <1>2
  <2> QED
    BY <1>1, <2>1, Remainder
<1> QED
  BY <1>3, <1>4, <1>5

-----------------------------------------------------------------------------
LEMMA BlockIs ==
  ASSUME launch \in Launches
  PROVE  /\ N \in Nat \ {0} /\ Rows \in Nat \ {0} /\ Tiles \in Nat \ {0}
         /\ Rows * Tiles \in Nat \ {0} /\ Attention \in BOOLEAN
         /\ 0 \in Threads /\ Threads \subseteq Nat
         /\ (Rows * Tiles) % Rows = 0
         /\ ~ Attention => Rows = 2 /\ Tiles = 1 /\ PowerOfTwo(N)
<1>1. launch \in Launch
  BY BlockAssumption
<1>2. /\ N \in Nat \ {0} /\ Rows \in Nat \ {0} /\ Tiles \in Nat \ {0}
      /\ Attention \in BOOLEAN /\ 0 \in Threads /\ Threads \subseteq Nat
  BY <1>1 DEF Launch, N, Rows, Tiles, Attention, Threads
<1>3. ~ Attention => Rows = 2 /\ Tiles = 1 /\ PowerOfTwo(N)
  BY BlockAssumption DEF N, Rows, Tiles, Attention
<1>4. Rows * Tiles \in Nat \ {0}
  <2>1. Rows * Tiles \in Nat /\ Rows * Tiles >= Rows
    BY <1>2, Products
  <2> QED
    BY <1>2, <2>1
<1>5. (Rows * Tiles) % Rows = 0
  <2>1. 0 \in 0 .. Rows - 1 /\ Rows * Tiles = Rows * Tiles + 0
    BY <1>2, <1>4
  <2> QED
    BY <1>2, <1>4, <2>1, Remainder
<1> QED
  BY <1>2, <1>3, <1>4, <1>5

(* Before the first step every thread holds its own.                        *)
LEMMA FirstGroups ==
  ASSUME launch \in Launches
  PROVE  IsStride(FirstStride) /\ \A t \in Threads : Group(t, FirstStride) = {t}
<1>1. CASE Attention
  BY <1>1, BlockIs DEF IsStride, FirstStride, Group, Threads
<1>2. CASE ~ Attention
  <2> DEFINE s == N \div 2
  <2>1. s \in 0 .. N /\ Width(s) = N
    <3>1. CASE N = 1
      BY <3>1 DEF Width
    <3>2. CASE N # 1
      <4>1. N \in Nat /\ N \in 2 .. N
        BY <3>2, BlockIs
      <4>2. N % N = 0
        <5>1. 0 \in 0 .. N - 1 /\ 1 \in Nat /\ N = N * 1 + 0 /\ N \in Nat \ {0}
          BY <4>1
        <5> QED
          BY <5>1, Remainder
      <4>3. N % 2 = 0
        BY <1>2, <4>1, <4>2, BlockIs DEF PowerOfTwo
      <4> QED
        BY <4>1, <4>3 DEF Width
    <3> QED
      BY <3>1, <3>2
  <2>2. \A u \in Threads : u % N = u
    <3> TAKE u \in Threads
    <3>1. 0 \in Nat /\ u = N * 0 + u /\ u \in 0 .. N - 1 /\ u \in Nat /\ N \in Nat \ {0}
      BY BlockIs DEF Threads
    <3> QED
      BY <3>1, Remainder
  <2>3. N % N = 0
    <3>1. 0 \in 0 .. N - 1 /\ 1 \in Nat /\ N = N * 1 + 0 /\ N \in Nat \ {0}
      BY BlockIs
    <3> QED
      BY <3>1, Remainder
  <2>4. FirstStride = s
    BY <1>2 DEF FirstStride
  <2> HIDE DEF s
  <2> QED
    BY <1>2, <2>1, <2>2, <2>3, <2>4 DEF IsStride, Group
<1> QED
  BY <1>1, <1>2

(* A step halves the number of groups.                                      *)
LEMMA NextGroups ==
  ASSUME launch \in Launches, NEW s, IsStride(s), StrideOk(s)
  PROVE  /\ IsStride(NextStride(s))
         /\ \A t \in Threads : Adds(t, s) =>
              /\ t + s \in Threads /\ t # t + s /\ ~ Adds(t + s, s)
              /\ Leader(t, s) /\ Leader(t + s, s)
              /\ Group(t, s) \cap Group(t + s, s) = {}
              /\ Group(t, NextStride(s)) = Group(t, s) \cup Group(t + s, s)
         /\ \A t \in Threads : Leader(t, NextStride(s)) /\ ~ Adds(t, s) =>
              Leader(t, s) /\ Group(t, NextStride(s)) = Group(t, s)
<1>1. CASE Attention
  <2>1. s \in Nat \ {0} /\ s < N /\ NextStride(s) = 2 * s /\ 2 * s \in 1 .. 2 * N
    BY <1>1, BlockIs DEF IsStride, StrideOk, NextStride
  <2>2. IsStride(NextStride(s))
    BY <1>1, <2>1 DEF IsStride
  <2>3. ASSUME NEW t \in Threads, Adds(t, s)
        PROVE  /\ t + s \in Threads /\ t # t + s /\ ~ Adds(t + s, s)
               /\ Leader(t, s) /\ Leader(t + s, s)
               /\ Group(t, s) \cap Group(t + s, s) = {}
               /\ Group(t, NextStride(s)) = Group(t, s) \cup Group(t + s, s)
    <3>1. t \in Nat /\ t % (2 * s) = 0 /\ t + s < N
      BY <1>1, <2>3, BlockIs DEF Adds
    <3>2. t % s = 0 /\ (t + s) % s = 0 /\ (t + s) % (2 * s) = s
      BY <2>1, <3>1, NextMultiple
    <3>3. t + s \in Threads /\ t # t + s
      BY <2>1, <3>1, BlockIs DEF Threads
    <3>4. ~ Adds(t + s, s) /\ Leader(t, s) /\ Leader(t + s, s)
      BY <1>1, <2>1, <3>2 DEF Adds, Leader
    <3>5. \A u \in Threads : u \in Nat
      BY BlockIs
    <3>6. /\ Group(t, s) = {u \in Threads : t <= u /\ u < t + s}
          /\ Group(t + s, s) = {u \in Threads : t + s <= u /\ u < t + s + s}
          /\ Group(t, NextStride(s)) = {u \in Threads : t <= u /\ u < t + 2 * s}
      BY <1>1, <2>1 DEF Group
    <3>7. \A u \in Nat : /\ u < t + s => ~ t + s <= u
                         /\ t + s <= u => t <= u
                         /\ u < t + s => u < t + 2 * s
                         /\ (u < t + s + s <=> u < t + 2 * s)
                         /\ ~ u < t + s => t + s <= u
      BY <2>1, <3>1
    <3> QED
      BY <3>3, <3>4, <3>5, <3>6, <3>7
  <2>4. ASSUME NEW t \in Threads, Leader(t, NextStride(s)), ~ Adds(t, s)
        PROVE  Leader(t, s) /\ Group(t, NextStride(s)) = Group(t, s)
    <3>1. t \in Nat /\ t % (2 * s) = 0 /\ ~ t + s < N
      BY <1>1, <2>1, <2>4, BlockIs DEF Adds, Leader
    <3>2. t % s = 0
      BY <2>1, <3>1, NextMultiple
    <3>3. \A u \in Threads : u \in Nat /\ u < t + s /\ u < t + 2 * s
      BY <2>1, <3>1, BlockIs DEF Threads
    <3> QED
      BY <1>1, <2>1, <3>2, <3>3 DEF Leader, Group
  <2> QED
    BY <2>2, <2>3, <2>4
<1>2. CASE ~ Attention
  <2>1. s \in Nat \ {0} /\ s \in 0 .. N /\ N % (2 * s) = 0 /\ NextStride(s) = s \div 2
        /\ Width(s) = 2 * s /\ N \in Nat \ {0}
    BY <1>2, BlockIs DEF IsStride, StrideOk, NextStride, Width
  <2>2. N % s = 0
    <3>1. N % s \in 0 .. s - 1 /\ (N % (2 * s) = N % s \/ N % (2 * s) = (N % s) + s)
      BY <2>1, Division, Halves
    <3> QED
      BY <2>1, <3>1
  <2>3. s \div 2 \in 0 .. N /\ Width(s \div 2) = s
    <3>1. CASE s = 1
      BY <2>1, <3>1 DEF Width
    <3>2. CASE s # 1
      <4>1. s \in 2 .. N
        BY <2>1, <3>2
      <4>2. s % 2 = 0
        BY <1>2, <2>2, <4>1, BlockIs DEF PowerOfTwo
      <4>3. s \in Nat /\ s >= 2 /\ s <= N
        BY <4>1, <2>1
      <4>4. s \div 2 \in Nat /\ s = 2 * (s \div 2)
        BY <4>2, <4>3
      <4>5. s \div 2 # 0 /\ s \div 2 <= N
        BY <4>3, <4>4, <2>1
      <4> QED
        BY <4>4, <4>5, <2>1 DEF Width
    <3> QED
      BY <3>1, <3>2
  <2>4. IsStride(NextStride(s))
    BY <1>2, <2>1, <2>2, <2>3 DEF IsStride
  <2>5. \A t : Adds(t, s) <=> t < s
    BY <1>2 DEF Adds
  <2>6. /\ \A t : Leader(t, NextStride(s)) <=> t < s
        /\ \A t : Leader(t, s) <=> t < 2 * s
    BY <1>2, <2>1, <2>3 DEF Leader
  <2>7. /\ \A t : Group(t, NextStride(s)) = {u \in Threads : u % s = t}
        /\ \A t : Group(t, s) = {u \in Threads : u % (2 * s) = t}
    BY <1>2, <2>1, <2>3 DEF Group
  <2>8. ASSUME NEW t \in Threads, t < s
        PROVE  /\ t + s \in Threads /\ t # t + s /\ ~ t + s < s
               /\ t < 2 * s /\ t + s < 2 * s
               /\ Group(t, s) \cap Group(t + s, s) = {}
               /\ Group(t, NextStride(s)) = Group(t, s) \cup Group(t + s, s)
    <3>1. t \in Nat
      BY BlockIs
    <3>2. 2 * s <= N
      <4>1. ~ N < 2 * s
        <5> SUFFICES ASSUME N < 2 * s PROVE FALSE
          OBVIOUS
        <5>1. 0 \in Nat /\ N \in 0 .. 2 * s - 1 /\ N = (2 * s) * 0 + N /\ 2 * s \in Nat \ {0}
              /\ N \in Nat
          BY <2>1
        <5>2. N % (2 * s) = N
          BY <5>1, Remainder
        <5> QED
          BY <2>1, <5>2
      <4> QED
        BY <2>1, <4>1
    <3>3. t + s \in Threads /\ t # t + s /\ ~ t + s < s /\ t < 2 * s /\ t + s < 2 * s
      BY <2>1, <2>8, <3>1, <3>2 DEF Threads
    <3>4. \A u \in Threads : u % s = t <=> (u % (2 * s) = t \/ u % (2 * s) = t + s)
      <4> TAKE u \in Threads
      <4>1. u \in Nat
        BY BlockIs
      <4>2. u % s \in 0 .. s - 1 /\ (u % (2 * s) = u % s \/ u % (2 * s) = (u % s) + s)
        BY <2>1, <4>1, Division, Halves
      <4> QED
        BY <2>1, <2>8, <3>1, <4>2
    <3> QED
      BY <2>7, <3>3, <3>4
  <2> QED
    BY <2>4, <2>5, <2>6, <2>8
<1> QED
  BY <1>1, <1>2

(* When the loop ends, thread 0 leads all of the block.                     *)
LEMMA LastGroup ==
  ASSUME launch \in Launches, NEW s, IsStride(s), ~ StrideOk(s)
  PROVE  Leader(0, s) /\ Group(0, s) = Threads
<1>1. CASE Attention
  <2>1. s \in Nat \ {0} /\ ~ s < N
    BY <1>1 DEF IsStride, StrideOk
  <2>2. 0 % s = 0
    <3>1. 0 \in 0 .. s - 1 /\ 0 = s * 0 + 0
      BY <2>1
    <3> QED
      BY <2>1, <3>1, Remainder
  <2>3. \A u \in Threads : 0 <= u /\ u < 0 + s
    BY <2>1, BlockIs DEF Threads
  <2> QED
    BY <1>1, <2>2, <2>3 DEF Leader, Group
<1>2. CASE ~ Attention
  <2>1. s = 0 /\ Width(s) = 1
    BY <1>2, BlockIs DEF IsStride, StrideOk, Width
  <2>2. \A u \in Threads : u % 1 = 0
    BY BlockIs
  <2> QED
    BY <1>2, <2>1, <2>2 DEF Leader, Group
<1> QED
  BY <1>1, <1>2

-----------------------------------------------------------------------------
(* Values.                                                                  *)
LEMMA TermsIsValue ==
  ASSUME NEW r \in Reductions, NEW S \in SUBSET Threads
  PROVE  IsValue(Terms(r, S))
<1> DEFINE D == {r} \X S
<1>1. D \subseteq Reductions \X Threads
  OBVIOUS
<1>2. IsABag(SetToBag(D)) /\ BagToSet(SetToBag(D)) = D
  <2> HIDE DEF D
  <2> QED
    BY DEF SetToBag, IsABag, BagToSet
<1> QED
  BY <1>1, <1>2 DEF IsValue, Terms

LEMMA SumOfValues ==
  ASSUME NEW v, NEW w, IsValue(v), IsValue(w)
  PROVE  IsValue(v (+) w)
<1> DEFINE Both == (DOMAIN v) \cup (DOMAIN w)
           count(e) == (IF e \in DOMAIN v THEN v[e] ELSE 0) + (IF e \in DOMAIN w THEN w[e] ELSE 0)
<1>1. \A e \in Both : count(e) \in {n \in Nat : n > 0}
  BY DEF IsValue, IsABag, BagToSet
<1>2. v (+) w = [e \in Both |-> count(e)]
  BY DEF (+)
<1>3. Both \subseteq Reductions \X Threads
  BY DEF IsValue, BagToSet
<1> HIDE DEF Both, count
<1>4. DOMAIN (v (+) w) = Both /\ v (+) w \in [Both -> {n \in Nat : n > 0}]
  BY <1>1, <1>2
<1> QED
  BY <1>3, <1>4 DEF IsValue, IsABag, BagToSet

(* Disjoint sets of contributions add up to their union.                    *)
LEMMA SumOfTerms ==
  ASSUME NEW r, NEW A, NEW B, A \cap B = {}
  PROVE  Terms(r, A) (+) Terms(r, B) = Terms(r, A \cup B)
<1> DEFINE X == {r} \X A
           Y == {r} \X B
           Z == {r} \X (A \cup B)
<1>1. X \cup Y = Z
  OBVIOUS
<1>2. \A e \in Z : e \in X <=> e \notin Y
  OBVIOUS
<1> HIDE DEF X, Y, Z
<1>3. SetToBag(X) (+) SetToBag(Y) = SetToBag(Z)
  BY <1>1, <1>2 DEF SetToBag, (+)
<1> QED
  BY <1>3 DEF Terms, X, Y, Z

-----------------------------------------------------------------------------
(* What depends on the launch only.                                         *)
LEMMA SameLaunch ==
  ASSUME launch' = launch
  PROVE  /\ Threads' = Threads /\ Reductions' = Reductions /\ N' = N
         /\ Rows' = Rows /\ Tiles' = Tiles /\ (Attention' <=> Attention)
         /\ FirstStride' = FirstStride
         /\ \A s : /\ NextStride(s)' = NextStride(s) /\ (StrideOk(s)' <=> StrideOk(s))
                   /\ (IsStride(s)' <=> IsStride(s)) /\ AfterStride(s)' = AfterStride(s)
         /\ \A t, s : /\ (Adds(t, s)' <=> Adds(t, s)) /\ (Leader(t, s)' <=> Leader(t, s))
                      /\ Group(t, s)' = Group(t, s)
         /\ \A r : (LastOfTile(r)' <=> LastOfTile(r)) /\ Sum(r)' = Sum(r)
         /\ \A v : IsValue(v)' <=> IsValue(v)
<1>1. /\ N' = N /\ Rows' = Rows /\ Tiles' = Tiles /\ (Attention' <=> Attention)
  BY DEF N, Rows, Tiles, Attention
<1>2. Threads' = Threads /\ Reductions' = Reductions /\ FirstStride' = FirstStride
  BY <1>1 DEF Threads, Reductions, FirstStride
<1>3. \A s : NextStride(s)' = NextStride(s) /\ (StrideOk(s)' <=> StrideOk(s))
  BY <1>1 DEF NextStride, StrideOk
<1>4. \A s : IsStride(s)' <=> IsStride(s)
  BY <1>1 DEF IsStride
<1>5. \A s : AfterStride(s)' = AfterStride(s)
  BY <1>3 DEF AfterStride
<1>6. \A t, s : (Adds(t, s)' <=> Adds(t, s)) /\ (Leader(t, s)' <=> Leader(t, s))
  BY <1>1 DEF Adds, Leader
<1>7. \A t, s : Group(t, s)' = Group(t, s)
  BY <1>1, <1>2 DEF Group
<1>8. \A r : (LastOfTile(r)' <=> LastOfTile(r)) /\ Sum(r)' = Sum(r)
  BY <1>1, <1>2 DEF LastOfTile, Sum
<1>9. \A v : IsValue(v)' <=> IsValue(v)
  BY <1>2 DEF IsValue
<1> QED
  BY <1>1, <1>2, <1>3, <1>4, <1>5, <1>6, <1>7, <1>8, <1>9

(* The numbers of reductions.                                               *)
LEMMA ReductionsAre ==
  ASSUME launch \in Launches, NEW r \in Reductions
  PROVE  /\ r \in Nat \ {0} /\ 1 \in Reductions /\ r + 1 \in 1 .. Rows * Tiles + 1
         /\ r # Rows * Tiles => r + 1 \in Reductions
         /\ ~ LastOfTile(r) => r # Rows * Tiles
BY BlockIs DEF Reductions, LastOfTile

(* The phase in which a thread is about to do something.                    *)
LEMMA PhaseOf ==
  ASSUME BlockInv, NEW t \in Threads
  PROVE  /\ op[t] = "load" => \E r \in Reductions : LoadPhase(r)
         /\ op[t] = "write" => \E r \in Reductions : WritePhase(r) /\ row[t] = r
         /\ op[t] = "add" => \E r \in Reductions, s \in 0 .. 2 * N :
                               AddPhase(s, r) /\ ToAdd(t, s, r) /\ row[t] = r
         /\ op[t] = "read" => \E r \in Reductions : row[t] = r /\
              (ReadPhase(r) \/ (~ LastOfTile(r) /\ r + 1 \in Reductions /\ WritePhase(r + 1)))
<1> USE DEF Waits
<1>1. DonePhase => op[t] = "done"
  BY DEF DonePhase
<1>2. ASSUME NEW r \in Reductions, LoadPhase(r) PROVE op[t] \in {"load", "sync"}
  BY <1>2 DEF LoadPhase
<1>3. ASSUME NEW r \in Reductions, WritePhase(r)
      PROVE  /\ op[t] \in {"read", "write", "sync"}
             /\ op[t] = "write" => row[t] = r
             /\ op[t] = "read" => \E q \in Reductions : row[t] = q /\ ~ LastOfTile(q)
                                    /\ q + 1 \in Reductions /\ WritePhase(q + 1)
  <2>1. Reads(t, r - 1) \/ Writes(t, r) \/ Wrote(t, r)
    BY <1>3 DEF WritePhase
  <2>2. CASE Reads(t, r - 1)
    <3>1. r - 1 \in Reductions /\ r = (r - 1) + 1
      BY <2>2, BlockIs DEF Reads, Reductions
    <3> QED
      BY <1>3, <2>2, <3>1 DEF Reads
  <2> QED
    BY <2>1, <2>2 DEF Writes, Wrote
<1>4. ASSUME NEW r \in Reductions, ReadPhase(r)
      PROVE  op[t] \in {"read", "sync", "done"} /\ (op[t] = "read" => row[t] = r)
  BY <1>4 DEF ReadPhase, LastRead
<1>5. ASSUME NEW r \in Reductions, NEW s \in 0 .. 2 * N, AddPhase(s, r)
      PROVE  row[t] = r /\ (ToAdd(t, s, r) \/ op[t] = "sync")
  BY <1>5 DEF AddPhase, Added
<1> QED
  BY <1>1, <1>2, <1>3, <1>4, <1>5 DEF BlockInv, Phase, ToAdd

-----------------------------------------------------------------------------
(* A thread that no step touches is where it was in its phase.              *)
LEMMA Untouched ==
  ASSUME launch' = launch, NEW u,
         op'[u] = op[u], then'[u] = then[u], row'[u] = row[u],
         stride'[u] = stride[u], red'[u] = red[u]
  PROVE  /\ \A r : /\ Reads(u, r)' <=> Reads(u, r)
                   /\ Writes(u, r)' <=> Writes(u, r)
                   /\ Wrote(u, r)' <=> Wrote(u, r)
                   /\ LastRead(u, r)' <=> LastRead(u, r)
         /\ \A s, r : /\ ToAdd(u, s, r)' <=> ToAdd(u, s, r)
                      /\ Added(u, s, r)' <=> Added(u, s, r)
<1>1. \A next : Waits(u, next)' <=> Waits(u, next)
  BY DEF Waits
<1>2. \A s, r : Holds(u, s, r)' <=> Holds(u, s, r)
  BY SameLaunch DEF Holds, Terms
<1>3. \A r : Terms(r, {u})' = Terms(r, {u})
  BY DEF Terms
<1>4. \A r : /\ Reads(u, r)' <=> Reads(u, r)
             /\ Writes(u, r)' <=> Writes(u, r)
  BY SameLaunch DEF Reads, Writes
<1>5. \A r : Wrote(u, r)' <=> Wrote(u, r)
  BY <1>1, <1>3, SameLaunch DEF Wrote
<1>6. \A r : LastRead(u, r)' <=> LastRead(u, r)
  BY <1>1, SameLaunch DEF LastRead
<1>7. \A s, r : ToAdd(u, s, r)' <=> ToAdd(u, s, r)
  BY <1>2 DEF ToAdd
<1>8. \A s, r : Added(u, s, r)' <=> Added(u, s, r)
  BY <1>1, <1>2, SameLaunch DEF Added
<1> QED
  BY <1>4, <1>5, <1>6, <1>7, <1>8

(* The type invariant of the next state, with the threads of this one.      *)
LEMMA TypeNext ==
  ASSUME launch \in Launches, launch' = launch,
         red' = [t \in Threads |-> red'[t]], \A t \in Threads : IsValue(red'[t]),
         op' \in [Threads -> {"load", "write", "add", "read", "sync", "done"}],
         then' \in [Threads -> {"load", "write", "add", "read", "done"}],
         row' \in [Threads -> 1 .. Rows * Tiles + 1],
         stride' \in [Threads -> 0 .. 2 * N],
         score' = [t \in Threads |-> [r \in Reductions |-> score'[t][r]]],
         \A t \in Threads, r \in Reductions : IsValue(score'[t][r])
  PROVE  TypeOK'
<1>1. Threads' = Threads /\ Reductions' = Reductions /\ N' = N /\ Rows' = Rows /\ Tiles' = Tiles
  BY SameLaunch
<1>2. \A v : IsValue(v)' <=> IsValue(v)
  BY SameLaunch
<1>3. (\A t \in Threads, r \in Reductions : IsValue(score[t][r]))'
  BY <1>1, <1>2
<1>4. (\A t \in Threads : IsValue(red[t]))'
  BY <1>1, <1>2
<1> QED
  BY <1>1, <1>3, <1>4 DEF TypeOK

(* What has been read stays read.                                           *)
LEMMA ScoresStay ==
  ASSUME BlockInv, launch' = launch, row' = row, score' = score
  PROVE  (\A t \in Threads, r \in Reductions : HasRead(t, r) => GoodScore(t, r))'
<1>1. \A t, r : (HasRead(t, r)' <=> HasRead(t, r)) /\ (GoodScore(t, r)' <=> GoodScore(t, r))
  BY SameLaunch DEF HasRead, GoodScore, Terms
<1> QED
  BY <1>1, SameLaunch DEF BlockInv

LEMMA LoadStep ==
  ASSUME BlockInv, NEW t \in Threads, Load(t)
  PROVE  BlockInv'
<1>0. launch' = launch
  BY DEF Load
<1>1. TypeOK'
  <2>1. op' \in [Threads -> {"load", "write", "add", "read", "sync", "done"}]
    BY DEF BlockInv, TypeOK, Load, Arrive
  <2>2. then' \in [Threads -> {"load", "write", "add", "read", "done"}]
    BY DEF BlockInv, TypeOK, Load, Arrive
  <2> QED
    BY <1>0, <2>1, <2>2, TypeNext DEF BlockInv, TypeOK, Load
<1>2. PICK r \in Reductions : LoadPhase(r)
  BY PhaseOf DEF Load
<1>3. LoadPhase(r)'
  <2>1. \A u \in Threads : row'[u] = r /\ (op'[u] = "load" \/ (op'[u] = "sync" /\ then'[u] = "write"))
    BY <1>2 DEF LoadPhase, Waits, Load, Arrive, BlockInv, TypeOK
  <2>2. Attention'
    BY <1>0, <1>2, SameLaunch DEF LoadPhase
  <2> QED
    BY <1>0, <2>1, <2>2, SameLaunch DEF LoadPhase, Waits
<1>4. Phase'
  BY <1>0, <1>3, SameLaunch DEF Phase
<1>5. (\A u \in Threads, q \in Reductions : HasRead(u, q) => GoodScore(u, q))'
  BY <1>0, ScoresStay DEF Load
<1> QED
  BY <1>1, <1>4, <1>5 DEF BlockInv

LEMMA WriteStep ==
  ASSUME BlockInv, NEW t \in Threads, Write(t)
  PROVE  BlockInv'
<1>0. launch' = launch
  BY DEF Write
<1>2. PICK r \in Reductions : WritePhase(r) /\ row[t] = r
  BY PhaseOf DEF Write
<1>3. /\ op'[t] = "sync" /\ then'[t] = AfterStride(FirstStride) /\ row' = row
      /\ stride'[t] = FirstStride /\ red'[t] = Terms(r, {t})
  BY <1>2, Zenon DEF Write, Arrive, AfterStride, BlockInv, TypeOK
<1>4. \A u \in Threads : u # t =>
        /\ op'[u] = op[u] /\ then'[u] = then[u] /\ row'[u] = row[u]
        /\ stride'[u] = stride[u] /\ red'[u] = red[u]
  BY DEF Write, Arrive, BlockInv, TypeOK
<1>5. IsValue(Terms(r, {t}))
  BY TermsIsValue
<1>6. FirstStride \in 0 .. 2 * N
  BY BlockIs DEF FirstStride, BlockInv, TypeOK
<1>1. TypeOK'
  <2>1. op' \in [Threads -> {"load", "write", "add", "read", "sync", "done"}]
    BY DEF BlockInv, TypeOK, Write, Arrive
  <2>2. then' \in [Threads -> {"load", "write", "add", "read", "done"}]
    BY DEF BlockInv, TypeOK, Write, Arrive
  <2>3. red' = [u \in Threads |-> red'[u]] /\ \A u \in Threads : IsValue(red'[u])
    BY <1>2, <1>5 DEF BlockInv, TypeOK, Write
  <2>4. stride' \in [Threads -> 0 .. 2 * N]
    BY <1>6 DEF BlockInv, TypeOK, Write
  <2>5. score' = score /\ row' = row
    BY DEF Write
  <2> QED
    BY <1>0, <2>1, <2>2, <2>3, <2>4, <2>5, TypeNext DEF BlockInv, TypeOK
<1>7. Wrote(t, r)'
  BY <1>0, <1>2, <1>3, SameLaunch DEF Wrote, Waits, Terms
<1>8. \A u \in Threads : u # t => /\ Reads(u, r - 1)' <=> Reads(u, r - 1)
                                  /\ Writes(u, r)' <=> Writes(u, r)
                                  /\ Wrote(u, r)' <=> Wrote(u, r)
  BY <1>0, <1>4, Untouched
<1>9. \A u \in Threads : (Reads(u, r - 1) \/ Writes(u, r) \/ Wrote(u, r))'
  BY <1>2, <1>7, <1>8 DEF WritePhase
<1>10. \A u \in Threads : op'[u] = "read" => (Wrote(0, r) \/ red[0] = Sum(r - 1))'
  <2> TAKE u \in Threads
  <2> HAVE op'[u] = "read"
  <2>1. u # t /\ op[u] = "read"
    BY <1>3, <1>4
  <2>2. Wrote(0, r) \/ red[0] = Sum(r - 1)
    BY <1>2, <2>1 DEF WritePhase
  <2>3. 0 \in Threads
    BY BlockIs DEF BlockInv, TypeOK
  <2> QED
    BY <1>0, <1>4, <1>7, <1>8, <2>2, <2>3, SameLaunch
<1>11. WritePhase(r)'
  BY <1>0, <1>9, <1>10, SameLaunch DEF WritePhase
<1>12. Phase'
  BY <1>0, <1>11, SameLaunch DEF Phase
<1>13. (\A u \in Threads, q \in Reductions : HasRead(u, q) => GoodScore(u, q))'
  BY <1>0, ScoresStay DEF Write
<1> QED
  BY <1>1, <1>12, <1>13 DEF BlockInv

LEMMA AddStep ==
  ASSUME BlockInv, NEW t \in Threads, Add(t)
  PROVE  BlockInv'
<1>0. launch' = launch /\ launch \in Launches
  BY DEF Add, BlockInv, TypeOK
<1>1. PICK r \in Reductions, s \in 0 .. 2 * N :
        AddPhase(s, r) /\ ToAdd(t, s, r) /\ row[t] = r
  BY PhaseOf DEF Add
<1>2. IsStride(s) /\ StrideOk(s) /\ stride[t] = s /\ Holds(t, s, r)
  BY <1>1 DEF AddPhase, ToAdd
<1>3. IsStride(NextStride(s))
  BY <1>0, <1>2, NextGroups
<1>4. /\ op'[t] = "sync" /\ then'[t] = AfterStride(NextStride(s)) /\ row' = row
      /\ stride'[t] = NextStride(s)
      /\ red'[t] = IF Adds(t, s) THEN red[t] (+) red[t + s] ELSE red[t]
  BY <1>2, Zenon DEF Add, Arrive, AfterStride, BlockInv, TypeOK
<1>5. \A u \in Threads : u # t =>
        /\ op'[u] = op[u] /\ then'[u] = then[u] /\ row'[u] = row[u]
        /\ stride'[u] = stride[u] /\ red'[u] = red[u]
  BY DEF Add, Arrive, BlockInv, TypeOK
<1>6. ASSUME Adds(t, s) PROVE t + s \in Threads /\ red'[t] = Terms(r, Group(t, NextStride(s)))
  <2>1. /\ t + s \in Threads /\ ~ Adds(t + s, s) /\ Leader(t, s) /\ Leader(t + s, s)
        /\ Group(t, s) \cap Group(t + s, s) = {}
        /\ Group(t, NextStride(s)) = Group(t, s) \cup Group(t + s, s)
    BY <1>0, <1>2, <1>6, NextGroups
  <2>2. red[t] = Terms(r, Group(t, s))
    BY <1>2, <2>1 DEF Holds
  <2>3. red[t + s] = Terms(r, Group(t + s, s))
    BY <1>1, <2>1 DEF AddPhase, ToAdd, Added, Holds
  <2>4. red'[t] = Terms(r, Group(t, s)) (+) Terms(r, Group(t + s, s))
    BY <1>4, <1>6, <2>2, <2>3
  <2> QED
    BY <2>1, <2>4, SumOfTerms
<1>7. ASSUME ~ Adds(t, s)
      PROVE  /\ red'[t] = red[t]
             /\ Leader(t, NextStride(s)) => red'[t] = Terms(r, Group(t, NextStride(s)))
             /\ Leader(t, s) => red'[t] = Terms(r, Group(t, s))
  <2>1. red'[t] = red[t]
    BY <1>4, <1>7
  <2>2. Leader(t, NextStride(s)) => Leader(t, s) /\ Group(t, NextStride(s)) = Group(t, s)
    BY <1>0, <1>2, <1>7, NextGroups
  <2> QED
    BY <1>2, <2>1, <2>2 DEF Holds
<1>8. TypeOK'
  <2>1. op' \in [Threads -> {"load", "write", "add", "read", "sync", "done"}]
    BY DEF BlockInv, TypeOK, Add, Arrive
  <2>2. then' \in [Threads -> {"load", "write", "add", "read", "done"}]
    BY DEF BlockInv, TypeOK, Add, Arrive
  <2>3. IsValue(red'[t])
    <3>1. CASE Adds(t, s)
      <4>1. t + s \in Threads /\ red'[t] = red[t] (+) red[t + s]
        BY <1>4, <1>6, <3>1
      <4> QED
        BY <4>1, SumOfValues DEF BlockInv, TypeOK
    <3>2. CASE ~ Adds(t, s)
      BY <1>7, <3>2 DEF BlockInv, TypeOK
    <3> QED
      BY <3>1, <3>2
  <2>4. \A u \in Threads : IsValue(red'[u])
    BY <1>5, <2>3 DEF BlockInv, TypeOK
  <2>5. red' = [u \in Threads |-> red'[u]]
    BY DEF BlockInv, TypeOK, Add
  <2>6. NextStride(s) \in 0 .. 2 * N
    BY <1>0, <1>3, BlockIs DEF IsStride
  <2>7. stride' \in [Threads -> 0 .. 2 * N]
    BY <1>2, <2>6 DEF BlockInv, TypeOK, Add
  <2>8. score' = score /\ row' = row
    BY DEF Add
  <2> QED
    BY <1>0, <2>1, <2>2, <2>4, <2>5, <2>7, <2>8, TypeNext DEF BlockInv, TypeOK
<1>9. Added(t, s, r)'
  <2>1. Leader(t, NextStride(s)) => red'[t] = Terms(r, Group(t, NextStride(s)))
    BY <1>6, <1>7
  <2>2. ~ Adds(t, s) => (Leader(t, s) => red'[t] = Terms(r, Group(t, s)))
    BY <1>7
  <2>3. \A q, S : Terms(q, S)' = Terms(q, S)
    BY DEF Terms
  <2> QED
    BY <1>0, <1>4, <2>1, <2>2, <2>3, SameLaunch DEF Added, Waits, Holds
<1>10. \A u \in Threads : u # t => /\ ToAdd(u, s, r)' <=> ToAdd(u, s, r)
                                   /\ Added(u, s, r)' <=> Added(u, s, r)
  BY <1>0, <1>5, Untouched
<1>11. \A u \in Threads : row'[u] = r /\ (ToAdd(u, s, r) \/ Added(u, s, r))'
  BY <1>1, <1>4, <1>9, <1>10 DEF AddPhase
<1>12. AddPhase(s, r)'
  BY <1>0, <1>2, <1>11, SameLaunch DEF AddPhase
<1>13. Phase'
  BY <1>0, <1>12, SameLaunch DEF Phase
<1>14. (\A u \in Threads, q \in Reductions : HasRead(u, q) => GoodScore(u, q))'
  BY <1>0, ScoresStay DEF Add
<1> QED
  BY <1>8, <1>13, <1>14 DEF BlockInv

LEMMA ReadStep ==
  ASSUME BlockInv, NEW t \in Threads, Read(t)
  PROVE  BlockInv'
<1>0. launch' = launch /\ launch \in Launches
  BY DEF Read, BlockInv, TypeOK
<1>1. PICK r \in Reductions : row[t] = r /\
        (ReadPhase(r) \/ (~ LastOfTile(r) /\ r + 1 \in Reductions /\ WritePhase(r + 1)))
  BY PhaseOf DEF Read
<1>2. r \in Nat \ {0} /\ r + 1 \in 1 .. Rows * Tiles + 1
  BY <1>0, ReductionsAre
<1>3. /\ row'[t] = r + 1 /\ score'[t][r] = red[0] /\ red' = red /\ stride' = stride
      /\ ~ LastOfTile(r) => op'[t] = "write"
      /\ LastOfTile(r) /\ Attention =>
           op'[t] = "sync" /\ then'[t] = (IF r = Rows * Tiles THEN "done" ELSE "load")
      /\ LastOfTile(r) /\ ~ Attention => op'[t] = "done"
  <2>1. row'[t] = r + 1 /\ red' = red /\ stride' = stride
    BY <1>1 DEF Read, BlockInv, TypeOK
  <2>2. score'[t][r] = red[0]
    <3>1. score' = [score EXCEPT ![t][r] = red[0]]
      BY <1>1 DEF Read
    <3>2. score = [u \in Threads |-> [q \in Reductions |-> score[u][q]]]
      BY DEF BlockInv, TypeOK
    <3> QED
      BY <3>1, <3>2
  <2>3. /\ ~ LastOfTile(r) => op'[t] = "write"
        /\ LastOfTile(r) /\ Attention =>
             op'[t] = "sync" /\ then'[t] = (IF r = Rows * Tiles THEN "done" ELSE "load")
        /\ LastOfTile(r) /\ ~ Attention => op'[t] = "done"
    BY <1>1 DEF Read, Arrive, BlockInv, TypeOK
  <2> QED
    BY <2>1, <2>2, <2>3
<1>4. \A u \in Threads : u # t =>
        /\ op'[u] = op[u] /\ then'[u] = then[u] /\ row'[u] = row[u]
        /\ stride'[u] = stride[u] /\ red'[u] = red[u]
  BY DEF Read, Arrive, BlockInv, TypeOK
<1>5. \A u \in Threads, q \in Reductions : u # t \/ q # r => score'[u][q] = score[u][q]
  <2>1. score' = [score EXCEPT ![t][r] = red[0]]
    BY <1>1 DEF Read
  <2>2. score = [u \in Threads |-> [q \in Reductions |-> score[u][q]]]
    BY DEF BlockInv, TypeOK
  <2> QED
    BY <2>1, <2>2
<1>6. 0 \in Threads
  BY <1>0, BlockIs
<1>7. TypeOK'
  <2>1. op' \in [Threads -> {"load", "write", "add", "read", "sync", "done"}]
    BY DEF BlockInv, TypeOK, Read, Arrive
  <2>2. then' \in [Threads -> {"load", "write", "add", "read", "done"}]
    BY DEF BlockInv, TypeOK, Read, Arrive
  <2>3. row' \in [Threads -> 1 .. Rows * Tiles + 1]
    BY <1>1, <1>2 DEF BlockInv, TypeOK, Read
  <2>4. score' = [u \in Threads |-> [q \in Reductions |-> score'[u][q]]]
    <3>1. score' = [score EXCEPT ![t][r] = red[0]]
      BY <1>1 DEF Read
    <3>2. score = [u \in Threads |-> [q \in Reductions |-> score[u][q]]]
      BY DEF BlockInv, TypeOK
    <3> QED
      BY <3>1, <3>2
  <2>5. \A u \in Threads, q \in Reductions : IsValue(score'[u][q])
    BY <1>3, <1>5, <1>6 DEF BlockInv, TypeOK
  <2> QED
    BY <1>0, <1>3, <2>1, <2>2, <2>3, <2>4, <2>5, TypeNext DEF BlockInv, TypeOK
<1>8. GoodScore(t, r)'
  <2>1. CASE ReadPhase(r)
    <3>1. score'[t][r] = Sum(r)
      BY <1>3, <2>1 DEF ReadPhase
    <3> QED
      BY <1>0, <3>1, SameLaunch DEF GoodScore
  <2>2. CASE ~ LastOfTile(r) /\ WritePhase(r + 1)
    <3>1. op[t] = "read" /\ (r + 1) - 1 = r
      BY <1>2 DEF Read
    <3>2. CASE Wrote(0, r + 1)
      <4>1. t # 0 /\ red[0] = Terms(r + 1, {0})
        BY <3>1, <3>2 DEF Wrote, Waits
      <4>2. Terms(r + 1, {0})' = Terms(r + 1, {0})
        BY DEF Terms
      <4> QED
        BY <1>0, <1>3, <2>2, <4>1, <4>2, SameLaunch DEF GoodScore
    <3>3. CASE red[0] = Sum((r + 1) - 1)
      <4>1. score'[t][r] = Sum(r)
        BY <1>3, <3>1, <3>3
      <4> QED
        BY <1>0, <4>1, SameLaunch DEF GoodScore
    <3> QED
      BY <2>2, <3>1, <3>2, <3>3 DEF WritePhase
  <2> QED
    BY <1>1, <2>1, <2>2
<1>9. (\A u \in Threads, q \in Reductions : HasRead(u, q) => GoodScore(u, q))'
  <2> SUFFICES ASSUME NEW u \in Threads, NEW q \in Reductions, row'[u] > q
               PROVE  GoodScore(u, q)'
    BY <1>0, SameLaunch DEF HasRead
  <2>1. CASE u = t /\ q = r
    BY <1>8, <2>1
  <2>2. CASE ~ (u = t /\ q = r)
    <3>1. row[u] > q
      <4>1. u # t => row[u] > q
        BY <1>4
      <4>2. q \in Nat
        BY <1>0, ReductionsAre
      <4> QED
        BY <1>1, <1>2, <1>3, <2>2, <4>1, <4>2
    <3>2. GoodScore(u, q)
      BY <3>1 DEF BlockInv, HasRead
    <3>3. score'[u][q] = score[u][q] /\ Terms(q + 1, {0})' = Terms(q + 1, {0})
      BY <1>5, <2>2 DEF Terms
    <3> QED
      BY <1>0, <3>2, <3>3, SameLaunch DEF GoodScore
  <2> QED
    BY <2>1, <2>2
<1>10. Phase'
  <2>1. CASE ReadPhase(r)
    <3>1. LastRead(t, r)'
      BY <1>0, <1>3, <2>1, SameLaunch DEF LastRead, Waits, ReadPhase
    <3>2. \A u \in Threads : u # t => (LastRead(u, r)' <=> LastRead(u, r))
      BY <1>0, <1>4, Untouched
    <3>3. \A u \in Threads : (op'[u] = "read" /\ row'[u] = r) \/ LastRead(u, r)'
      BY <1>4, <2>1, <3>1, <3>2 DEF ReadPhase
    <3>4. ReadPhase(r)'
      BY <1>0, <1>3, <2>1, <3>3, SameLaunch DEF ReadPhase
    <3> QED
      BY <1>0, <3>4, SameLaunch DEF Phase
  <2>2. CASE ~ LastOfTile(r) /\ r + 1 \in Reductions /\ WritePhase(r + 1)
    <3> DEFINE q == r + 1
    <3>1. Writes(t, q)'
      BY <1>3, <2>2 DEF Writes
    <3>2. \A u \in Threads : u # t => /\ Reads(u, q - 1)' <=> Reads(u, q - 1)
                                      /\ Writes(u, q)' <=> Writes(u, q)
                                      /\ Wrote(u, q)' <=> Wrote(u, q)
      BY <1>0, <1>4, Untouched
    <3>3. \A u \in Threads : (Reads(u, q - 1) \/ Writes(u, q) \/ Wrote(u, q))'
      BY <2>2, <3>1, <3>2 DEF WritePhase
    <3>4. \A u \in Threads : op'[u] = "read" => (Wrote(0, q) \/ red[0] = Sum(q - 1))'
      <4> TAKE u \in Threads
      <4> HAVE op'[u] = "read"
      <4>1. op[t] = "read" /\ (Wrote(0, q) \/ red[0] = Sum(q - 1))
        BY <2>2 DEF WritePhase, Read
      <4>2. Wrote(0, q) => 0 # t
        BY <4>1 DEF Wrote, Waits
      <4>3. Wrote(0, q) => Wrote(0, q)'
        BY <1>6, <3>2, <4>2
      <4>4. Sum(q - 1)' = Sum(q - 1)
        BY <1>0, SameLaunch
      <4> QED
        BY <1>3, <4>1, <4>3, <4>4
    <3>5. WritePhase(q)'
      BY <1>0, <3>3, <3>4, SameLaunch DEF WritePhase
    <3>6. q \in Reductions
      BY <2>2
    <3> HIDE DEF q
    <3> QED
      BY <1>0, <3>5, <3>6, SameLaunch DEF Phase
  <2> QED
    BY <1>1, <2>1, <2>2
<1> QED
  BY <1>7, <1>9, <1>10 DEF BlockInv

-----------------------------------------------------------------------------
(* The barrier moves the block from one phase to the next.                  *)
LEMMA BarrierStep ==
  ASSUME BlockInv, Barrier
  PROVE  BlockInv'
<1>0. launch' = launch /\ launch \in Launches /\ 0 \in Threads
  BY BlockIs DEF Barrier, BlockInv, TypeOK
<1>1. /\ \A t \in Threads : op[t] = "sync" /\ op'[t] = then[t] /\ row'[t] = row[t]
                            /\ stride'[t] = stride[t] /\ red'[t] = red[t]
      /\ red' = red /\ row' = row
  BY DEF Barrier
<1>2. TypeOK'
  <2>1. op' \in [Threads -> {"load", "write", "add", "read", "sync", "done"}]
    BY DEF BlockInv, TypeOK, Barrier
  <2> QED
    BY <1>0, <2>1, TypeNext DEF BlockInv, TypeOK, Barrier
<1>3. \A q, S : Terms(q, S)' = Terms(q, S)
  BY DEF Terms
<1>4. ASSUME NEW r \in Reductions, \A t \in Threads : op'[t] = "write" /\ row[t] = r
      PROVE  WritePhase(r)'
  <2>1. \A t \in Threads : Writes(t, r)'
    BY <1>1, <1>4 DEF Writes
  <2>2. \A t \in Threads : op'[t] # "read"
    BY <1>4
  <2> QED
    BY <1>0, <2>1, <2>2, SameLaunch DEF WritePhase
<1>5. ASSUME NEW r \in Reductions, red[0] = Sum(r),
             \A t \in Threads : op'[t] = "read" /\ row[t] = r
      PROVE  \E q \in Reductions : (WritePhase(q) \/ ReadPhase(q))'
  <2>1. CASE LastOfTile(r)
    <3>1. ReadPhase(r)'
      BY <1>0, <1>1, <1>5, <2>1, SameLaunch DEF ReadPhase
    <3> QED
      BY <3>1
  <2>2. CASE ~ LastOfTile(r)
    <3> DEFINE q == r + 1
    <3>1. q \in Reductions /\ q - 1 = r
      BY <1>0, <2>2, ReductionsAre
    <3>2. \A t \in Threads : Reads(t, r)'
      BY <1>0, <1>1, <1>5, <2>2, SameLaunch DEF Reads
    <3>3. red'[0] = Sum(r)'
      BY <1>0, <1>1, <1>5, SameLaunch
    <3> HIDE DEF q
    <3>4. \A t \in Threads : Reads(t, q - 1)'
      BY <3>1, <3>2
    <3>5. red'[0] = Sum(q - 1)'
      BY <3>1, <3>3
    <3>6. WritePhase(q)'
      BY <1>0, <3>4, <3>5, SameLaunch DEF WritePhase
    <3> QED
      BY <3>1, <3>6
  <2> QED
    BY <2>1, <2>2
<1>6. ASSUME NEW r \in Reductions, NEW s, IsStride(s),
             \A t \in Threads : /\ row[t] = r /\ stride[t] = s
                                /\ then[t] = AfterStride(s) /\ Holds(t, s, r)
      PROVE  Phase'
  <2>1. CASE StrideOk(s)
    <3>1. \A t \in Threads : ToAdd(t, s, r)'
      BY <1>0, <1>1, <1>3, <1>6, <2>1, SameLaunch DEF ToAdd, Holds, AfterStride
    <3>2. AddPhase(s, r)'
      BY <1>0, <1>1, <1>6, <2>1, <3>1, SameLaunch DEF AddPhase
    <3>3. s \in 0 .. 2 * N
      BY <1>0, <1>6, BlockIs DEF IsStride
    <3> QED
      BY <1>0, <3>2, <3>3, SameLaunch DEF Phase
  <2>2. CASE ~ StrideOk(s)
    <3>1. red[0] = Sum(r)
      BY <1>0, <1>6, <2>2, LastGroup DEF Holds, Sum
    <3>2. \A t \in Threads : op'[t] = "read" /\ row[t] = r
      BY <1>1, <1>6, <2>2 DEF AfterStride
    <3>3. \E q \in Reductions : (WritePhase(q) \/ ReadPhase(q))'
      BY <1>5, <3>1, <3>2
    <3> QED
      BY <1>0, <3>3, SameLaunch DEF Phase
  <2> QED
    BY <2>1, <2>2
<1>7. Phase'
  <2>1. ~ DonePhase
    BY <1>0, <1>1 DEF DonePhase
  <2>2. ASSUME NEW r \in Reductions, LoadPhase(r) PROVE Phase'
    <3>1. \A t \in Threads : op'[t] = "write" /\ row[t] = r
      BY <1>1, <2>2 DEF LoadPhase, Waits
    <3>2. WritePhase(r)'
      BY <1>4, <3>1
    <3> QED
      BY <1>0, <3>2, SameLaunch DEF Phase
  <2>3. ASSUME NEW r \in Reductions, WritePhase(r) PROVE Phase'
    <3>1. \A t \in Threads : Wrote(t, r)
      BY <1>1, <2>3 DEF WritePhase, Reads, Writes
    <3>2. IsStride(FirstStride) /\ \A t \in Threads : Group(t, FirstStride) = {t}
      BY <1>0, FirstGroups
    <3>3. \A t \in Threads : /\ row[t] = r /\ stride[t] = FirstStride
                             /\ then[t] = AfterStride(FirstStride) /\ Holds(t, FirstStride, r)
      BY <3>1, <3>2 DEF Wrote, Waits, Holds
    <3> QED
      BY <1>6, <3>2, <3>3
  <2>4. ASSUME NEW r \in Reductions, NEW s \in 0 .. 2 * N, AddPhase(s, r) PROVE Phase'
    <3>1. \A t \in Threads : row[t] = r /\ Added(t, s, r)
      BY <1>1, <2>4 DEF AddPhase, ToAdd
    <3>2. IsStride(NextStride(s))
      BY <1>0, <2>4, NextGroups DEF AddPhase
    <3>3. \A t \in Threads : /\ row[t] = r /\ stride[t] = NextStride(s)
                             /\ then[t] = AfterStride(NextStride(s))
                             /\ Holds(t, NextStride(s), r)
      BY <3>1 DEF Added, Waits
    <3> QED
      BY <1>6, <3>2, <3>3
  <2>5. ASSUME NEW r \in Reductions, ReadPhase(r) PROVE Phase'
    <3>1. \A t \in Threads : LastRead(t, r)
      BY <1>1, <2>5 DEF ReadPhase
    <3>2. Attention
      BY <1>0, <1>1, <3>1 DEF LastRead
    <3>3. \A t \in Threads : row[t] = r + 1
                             /\ op'[t] = (IF r = Rows * Tiles THEN "done" ELSE "load")
      BY <1>1, <3>1, <3>2 DEF LastRead, Waits
    <3>4. CASE r = Rows * Tiles
      <4>1. DonePhase'
        BY <1>0, <1>1, <3>3, <3>4, SameLaunch DEF DonePhase
      <4> QED
        BY <4>1 DEF Phase
    <3>5. CASE r # Rows * Tiles
      <4>1. r + 1 \in Reductions
        BY <1>0, <3>5, ReductionsAre
      <4>2. LoadPhase(r + 1)'
        BY <1>0, <1>1, <3>2, <3>3, <3>5, SameLaunch DEF LoadPhase
      <4> QED
        BY <1>0, <4>1, <4>2, SameLaunch DEF Phase
    <3> QED
      BY <3>4, <3>5
  <2> QED
    BY <2>1, <2>2, <2>3, <2>4, <2>5 DEF BlockInv, Phase
<1>8. (\A t \in Threads, q \in Reductions : HasRead(t, q) => GoodScore(t, q))'
  BY <1>0, ScoresStay DEF Barrier
<1> QED
  BY <1>2, <1>7, <1>8 DEF BlockInv

(* Attention starts by loading its first tile, layer_norm by its first sum. *)
LEMMA InitBlock == Init => BlockInv
<1> SUFFICES ASSUME Init PROVE BlockInv
  OBVIOUS
<1>0. launch \in Launches /\ 1 \in Reductions
  <2>1. launch \in Launches
    BY DEF Init
  <2> QED
    BY <2>1, BlockIs DEF Reductions
<1>1. IsValue(EmptyBag)
  BY DEF IsValue, EmptyBag, SetToBag, IsABag, BagToSet
<1>2. TypeOK
  <2>1. FirstStride \in 0 .. 2 * N
    BY <1>0, BlockIs DEF FirstStride
  <2>2. red = [t \in Threads |-> red[t]] /\ \A t \in Threads : IsValue(red[t])
    BY <1>1 DEF Init
  <2>3. op \in [Threads -> {"load", "write", "add", "read", "sync", "done"}]
    BY DEF Init
  <2>4. then \in [Threads -> {"load", "write", "add", "read", "done"}]
    BY DEF Init
  <2>5. row \in [Threads -> 1 .. Rows * Tiles + 1]
    <3>1. 1 \in 1 .. Rows * Tiles + 1
      BY <1>0, BlockIs
    <3> QED
      BY <3>1 DEF Init
  <2>6. stride \in [Threads -> 0 .. 2 * N]
    BY <2>1 DEF Init
  <2>7. /\ score = [t \in Threads |-> [r \in Reductions |-> score[t][r]]]
        /\ \A t \in Threads, r \in Reductions : IsValue(score[t][r])
    BY <1>1 DEF Init
  <2> QED
    BY <1>0, <2>2, <2>3, <2>4, <2>5, <2>6, <2>7 DEF TypeOK
<1>3. Phase
  <2>1. CASE Attention
    <3>1. LoadPhase(1)
      BY <2>1 DEF LoadPhase, Init
    <3> QED
      BY <1>0, <3>1 DEF Phase
  <2>2. CASE ~ Attention
    <3>1. \A t \in Threads : Writes(t, 1) /\ op[t] # "read"
      BY <2>2 DEF Writes, Init
    <3>2. WritePhase(1)
      BY <3>1 DEF WritePhase
    <3> QED
      BY <1>0, <3>2 DEF Phase
  <2> QED
    BY <2>1, <2>2
<1>4. \A t \in Threads, r \in Reductions : ~ HasRead(t, r)
  <2>1. \A r \in Reductions : r \in Nat \ {0}
    BY <1>0, ReductionsAre
  <2>2. \A t \in Threads : row[t] = 1
    BY DEF Init
  <2> QED
    BY <2>1, <2>2 DEF HasRead
<1> QED
  BY <1>2, <1>3, <1>4 DEF BlockInv

LEMMA StutterBlock == BlockInv /\ UNCHANGED vars => BlockInv'
<1> SUFFICES ASSUME BlockInv, UNCHANGED vars PROVE BlockInv'
  OBVIOUS
<1>0. launch' = launch /\ \A q, S : Terms(q, S)' = Terms(q, S)
  BY DEF vars, Terms
<1>1. TypeOK'
  BY <1>0, TypeNext DEF BlockInv, TypeOK, vars
<1>2. \A u : /\ op'[u] = op[u] /\ then'[u] = then[u] /\ row'[u] = row[u]
             /\ stride'[u] = stride[u] /\ red'[u] = red[u]
  BY DEF vars
<1>3. \A u : \A r : /\ Reads(u, r)' <=> Reads(u, r)
                    /\ Writes(u, r)' <=> Writes(u, r)
                    /\ Wrote(u, r)' <=> Wrote(u, r)
                    /\ LastRead(u, r)' <=> LastRead(u, r)
  BY <1>0, <1>2, Untouched
<1>4. \A u : \A s, r : /\ ToAdd(u, s, r)' <=> ToAdd(u, s, r)
                       /\ Added(u, s, r)' <=> Added(u, s, r)
  BY <1>0, <1>2, Untouched
<1>5. /\ \A r : /\ WritePhase(r)' <=> WritePhase(r)
                /\ LoadPhase(r)' <=> LoadPhase(r)
                /\ ReadPhase(r)' <=> ReadPhase(r)
      /\ DonePhase' <=> DonePhase
  <2>1. \A r : WritePhase(r)' <=> WritePhase(r)
    BY <1>0, <1>2, <1>3, SameLaunch DEF WritePhase, vars
  <2>2. \A r : ReadPhase(r)' <=> ReadPhase(r)
    BY <1>0, <1>2, <1>3, SameLaunch DEF ReadPhase, vars
  <2>3. \A r : LoadPhase(r)' <=> LoadPhase(r)
    BY <1>0, <1>2, SameLaunch DEF LoadPhase, Waits
  <2>4. DonePhase' <=> DonePhase
    BY <1>0, <1>2, SameLaunch DEF DonePhase
  <2> QED
    BY <2>1, <2>2, <2>3, <2>4
<1>6. \A s, r : AddPhase(s, r)' <=> AddPhase(s, r)
  BY <1>0, <1>2, <1>4, SameLaunch DEF AddPhase
<1>7. Phase'
  BY <1>0, <1>5, <1>6, SameLaunch DEF BlockInv, Phase
<1>8. (\A t \in Threads, q \in Reductions : HasRead(t, q) => GoodScore(t, q))'
  BY <1>0, ScoresStay DEF vars
<1> QED
  BY <1>1, <1>7, <1>8 DEF BlockInv

-----------------------------------------------------------------------------
(* The phases are the inductive invariant.                                  *)
THEOREM BlockInvariant == Spec => []BlockInv
<1>1. BlockInv /\ [Next]_vars => BlockInv'
  BY LoadStep, WriteStep, AddStep, ReadStep, BarrierStep, StutterBlock DEF Next, ThreadStep
<1> QED
  BY <1>1, InitBlock, PTL DEF Spec

(* The array and the strides stay within the block                          *)
(* (src/kernels/attention.cu, attn_reduce_sum).                             *)
THEOREM BlockReduceType == Spec => []TypeOK
<1>1. BlockInv => TypeOK
  BY DEF BlockInv
<1> QED
  BY <1>1, BlockInvariant, PTL

(* For every block size the tree adds up each thread once, and a thread     *)
(* that misses the sum reads thread 0's part of the next row, no other.     *)
THEOREM TreeAddsUp == Spec => []SumOrNextPartial
<1>1. BlockInv => SumOrNextPartial
  BY DEF BlockInv, SumOrNextPartial, GoodScore
<1> QED
  BY <1>1, BlockInvariant, PTL

(* No thread waits at __syncthreads for one that has left the kernel: the   *)
(* block is done, or the barrier opens, or a thread can go on.              *)
THEOREM BarriersAreMet ==
  Spec => [](\/ \A t \in Threads : op[t] = "done"
             \/ \A t \in Threads : op[t] = "sync"
             \/ \E t \in Threads : op[t] \in {"load", "write", "add", "read"})
<1>1. BlockInv => (\/ \A t \in Threads : op[t] = "done"
                   \/ \A t \in Threads : op[t] = "sync"
                   \/ \E t \in Threads : op[t] \in {"load", "write", "add", "read"})
  <2> SUFFICES ASSUME BlockInv, \A t \in Threads : op[t] \in {"done", "sync"}
               PROVE  (\A t \in Threads : op[t] = "done") \/ (\A t \in Threads : op[t] = "sync")
    BY DEF BlockInv, TypeOK
  <2>1. DonePhase => \A t \in Threads : op[t] = "done"
    BY DEF DonePhase
  <2>2. ASSUME NEW r \in Reductions, LoadPhase(r) PROVE \A t \in Threads : op[t] = "sync"
    BY <2>2 DEF LoadPhase, Waits
  <2>3. ASSUME NEW r \in Reductions, WritePhase(r) PROVE \A t \in Threads : op[t] = "sync"
    BY <2>3 DEF WritePhase, Reads, Writes, Wrote, Waits
  <2>4. ASSUME NEW r \in Reductions, ReadPhase(r)
        PROVE  (\A t \in Threads : op[t] = "done") \/ (\A t \in Threads : op[t] = "sync")
    <3>1. \A t \in Threads : LastRead(t, r)
      BY <2>4 DEF ReadPhase
    <3> QED
      BY <3>1 DEF LastRead, Waits
  <2>5. ASSUME NEW r \in Reductions, NEW s \in 0 .. 2 * N, AddPhase(s, r)
        PROVE  \A t \in Threads : op[t] = "sync"
    BY <2>5 DEF AddPhase, ToAdd, Added, Waits
  <2> QED
    BY <2>1, <2>2, <2>3, <2>4, <2>5 DEF BlockInv, Phase
<1> QED
  BY <1>1, BlockInvariant, PTL
=============================================================================
