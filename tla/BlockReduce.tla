----------------------------- MODULE BlockReduce -----------------------------
(***************************************************************************)
(* The reductions of a CUDA thread block over the shared array `red`       *)
(* (src/kernels/attention.cu: attn_reduce_sum, called by fused_attention   *)
(* once per key row of a tile) or `s_sum` (src/kernels/activations.cu:     *)
(* layer_norm_impl, which reduces the sum and then the squares).           *)
(*                                                                         *)
(* A thread is a lane that may be scheduled between any two accesses to    *)
(* the array; __syncthreads holds it until every thread of the block has   *)
(* arrived.  Neither kernel has a barrier between the read of element 0    *)
(* and the write of the next reduction.                                    *)
(*                                                                         *)
(* A value is the bag of the contributions added up in it: <<r, t>> is     *)
(* what thread t brings to reduction r, whatever number that is.           *)
(***************************************************************************)
EXTENDS Integers, Bags

CONSTANTS
  Launches        \* kernel launches: the fields of Launch

(* threads of the block; fused_attention or layer_norm_impl; reductions of  *)
(* a tile (key rows, of layer_norm 2); tiles (of layer_norm 1).             *)
Launch == [threads : Nat \ {0}, attention : BOOLEAN, rows : Nat \ {0}, tiles : Nat \ {0}]

(* Every divisor but 1 is even.  A block of layer_norm has 256 threads.     *)
PowerOfTwo(n) == \A d \in 2 .. n : n % d = 0 => d % 2 = 0

ASSUME BlockAssumption ==
  /\ Launches \subseteq Launch
  /\ \A l \in Launches : ~ l.attention =>
       l.rows = 2 /\ l.tiles = 1 /\ PowerOfTwo(l.threads)

VARIABLES
  launch,  \* the launch that runs
  red,     \* the shared array
  op,      \* thread -> "load", "write", "add", "read", "sync" or "done"
  then,    \* thread -> what it does after the barrier
  row,     \* thread -> the reduction it is at
  stride,  \* thread -> stride of its next step in the tree
  score    \* thread -> reduction -> what it read from element 0

vars == <<launch, red, op, then, row, stride, score>>

N          == launch.threads
Attention  == launch.attention
Rows       == launch.rows
Tiles      == launch.tiles
Threads    == 0 .. N - 1
Reductions == 1 .. Rows * Tiles
-----------------------------------------------------------------------------
(* What the threads S bring to reduction r, added up.                       *)
Terms(r, S) == SetToBag({r} \X S)
Sum(r)      == Terms(r, Threads)

(* The tree: attention doubles the stride from 1, layer_norm halves it from *)
(* half of the block.                                                       *)
FirstStride == IF Attention THEN 1 ELSE N \div 2
NextStride(s) == IF Attention THEN 2 * s ELSE s \div 2

StrideOk(s) == IF Attention THEN s < N ELSE s > 0

EveryStride(t, s) ==                                         \* mutant of Adds
  IF Attention THEN t % s = 0 /\ t + s < N ELSE t < N - s
Adds(t, s) ==
  IF Attention THEN t % (2 * s) = 0 /\ t + s < N ELSE t < s

Arrive(t, next) ==
  /\ op' = [op EXCEPT ![t] = "sync"]
  /\ then' = [then EXCEPT ![t] = next]

-----------------------------------------------------------------------------
Init ==
  /\ launch \in Launches
  /\ red = [t \in Threads |-> EmptyBag]
  /\ op = [t \in Threads |-> IF Attention THEN "load" ELSE "write"]
  /\ then = [t \in Threads |-> "write"]
  /\ row = [t \in Threads |-> 1]
  /\ stride = [t \in Threads |-> FirstStride]
  /\ score = [t \in Threads |-> [r \in Reductions |-> EmptyBag]]

(* A thread fills its column of the K and V tiles, which only it reads.     *)
Load(t) ==
  /\ op[t] = "load"
  /\ Arrive(t, "write")
  /\ UNCHANGED <<launch, red, row, stride, score>>

(* red[t] = val; __syncthreads().                                           *)
Write(t) ==
  /\ op[t] = "write"
  /\ red' = [red EXCEPT ![t] = Terms(row[t], {t})]
  /\ stride' = [stride EXCEPT ![t] = FirstStride]
  /\ Arrive(t, IF StrideOk(FirstStride) THEN "add" ELSE "read")
  /\ UNCHANGED <<launch, row, score>>

(* if (..) red[t] += red[t + stride]; __syncthreads().                      *)
AddOrLeave(t) ==                                             \* mutant of Add
  /\ op[t] = "add"
  /\ IF Adds(t, stride[t])
     THEN /\ red' = [red EXCEPT ![t] = @ (+) red[t + stride[t]]]
          /\ Arrive(t, IF StrideOk(NextStride(stride[t])) THEN "add" ELSE "read")
     ELSE /\ op' = [op EXCEPT ![t] = "read"]
          /\ UNCHANGED <<launch, red, then>>
  /\ stride' = [stride EXCEPT ![t] = NextStride(@)]
  /\ UNCHANGED <<launch, row, score>>

Add(t) ==
  /\ op[t] = "add"
  /\ red' = [red EXCEPT ![t] =
               IF Adds(t, stride[t]) THEN @ (+) red[t + stride[t]] ELSE @]
  /\ stride' = [stride EXCEPT ![t] = NextStride(@)]
  /\ Arrive(t, IF StrideOk(NextStride(stride[t])) THEN "add" ELSE "read")
  /\ UNCHANGED <<launch, row, score>>

(* __syncthreads: all threads have arrived.                                 *)
Barrier ==
  /\ \A t \in Threads : op[t] = "sync"
  /\ op' = then
  /\ UNCHANGED <<launch, red, then, row, stride, score>>

(* return red[0]: on to the next row of the tile, with no barrier, or to    *)
(* the barrier that ends a tile of attention.                               *)
OneRowMore(r) == r > 1 /\ (r - 1) % Rows = 0                 \* mutant of LastOfTile
LastOfTile(r) == r % Rows = 0

Read(t) ==
  /\ op[t] = "read"
  /\ score' = [score EXCEPT ![t][row[t]] = red[0]]
  /\ row' = [row EXCEPT ![t] = @ + 1]
  /\ \/ /\ ~ LastOfTile(row[t])
        /\ op' = [op EXCEPT ![t] = "write"]
        /\ UNCHANGED then
     \/ /\ LastOfTile(row[t]) /\ Attention
        /\ Arrive(t, IF row[t] = Rows * Tiles THEN "done" ELSE "load")
     \/ /\ LastOfTile(row[t]) /\ ~ Attention
        /\ op' = [op EXCEPT ![t] = "done"]
        /\ UNCHANGED then
  /\ UNCHANGED <<launch, red, stride>>

ThreadStep(t) == Load(t) \/ Write(t) \/ Add(t) \/ Read(t)

Next == Barrier \/ \E t \in Threads : ThreadStep(t)

Spec == Init /\ [][Next]_vars

Lanes == UNION {0 .. l.threads - 1 : l \in Launches}
Lane(t) == t \in Threads /\ ThreadStep(t)

(* The scheduler of the multiprocessor runs every thread of the block.      *)
FairSpec == Spec /\ WF_vars(Barrier) /\ \A t \in Lanes : WF_vars(Lane(t))
-----------------------------------------------------------------------------
IsValue(v) == IsABag(v) /\ BagToSet(v) \subseteq Reductions \X Threads

TypeOK ==
  /\ launch \in Launches
  /\ red = [t \in Threads |-> red[t]] /\ \A t \in Threads : IsValue(red[t])
  /\ op \in [Threads -> {"load", "write", "add", "read", "sync", "done"}]
  /\ then \in [Threads -> {"load", "write", "add", "read", "done"}]
  /\ row \in [Threads -> 1 .. Rows * Tiles + 1]
  /\ stride \in [Threads -> 0 .. 2 * N]
  /\ score = [t \in Threads |-> [r \in Reductions |-> score[t][r]]]
  /\ \A t \in Threads, r \in Reductions : IsValue(score[t][r])

HasRead(t, r) == row[t] > r

(* The tree adds up every thread once, for blocks that are no power of two  *)
(* as well; and when a thread does not read the sum, it reads what thread 0 *)
(* brought to the next reduction of the same tile, and nothing else.        *)
SumOrNextPartial ==
  \A t \in Threads, r \in Reductions : HasRead(t, r) =>
    \/ score[t][r] = Sum(r)
    \/ t # 0 /\ ~ LastOfTile(r) /\ score[t][r] = Terms(r + 1, {0})

(* No thread waits at a barrier that another one never reaches.             *)
BlockFinishes == <>(\A t \in Threads : op[t] = "done")

(* kernel_ref.rs:195: "Softmax attention matching `fused_attention` in      *)
(* `attention.cu`", and :67: "Row-wise layer norm matching `activations.cu`"*)
(* -- every thread of the block works with the sum of the row.              *)
MatchesReference ==
  \A t \in Threads, r \in Reductions : HasRead(t, r) => score[t][r] = Sum(r)
=============================================================================
