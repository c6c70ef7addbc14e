---------------------------- MODULE BlockReduceMC ----------------------------
(***************************************************************************)
(* Small blocks for TLC, some of them of attention no power of two.        *)
(***************************************************************************)
EXTENDS BlockReduce

Attn(n, rows, tiles) ==
  [threads |-> n, attention |-> TRUE, rows |-> rows, tiles |-> tiles]
Norm(n) == [threads |-> n, attention |-> FALSE, rows |-> 2, tiles |-> 1]

MCLaunches == {Attn(3, 2, 2), Attn(2, 3, 1), Attn(5, 1, 1), Attn(4, 2, 1),
               Norm(4), Norm(2), Norm(1)}
=============================================================================
