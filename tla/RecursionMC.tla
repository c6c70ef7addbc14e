----------------------------- MODULE RecursionMC -----------------------------
(***************************************************************************)
(* A small instance of Recursion for TLC: every combination of the options *)
(* of the unrolled loop, and of those of DEQ mode.                         *)
(***************************************************************************)
EXTENDS Recursion

Config(deq, n_sup, n_l, adaptive, head, detach, collect, last_only, ift, history) ==
  [deq |-> deq, n_sup |-> n_sup, n_l |-> n_l, adaptive |-> adaptive,
   head |-> head, detach |-> detach, collect |-> collect,
   last_only |-> last_only, ift |-> ift, history |-> history]

MCUnrolled ==
  {Config(FALSE, n, l, a, h, d, c, w, TRUE, 5) :
     n \in 0 .. 3, l \in {0, 2}, a, h, d, c, w \in BOOLEAN}

MCDeq == {Config(TRUE, 3, 2, FALSE, TRUE, TRUE, c, FALSE, i, k) :
             c, i \in BOOLEAN, k \in 0 .. 3}

MCConfigs == MCUnrolled \cup MCDeq
=============================================================================
