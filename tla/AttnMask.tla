------------------------------- MODULE AttnMask -------------------------------
(***************************************************************************)
(* The attention masks of a padded batch: the one AsyncDataLoader and      *)
(* Trainer::evaluate build over the question tokens (src/train/trainer.rs) *)
(* and what expand_attn_mask makes of it for [x|y|z] (src/recursion.rs).   *)
(* A tensor (B, 1, n, n) is the set of the flat indices, from 0, that hold *)
(* minus infinity; the others hold 0.                                      *)
(***************************************************************************)
EXTENDS Integers

At(b, q, k, n) == (b * n + q) * n + k

(* Every pair with a position at or behind the example's length.            *)
PadMask(lens, n) ==
  {At(t[1], t[2], t[3], n) : t \in
     {p \in (DOMAIN lens) \X (0 .. n - 1) \X (0 .. n - 1) :
        p[2] >= lens[p[1]] \/ p[3] >= lens[p[1]]}}

(* A question token is padding if the diagonal says so.  stride_b is the    *)
(* number of elements of one example.                                       *)
RowDiagonal(b, i, n, batch) == b * n + i * n + i       \* mutant of Diagonal
Diagonal(b, i, n, batch) == b * ((batch * n * n) \div batch) + i * n + i

(* expand_attn_mask: a mask of the full length is taken as it is, a mask of *)
(* the question hides its padding, as a key, from every query.              *)
Expand(m, last, batch, x, y, z) ==
  LET total == x + y + z IN
  IF last = total THEN m
  ELSE {At(t[1], t[2], t[3], total) : t \in
          {p \in (0 .. batch - 1) \X (0 .. total - 1) \X (0 .. x - 1) :
             Diagonal(p[1], p[3], x, batch) \in m}}

(* The keys query q of example b attends to.                                *)
Visible(m, b, q, n) == {k \in 0 .. n - 1 : At(b, q, k, n) \notin m}
=============================================================================
