-------------------------------- MODULE Augment --------------------------------
(***************************************************************************)
(* Augmentations of a grid and the vote over predictions (src/augment.rs). *)
(* A grid is a sequence of rows of cells; cells are colours from 0, or a   *)
(* larger token that is no colour.                                         *)
(***************************************************************************)
EXTENDS Integers, Sequences, FiniteSets

CONSTANTS
  NumColors      \* 10 in the code

ASSUME AugmentAssumption == NumColors \in Nat \ {0}

Colors == 0 .. NumColors - 1

DihedralOp == {"Identity", "Rot90", "Rot180", "Rot270",
               "FlipH", "FlipV", "FlipDiag", "FlipAntiDiag"}

RowsOf(g) == Len(g)
ColsOf(g) == IF g = <<>> THEN 0 ELSE Len(g[1])
-----------------------------------------------------------------------------
(* The cell of a rows x cols grid that an operation moves to (i, j).        *)
Source(op, rows, cols, i, j) ==
  CASE op = "Identity"     -> <<i, j>>
    [] op = "Rot90"        -> <<rows + 1 - j, i>>
    [] op = "Rot180"       -> <<rows + 1 - i, cols + 1 - j>>
    [] op = "Rot270"       -> <<j, cols + 1 - i>>
    [] op = "FlipH"        -> <<i, cols + 1 - j>>
    [] op = "FlipV"        -> <<rows + 1 - i, j>>
    [] op = "FlipDiag"     -> <<j, i>>
    [] op = "FlipAntiDiag" -> <<rows + 1 - j, cols + 1 - i>>

Transposes(op) == op \in {"Rot90", "Rot270", "FlipDiag", "FlipAntiDiag"}

Turn(op, g) ==
  LET rows == RowsOf(g)
      cols == ColsOf(g)
      from(i, j) == Source(op, rows, cols, i, j)
  IN [i \in 1 .. IF Transposes(op) THEN cols ELSE rows |->
       [j \in 1 .. IF Transposes(op) THEN rows ELSE cols |->
         g[from(i, j)[1]][from(i, j)[2]]]]

SelfInverse(op) == op                            \* mutant of InverseOp
InverseOp(op) == IF op = "Rot90" THEN "Rot270" ELSE IF op = "Rot270" THEN "Rot90" ELSE op

(* AugTransform: the translation it also holds is never applied.            *)
Perms == {p \in [Colors -> Colors] : \A a, b \in Colors : a # b => p[a] # p[b]}
AugTransform == [color_perm : Perms, dihedral : DihedralOp]

Apply(t, g) ==
  LET out == Turn(t.dihedral, g)
  IN [i \in DOMAIN out |-> [j \in DOMAIN out[i] |->
        IF out[i][j] \in Colors THEN t.color_perm[out[i][j]] ELSE out[i][j]]]

Undo(t) ==
  [color_perm |-> [v \in Colors |-> CHOOSE i \in Colors : t.color_perm[i] = v],
   dihedral   |-> InverseOp(t.dihedral)]
-----------------------------------------------------------------------------
(* The predictions in the frame of the original, cell by cell the colour    *)
(* that most of them have, the highest of several; the shape is the first's.*)
VoteAt(grids, i, j) ==
  LET count(v) == Cardinality({k \in DOMAIN grids :
                    i <= RowsOf(grids[k]) /\ j <= Len(grids[k][i]) /\ grids[k][i][j] = v})
  IN CHOOSE v \in Colors : \A w \in Colors :
       count(w) < count(v) \/ (count(w) = count(v) /\ w <= v)

majority_vote(preds) ==
  LET deaug == [k \in DOMAIN preds |-> Apply(Undo(preds[k].t), preds[k].grid)]
  IN IF preds = <<>> THEN <<>>
     ELSE [i \in 1 .. RowsOf(deaug[1]) |->
            [j \in 1 .. ColsOf(deaug[1]) |-> VoteAt(deaug, i, j)]]
=============================================================================
