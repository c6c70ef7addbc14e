------------------------------- MODULE TaskEval -------------------------------
(***************************************************************************)
(* evaluate_arc_tasks (src/task_eval.rs): every test input is augmented,   *)
(* the model answers each augmentation, the answers are mapped back and    *)
(* vote, twice at most.                                                    *)
(***************************************************************************)
EXTENDS Augment

CONSTANTS
  Transforms,      \* the augmentations that the seeds draw
  NAugmentations,  \* n_augmentations
  Attempts,        \* 2 with two_try
  ZTokens          \* z_seq of the model

ASSUME TaskEvalAssumption ==
  /\ Transforms \subseteq AugTransform
  /\ NAugmentations \in Nat \ {0} /\ Attempts \in Nat \ {0} /\ ZTokens \in Nat

SameShape(g, h) == RowsOf(g) = RowsOf(h) /\ ColsOf(g) = ColsOf(h)

(* The grids of a test: rectangular, not empty; the expected one has        *)
(* colours only; the model answers in the shape of the input.               *)
IsGrid(g) == /\ g \in Seq(Seq(Nat)) /\ Len(g) > 0 /\ Len(g[1]) > 0
             /\ \A i \in DOMAIN g : Len(g[i]) = Len(g[1])
IsTest(t) ==
  /\ IsGrid(t.x) /\ IsGrid(t.gt)
  /\ \A i \in DOMAIN t.gt : \A j \in DOMAIN t.gt[i] : t.gt[i][j] \in Colors
  /\ \A a \in t.answers : IsGrid(a) /\ SameShape(a, t.x)

VARIABLES
  tests,    \* the test inputs with their outputs, and the answers that the
            \* model may give, in the frame of the input: [x, gt, answers]
  scoring   \* where the evaluation is: running, test, attempt (from 0),
            \* preds, total, exact

NotScoring == [running |-> FALSE, test |-> 1, attempt |-> 0, preds |-> <<>>,
               total |-> 0, exact |-> 0]

Current == tests[scoring.test]
Running == scoring.running /\ scoring.test <= Len(tests)

BeginScoring == scoring' = [NotScoring EXCEPT !.running = TRUE]

(* A sequence longer than the rotary cache fails the whole evaluation.      *)
SeqLen(g) == 2 * RowsOf(g) * ColsOf(g) + ZTokens
Fits(g, max_seq) == SeqLen(g) <= max_seq

(* One augmentation: the answer has as many tokens as the question, and is  *)
(* read as a grid of its shape.                                             *)
Predict(max_seq) ==
  /\ Running /\ Fits(Current.x, max_seq)
  /\ Len(scoring.preds) < NAugmentations
  /\ \E t \in Transforms, a \in Current.answers :
       scoring' = [scoring EXCEPT
         !.preds = Append(@, [grid |-> Apply(t, a), t |-> t])]
  /\ UNCHANGED tests

Voted == Running /\ Len(scoring.preds) = NAugmentations
Hit   == majority_vote(scoring.preds) = Current.gt

NextTest(hit) ==
  scoring' = [scoring EXCEPT !.test = @ + 1, !.attempt = 0, !.preds = <<>>,
                             !.total = @ + 1, !.exact = IF hit THEN @ + 1 ELSE @]

(* A vote that misses is tried once more with other seeds; the answers of   *)
(* the first attempt are dropped.                                           *)
Vote(hit) ==
  /\ Voted /\ hit = Hit
  /\ IF ~ hit /\ scoring.attempt + 1 < Attempts
       THEN scoring' = [scoring EXCEPT !.attempt = @ + 1, !.preds = <<>>]
       ELSE NextTest(hit)
  /\ UNCHANGED tests
-----------------------------------------------------------------------------
Correct == {k \in DOMAIN scoring.preds :
              scoring.preds[k].grid = Apply(scoring.preds[k].t, Current.gt)}
=============================================================================
