------------------------------ MODULE Deployment ------------------------------
(***************************************************************************)
(* The deployed system: training and forge replace a bundle (Bundle), a    *)
(* server or eval process loads it or the checkpoint (src/bin/server.rs,   *)
(* src/bin/eval.rs), the server runs passes of the model (Forward), eval   *)
(* scores tasks with it (TaskEval).                                        *)
(*                                                                         *)
(* One process runs at a time.  A pass stands for the network passes of a  *)
(* call of forward_trace or forward_inference, whose number and order is   *)
(* the subject of Recursion.                                               *)
(***************************************************************************)
EXTENDS Bundle, Forward, TaskEval

ASSUME DeploymentAssumption ==
  \A p \in Products :
    /\ Len(p.tests) \in Nat /\ DOMAIN p.tests = 1 .. Len(p.tests)
    /\ \A k \in DOMAIN p.tests : IsTest(p.tests[k])

vars == <<product, version, forge, file, proc, model, bank, pass, tests, scoring>>

Serving == proc.pc = "up" /\ proc.args.bin = "server"
Scoring == proc.pc = "up" /\ proc.args.bin = "eval"

Init ==
  /\ InitBundle
  /\ bank = {} /\ pass = NoPass
  /\ tests = product.tests /\ scoring = NotScoring

(* The kernels and the activations go with the process.                     *)
Forging == ForgeStep /\ UNCHANGED <<bank, pass, tests, scoring>>
Loading == LoadStep  /\ UNCHANGED <<bank, pass, tests, scoring>>

(* The sequence of a pass is question, answer and latent.  The rotary cache *)
(* must be long enough; a mixer takes one length only.                      *)
TokensOf == IF Serving THEN 2 * proc.args.seq_len + ZTokens ELSE SeqLen(Current.x)
Accepts(c) == IF c.variant = "transformer" THEN TokensOf <= c.max_seq
                                           ELSE TokensOf = c.max_seq

(* The server measures passes of its own; eval runs one per augmentation.   *)
WantsPass == \/ Serving
             \/ Scoring /\ Running /\ Len(scoring.preds) < NAugmentations /\ pass.at # "done"

Pass ==
  /\ WantsPass /\ Accepts(model.cfg)
  /\ ForwardStep(model)
  /\ UNCHANGED <<bundleVars, tests, scoring>>

StartScoring ==
  /\ Scoring /\ ~ scoring.running
  /\ BeginScoring
  /\ UNCHANGED <<bundleVars, bank, pass, tests>>

Answer ==
  /\ Scoring /\ pass.at = "done"
  /\ Predict(model.cfg.max_seq)
  /\ pass' = NoPass
  /\ UNCHANGED <<bundleVars, bank>>

Decide ==
  /\ Scoring
  /\ \E hit \in BOOLEAN : Vote(hit)
  /\ UNCHANGED <<bundleVars, bank, pass>>

(* A process may end at any time: it is done, was killed, or a sequence is  *)
(* too long for the model, which no other action takes further.             *)
Quit ==
  /\ Exit
  /\ bank' = {} /\ pass' = NoPass /\ scoring' = NotScoring
  /\ UNCHANGED <<product, version, forge, file, tests>>

Next == Forging \/ Loading \/ Pass \/ StartScoring \/ Answer \/ Decide \/ Quit

Spec == Init /\ [][Next]_vars
-----------------------------------------------------------------------------
(* A pass that has ended computed Candle's graph of the model with its      *)
(* packed weights unpacked, whatever kernels the process found, whichever   *)
(* launch failed, and whether or not all of the layers are packed.          *)
ForwardIsReference == pass.at = "done" => pass.x = Reference(model)

(* When an attempt ends a test, the test counts as solved if a strict       *)
(* majority of the answers was right, never if the output has another shape *)
(* than the input, and as missed in the last attempt only.                  *)
TwoTryScore ==
  [][scoring.running /\ scoring'.running /\ scoring'.total # scoring.total =>
       LET solved == scoring'.exact = scoring.exact + 1
       IN /\ 2 * Cardinality(Correct) > NAugmentations => solved
          /\ solved => SameShape(Current.x, Current.gt)
          /\ ~ solved => scoring.attempt = Attempts - 1]_vars
=============================================================================
