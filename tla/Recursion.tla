------------------------------ MODULE Recursion ------------------------------
(***************************************************************************)
(* TrmModel::forward_trace (src/recursion.rs) with the fixed-point solver  *)
(* of DEQ mode (src/deq.rs), and the backward pass process_batch makes of  *)
(* its trace (src/train/trainer.rs, src/train/loss.rs).                    *)
(*                                                                         *)
(* A tensor is abstracted to the autograd graph behind it: "live" is the   *)
(* set of supervision steps, counted from 1, whose network passes a        *)
(* gradient reaches from it; 0 stands for init_answer_and_latent.  The     *)
(* question embedding enters every pass undetached and is left out.        *)
(***************************************************************************)
EXTENDS AttnMask, Sequences, SequencesExt

CONSTANTS
  Configs,           \* records with the fields of TrmConfig, DeqConfig and
                     \* TrainConfig used here (history: anderson_history)
  Batch,             \* examples in a batch
  XSeq,              \* max_seq: x_seq, and y_seq in all callers
  ZSeq,              \* z_seq
  GradientSup,       \* n_gradient_sup
  MaxIter,           \* DeqConfig::max_iter
  NeumannIters       \* DeqConfig::neumann_iters

ASSUME RecursionAssumption ==
  /\ \A c \in Configs : /\ c.n_sup \in Nat /\ c.n_l \in Nat /\ c.history \in Nat
                         /\ {c.deq, c.adaptive, c.head, c.detach} \subseteq BOOLEAN
                         /\ {c.collect, c.last_only, c.ift} \subseteq BOOLEAN
  /\ Batch \in Nat \ {0} /\ XSeq \in Nat \ {0} /\ ZSeq \in Nat
  /\ GradientSup \in Nat /\ MaxIter \in Nat
  /\ NeumannIters \in Nat

VARIABLES
  cfg,           \* the configuration of the model and its trainer
  call,          \* "train" (process_batch), "evaluate", or "infer"
                 \* (server and eval, without a mask)
  lens,          \* lengths of the examples, from 0
  mask,          \* attn_mask, expanded
  pc,            \* where the call is
  sup,           \* loop variable of the supervision steps, from 0
  y, z, prev_y,  \* the state: graph, and for y the H-cycles behind it
  terms,         \* y_intermediates (and logits_intermediates)
  halts,         \* halt_probs: examples above the threshold, and graph
  steps_used, grad_enabled_steps,
  iter, state,   \* solve_fixed_point: iteration and iterate
  hist,          \* AndersonState: the iterates in its three deques
  u,             \* neumann_solve: coefficients of v, J v, J^2 v, ...
  trained        \* steps whose network passes the gradient has reached

loop  == <<sup, y, z, prev_y, terms, halts, steps_used, grad_enabled_steps>>
solver == <<iter, state, hist>>
vars  == <<cfg, call, lens, mask, pc, loop, solver, u, trained>>

Examples == 0 .. Batch - 1
Total    == XSeq + XSeq + ZSeq
-----------------------------------------------------------------------------
(* A batch whose longest example fills it.                                  *)
Lengths == {l \in [Examples -> 1 .. XSeq] : \E b \in Examples : l[b] = XSeq}

(* The locals at the start of forward_trace and of solve_fixed_point.        *)
Y0 == [age |-> 0, live |-> {0}]
Z0 == [live |-> {0}]
S0 == [kind |-> "start", uses |-> {}]
H0 == [z |-> <<>>, f |-> <<>>, r |-> <<>>]

Start(c, what, l) ==
  /\ call' = what /\ lens' = l
  /\ mask' = IF what = "infer" THEN {}
             ELSE Expand(PadMask(l, XSeq), XSeq, Batch, XSeq, XSeq, ZSeq)
  /\ pc' = IF c.deq THEN "solve" ELSE "loop"
  /\ sup' = 0 /\ y' = Y0 /\ z' = Z0 /\ prev_y' = Y0
  /\ terms' = <<>> /\ halts' = <<>>
  /\ steps_used' = 0 /\ grad_enabled_steps' = 0
  /\ iter' = 0 /\ state' = S0 /\ hist' = H0
  /\ u' = <<1>> /\ trained' = {}

(* A process has one configuration and calls the model again and again.     *)
Init ==
  /\ cfg \in Configs
  /\ call = "infer" /\ lens = [b \in Examples |-> XSeq] /\ mask = {}
  /\ pc = "done"
  /\ sup = 0 /\ y = Y0 /\ z = Z0 /\ prev_y = Y0
  /\ terms = <<>> /\ halts = <<>> /\ steps_used = 0 /\ grad_enabled_steps = 0
  /\ iter = 0 /\ state = S0 /\ hist = H0
  /\ u = <<1>> /\ trained = {}

Begin ==
  /\ pc = "done"
  /\ \/ \E l \in Lengths, what \in {"train", "evaluate"} : Start(cfg, what, l)
     \/ Start(cfg, "infer", [b \in Examples |-> XSeq])
  /\ UNCHANGED cfg
-----------------------------------------------------------------------------
(* h_cycle_step in supervision step s: n_l passes that renew z, one for y.  *)
CycleZ(s) == [live |-> z.live \cup IF cfg.n_l > 0 THEN y.live \cup {s} ELSE {}]
CycleY(s) == [age |-> y.age + 1, live |-> y.live \cup CycleZ(s).live \cup {s}]

Push(seq, c, t) == IF c.collect THEN Append(seq, t) ELSE seq

NoHaltHead(c) == c.adaptive /\ ~ c.head

(* The body of the loop up to the confidences: the learned head reads y,    *)
(* the heuristic compares y with prev_y and leaves no graph.                *)
Supervise ==
  /\ pc = "loop" /\ sup < cfg.n_sup
  /\ grad_enabled_steps' = grad_enabled_steps +
       IF sup + GradientSup >= cfg.n_sup THEN 1 ELSE 0
  /\ y' = CycleY(sup + 1) /\ z' = CycleZ(sup + 1)
  /\ terms' = Push(terms, cfg, y')
  /\ \E sure \in IF cfg.adaptive THEN SUBSET Examples ELSE {{}} :
       halts' = Append(halts,
         [sure |-> sure,
          live |-> IF cfg.adaptive /\ cfg.head THEN y'.live ELSE {},
          ages |-> IF NoHaltHead(cfg) THEN <<prev_y.age, y'.age>> ELSE <<>>])
  /\ pc' = "halt"
  /\ UNCHANGED <<cfg, call, lens, mask, sup, prev_y, steps_used, solver, u, trained>>

AnySure(sure) == sure # {}                       \* mutant of AllSure
AllSure(sure) == sure = Examples

(* The whole batch is confident: leave the loop.                            *)
Halt ==
  /\ pc = "halt" /\ cfg.adaptive /\ AllSure(Last(halts).sure)
  /\ steps_used' = sup + 1
  /\ pc' = "return"
  /\ UNCHANGED <<cfg, call, lens, mask, sup, y, z, prev_y, terms, halts,
                 grad_enabled_steps, solver, u, trained>>

(* Otherwise the state is detached, after all but the last step.            *)
Detached(t) == [t EXCEPT !.live = {}]

LeakLatent(s) == <<Detached(y), z>>              \* mutant of Carried
Carried(s) ==
  IF cfg.detach /\ s < cfg.n_sup - 1 THEN <<Detached(y), Detached(z)>> ELSE <<y, z>>

Continue ==
  /\ pc = "halt" /\ ~ (cfg.adaptive /\ AllSure(Last(halts).sure))
  /\ y' = Carried(sup)[1] /\ z' = Carried(sup)[2] /\ prev_y' = y'
  /\ sup' = sup + 1
  /\ pc' = "loop"
  /\ UNCHANGED <<cfg, call, lens, mask, terms, halts, steps_used,
                 grad_enabled_steps, solver, u, trained>>

EndLoop ==
  /\ pc = "loop" /\ sup = cfg.n_sup
  /\ steps_used' = cfg.n_sup
  /\ pc' = "return"
  /\ UNCHANGED <<cfg, call, lens, mask, sup, y, z, prev_y, terms, halts,
                 grad_enabled_steps, solver, u, trained>>
-----------------------------------------------------------------------------
(* solve_fixed_point on the state y|z.  An iterate is the start, the image  *)
(* f(z) of the one before, or a mixture of the images "uses".               *)
Image(i) == [kind |-> "image", uses |-> {i}]

(* AndersonState::push: pop_front of an empty deque does nothing.           *)
PushHist(d, i) ==
  Append(IF Len(d) >= cfg.history /\ d # <<>> THEN Tail(d) ELSE d, i)

(* AndersonState::accelerate: the plain image with fewer than two residuals *)
(* or when the coefficients are no good, otherwise the damped mixture.      *)
Accelerated(h, i) ==
  {Image(i)} \cup
    IF Len(h.r) < 2 THEN {} ELSE {[kind |-> "mix", uses |-> ToSet(h.f)]}

Converge ==
  /\ pc = "solve" /\ iter < MaxIter
  /\ state' = Image(iter)
  /\ pc' = "fixed"
  /\ UNCHANGED <<cfg, call, lens, mask, loop, iter, hist, u, trained>>

Iterate ==
  /\ pc = "solve" /\ iter < MaxIter
  /\ hist' = [z |-> PushHist(hist.z, iter), f |-> PushHist(hist.f, iter),
              r |-> PushHist(hist.r, iter)]
  /\ state' \in Accelerated(hist', iter)
  /\ iter' = iter + 1
  /\ UNCHANGED <<cfg, call, lens, mask, pc, loop, u, trained>>

UnmappedResult(i) == state                       \* mutant of LastImage
LastImage(i) == Image(i)

GiveUp ==
  /\ pc = "solve" /\ iter = MaxIter
  /\ state' = LastImage(iter)
  /\ pc' = "fixed"
  /\ UNCHANGED <<cfg, call, lens, mask, loop, iter, hist, u, trained>>

(* forward_trace splits the fixed state and reports one step.               *)
DeqReturn ==
  /\ pc = "fixed"
  /\ y' = [age |-> 1, live |-> {0, 1}] /\ z' = [live |-> {0, 1}]
  /\ terms' = Push(terms, cfg, y')
  /\ halts' = <<[sure |-> Examples, live |-> {}, ages |-> <<>>]>>
  /\ steps_used' = 1 /\ grad_enabled_steps' = 1
  /\ pc' = "return"
  /\ UNCHANGED <<cfg, call, lens, mask, sup, prev_y, solver, u, trained>>
-----------------------------------------------------------------------------
Return ==
  /\ pc = "return"
  /\ pc' = IF call # "train" THEN "done"
           ELSE IF cfg.deq THEN "neumann" ELSE "backward"
  /\ UNCHANGED <<cfg, call, lens, mask, loop, solver, u, trained>>

(* deep_supervision_loss weighs all terms, or with LastOnly the last one;   *)
(* halting_ponder_loss adds every confidence.                               *)
FirstOnly(n) == IF cfg.last_only THEN {1} \cap 1 .. n ELSE 1 .. n  \* mutant
Weighted(n) == IF cfg.last_only THEN {n} \ {0} ELSE 1 .. n

Backward ==
  /\ pc = "backward"
  /\ trained' = UNION ({terms[i].live : i \in Weighted(Len(terms))}
                       \cup {halts[i].live : i \in DOMAIN halts})
  /\ pc' = "done"
  /\ UNCHANGED <<cfg, call, lens, mask, loop, solver, u>>

(* deq_backward: neumann_solve repeats u := v + J^T u from u = v, until two *)
(* successive values are close; without use_ift u stays v.  The gradient    *)
(* then goes through one application of f at the fixed state.               *)
NextU(s) == <<1>> \o s

InclusiveMore(k) == k <= NeumannIters + 1        \* mutant of More
More(k) == k <= NeumannIters

NeumannStep ==
  /\ pc = "neumann" /\ cfg.ift /\ More(Len(u))
  /\ u' = NextU(u)
  /\ \/ UNCHANGED <<pc, trained>>
     \/ pc' = "done" /\ trained' = {1}
  /\ UNCHANGED <<cfg, call, lens, mask, loop, solver>>

NeumannEnd ==
  /\ pc = "neumann" /\ (cfg.ift => ~ More(Len(u)))
  /\ pc' = "done" /\ trained' = {1}
  /\ UNCHANGED <<cfg, call, lens, mask, loop, solver, u>>

Next ==
  \/ Begin
  \/ Supervise \/ Halt \/ Continue \/ EndLoop
  \/ Converge \/ Iterate \/ GiveUp \/ DeqReturn
  \/ Return \/ Backward \/ NeumannStep \/ NeumannEnd

Spec == Init /\ [][Next]_vars
-----------------------------------------------------------------------------
Steps == 0 .. cfg.n_sup + 1

TypeOK ==
  /\ cfg \in Configs /\ call \in {"train", "evaluate", "infer"}
  /\ lens \in [Examples -> 1 .. XSeq]
  /\ mask \subseteq 0 .. Batch * Total * Total - 1
  /\ pc \in {"loop", "halt", "solve", "fixed", "return", "backward", "neumann", "done"}
  /\ sup \in 0 .. cfg.n_sup
  /\ \A t \in {y, prev_y} \cup ToSet(terms) : t.age \in Steps /\ t.live \subseteq Steps
  /\ z.live \subseteq Steps
  /\ \A h \in ToSet(halts) : h.sure \subseteq Examples /\ h.live \subseteq Steps
  /\ steps_used \in Steps /\ grad_enabled_steps \in Steps
  /\ iter \in 0 .. MaxIter /\ state.kind \in {"start", "image", "mix"}
  /\ state.uses \subseteq 0 .. MaxIter
  /\ Len(u) <= NeumannIters + 1 /\ trained \subseteq Steps

(* Every query of a padded batch attends to the tokens its own question   *)
(* has, to the whole answer and the whole latent, and to nothing else: no   *)
(* row of the softmax is empty and no example reads another one's padding.  *)
MaskHidesPadding ==
  call # "infer" => \A b \in Examples, q \in 0 .. Total - 1 :
    Visible(mask, b, q, Total) = (0 .. lens[b] - 1) \cup (XSeq .. Total - 1)

(* The answer that is decoded is the one of the step the trace reports, it  *)
(* has a confidence and, when collected, a loss term for every H-cycle      *)
(* behind it, and an adaptive call ends with the first step after which the *)
(* whole batch is confident.  The heuristic judges neighbouring answers,    *)
(* the first against the initial one, detached or not.                      *)
HaltsAtFirstAgreement ==
  /\ pc \in {"return", "backward", "neumann"} =>
       /\ y.age = steps_used /\ Len(halts) = steps_used
       /\ cfg.collect => Len(terms) = steps_used
       /\ \A i \in DOMAIN terms : terms[i].age = i
       /\ ~ cfg.deq /\ cfg.adaptive =>
            /\ \A i \in 1 .. steps_used - 1 : halts[i].sure # Examples
            /\ steps_used < cfg.n_sup => halts[steps_used].sure = Examples
  /\ \A i \in DOMAIN halts : halts[i].ages # <<>> => halts[i].ages = <<i - 1, i>>

(* With AfterEachStep the gradient of a loss term ends in its own step, the *)
(* first one's in the initial embeddings; with NoDetach it reaches back to  *)
(* the start.  The loss therefore trains the passes of every step, or with  *)
(* LastOnly, a detach and no halting head, of the last step alone.          *)
TruncatedBackprop ==
  ~ cfg.deq =>
    /\ \A i \in DOMAIN terms :
         terms[i].live = IF cfg.detach /\ i > 1 THEN {i} ELSE 0 .. i
    /\ pc = "done" /\ call = "train" =>
         trained \ {0} =
           IF cfg.adaptive /\ cfg.head THEN 1 .. steps_used
           ELSE IF ~ cfg.collect THEN {}
           ELSE IF cfg.last_only /\ cfg.detach THEN {steps_used} \ {0}
           ELSE 1 .. steps_used

(* The three deques hold the same, newest, iterates in order and never more *)
(* than the history; a mixture contains the newest image; and the solver    *)
(* returns an image, never a mixture, so that y and z come from one H-cycle *)
(* whether it has converged or given up.                                    *)
DeqReturnsAnImage ==
  /\ hist.z = hist.f /\ hist.f = hist.r
  /\ LET n == Len(hist.z) IN
       /\ n <= cfg.history \/ n <= 1
       /\ \A i \in 1 .. n : hist.z[i] = iter - n + i - 1
  /\ state.kind = "mix" => iter - 1 \in state.uses
  /\ pc = "fixed" => state = Image(iter)

(* recursion.rs:7: "only last K steps carry gradients"                      *)
OnlyLastStepsCarryGradients ==
  pc = "done" /\ call = "train" /\ ~ cfg.deq =>
    \A s \in trained \ {0} : s > cfg.n_sup - GradientSup
=============================================================================
