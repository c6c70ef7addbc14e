-------------------------- MODULE DeploymentProofs --------------------------
(***************************************************************************)
(* Theorems about Deployment: what a process has in memory (BundleProofs)  *)
(* and what a pass of it computes, for every set of products.              *)
(***************************************************************************)
EXTENDS Deployment, BundleProofs

-----------------------------------------------------------------------------
(* The first k sublayers of the reference.                                  *)
RefAt(m, i) == RefSublayer(m, (i + 1) \div 2, 2 - (i % 2))
Prefix(m, k) == [i \in 1 .. k |-> RefAt(m, i)]

-----------------------------------------------------------------------------
(* Both decoders of a pack (quantize.rs, kernel_ref.rs) give the same row.  *)
LEMMA DecodersAgree ==
  ASSUME NEW pack
  PROVE  KernelRow(pack) = unpack_ternary(pack)
<1>1. ASSUME NEW i \in Places(pack)
      PROVE  unpack_w(pack, i) = CASE CodeAt(pack, i) = 0 -> -1
                                   [] CodeAt(pack, i) = 1 -> 0
                                   [] CodeAt(pack, i) = 2 -> 1
                                   [] OTHER -> 0
  <2> DEFINE c == CodeAt(pack, i)
  <2> HIDE DEF c
  <2>1. (IF c = 0 THEN -1 ELSE IF c = 2 THEN 1 ELSE 0)
          = CASE c = 0 -> -1 [] c = 1 -> 0 [] c = 2 -> 1 [] OTHER -> 0
    OBVIOUS
  <2> QED
    BY <2>1 DEF unpack_w, c
<1>2. [i \in Places(pack) |-> unpack_w(pack, i)] =
        [i \in Places(pack) |-> CASE CodeAt(pack, i) = 0 -> -1
                                   [] CodeAt(pack, i) = 1 -> 0
                                   [] CodeAt(pack, i) = 2 -> 1
                                   [] OTHER -> 0]
  BY <1>1
<1> QED
  BY <1>2 DEF KernelRow, unpack_ternary

LEMMA RowIsWeight ==
  ASSUME NEW m, NEW n
  PROVE  LinearRow(m, n) = Weight(m, n)
BY DecodersAgree DEF LinearRow, Weight

(* Without grouped K/V heads the two head mappings are the same.            *)
LEMMA MappingsAgree ==
  ASSUME NEW c, Servable(c)
  PROVE  KernelKv(c) = CandleKv(c)
<1>1. kv_heads(c) = c.heads /\ c.heads \in Nat /\ c.heads > 0
  BY DEF Servable, kv_heads, Heads
<1>2. ASSUME NEW n \in Nat, n > 0, NEW h \in 0 .. n - 1
      PROVE  h \div (n \div n) = h % n
  <2>1. n \div n = 1
    BY <1>2
  <2>2. h % n = h
    BY <1>2
  <2>3. h \div 1 = h
    OBVIOUS
  <2> QED
    BY <2>1, <2>2, <2>3
<1> QED
  BY <1>1, <1>2 DEF KernelKv, CandleKv

LEMMA Pairwise ==
  ASSUME NEW f, DOMAIN f = 1 .. 2, f = [i \in 1 .. 2 |-> f[i]]
  PROVE  f = <<f[1], f[2]>>
OBVIOUS

(* One sublayer, on whichever path, is the reference's.                     *)
LEMMA SublayerIsReference ==
  ASSUME NEW m, NEW l, NEW sub \in 1 .. 2, Servable(m.cfg)
  PROVE  Applied(m, l, sub) = RefSublayer(m, l, sub)
<1> DEFINE names == IF sub = 2 THEN <<"up", "down">>
                    ELSE IF m.cfg.variant = "transformer" THEN <<"qo", "kv">>
                                                          ELSE <<"tup", "tdown">>
           w == [i \in 1 .. 2 |-> Weight(m, <<l, names[i]>>)]
<1>1. w = <<Weight(m, <<l, names[1]>>), Weight(m, <<l, names[2]>>)>>
  <2>1. w = <<w[1], w[2]>>
    BY Pairwise
  <2> QED
    BY <2>1
<1>2. CASE sub = 2
  BY <1>1, <1>2, RowIsWeight DEF Applied, RefSublayer, Ffn
<1>3. CASE sub = 1 /\ m.cfg.variant = "transformer"
  BY <1>1, <1>3, RowIsWeight, MappingsAgree DEF Applied, RefSublayer, Attn
<1>4. CASE sub = 1 /\ m.cfg.variant # "transformer"
  BY <1>1, <1>4, RowIsWeight DEF Applied, RefSublayer, TokenFfn
<1> QED
  BY <1>2, <1>3, <1>4

LEMMA HaltingIsReference ==
  ASSUME NEW m, AfterBlocks(m) = "halt"
  PROVE  RefHalt(m) = <<Halting(m)>>
BY RowIsWeight DEF RefHalt, Halting
-----------------------------------------------------------------------------
LEMMA PrefixType ==
  ASSUME NEW m, NEW k \in Nat
  PROVE  \A S : (\A i \in 1 .. k : RefAt(m, i) \in S) => Prefix(m, k) \in Seq(S)
BY DEF Prefix

LEMMA NextPrefix ==
  ASSUME NEW m, NEW k \in Nat
  PROVE  Append(Prefix(m, k), RefAt(m, k + 1)) = Prefix(m, k + 1)
<1> DEFINE S == {RefAt(m, i) : i \in 1 .. k + 1}
           p == Prefix(m, k)
           q == Append(p, RefAt(m, k + 1))
<1>1. p \in Seq(S) /\ RefAt(m, k + 1) \in S
  BY PrefixType
<1>2. Len(p) = k /\ \A i \in 1 .. k : p[i] = RefAt(m, i)
  BY DEF Prefix
<1>3. /\ q \in Seq(S) /\ Len(q) = k + 1
      /\ \A i \in 1 .. k : q[i] = p[i]
      /\ q[k + 1] = RefAt(m, k + 1)
  <2> HIDE DEF p, S
  <2> QED
    BY <1>1, <1>2, AppendProperties
<1>4. \A i \in 1 .. k + 1 : q[i] = RefAt(m, i)
  <2>1. \A i \in 1 .. k + 1 : i \in 1 .. k \/ i = k + 1
    OBVIOUS
  <2> QED
    BY <1>2, <1>3, <2>1
<1>5. q = [i \in 1 .. k + 1 |-> q[i]]
  BY <1>3
<1>6. q = [i \in 1 .. k + 1 |-> RefAt(m, i)]
  <2> HIDE DEF q
  <2> QED
    BY <1>4, <1>5
<1> QED
  BY <1>6 DEF Prefix

LEMMA ReferenceIsPrefix ==
  ASSUME NEW m, m.cfg.layers = 2
  PROVE  Reference(m) = Prefix(m, 4) \o RefHalt(m)
BY DEF Reference, Prefix, RefAt

LEMMA EndOfReference ==
  ASSUME NEW m, m.cfg.layers = 2
  PROVE  /\ AfterBlocks(m) = "done" => Prefix(m, 4) = Reference(m)
         /\ AfterBlocks(m) = "halt" => Append(Prefix(m, 4), Halting(m)) = Reference(m)
<1> DEFINE S == {RefAt(m, i) : i \in 1 .. 4} \cup {Halting(m)}
<1>1. Prefix(m, 4) \in Seq(S) /\ Halting(m) \in S
  BY PrefixType
<1>2. Reference(m) = Prefix(m, 4) \o RefHalt(m)
  BY ReferenceIsPrefix
<1> HIDE DEF S
<1>3. ASSUME AfterBlocks(m) = "done" PROVE Prefix(m, 4) = Reference(m)
  <2>1. RefHalt(m) = << >>
    BY <1>3 DEF RefHalt
  <2> QED
    BY <1>1, <1>2, <2>1, ConcatEmptySeq
<1>4. ASSUME AfterBlocks(m) = "halt"
      PROVE  Append(Prefix(m, 4), Halting(m)) = Reference(m)
  <2>1. RefHalt(m) = <<Halting(m)>>
    BY <1>4, HaltingIsReference
  <2> QED
    BY <1>1, <1>2, <2>1, AppendIsConcat
<1> QED
  BY <1>3, <1>4
-----------------------------------------------------------------------------
(* Where a pass is: the sublayers so far are the first ones of the          *)
(* reference.                                                               *)
PassInv ==
  /\ pass = [at |-> pass.at, layer |-> pass.layer, sub |-> pass.sub, x |-> pass.x]
  /\ proc.pc # "up" => pass = NoPass
  /\ pass.at \in {"idle", "stack", "blocks", "halt", "done"}
  /\ pass.at \in {"stack", "blocks"} =>
       /\ pass.layer \in 1 .. 2 /\ pass.sub \in 1 .. 2
       /\ pass.x = Prefix(model, 2 * pass.layer + pass.sub - 3)
  /\ pass.at = "halt" => AfterBlocks(model) = "halt" /\ pass.x = Prefix(model, 4)
  /\ pass.at = "done" => pass.x = Reference(model)

DeploymentInv == ProcessInv /\ PassInv

-----------------------------------------------------------------------------
LEMMA InitInv == Init => DeploymentInv
<1> SUFFICES ASSUME Init PROVE DeploymentInv
  OBVIOUS
<1>1. ProcessInv
  BY InitProcess DEF Init
<1>2. PassInv
  BY DEF Init, InitBundle, PassInv, Off, NoPass
<1> QED
  BY <1>1, <1>2 DEF DeploymentInv

(* The pass does not depend on anything but the process and its model.      *)
LEMMA PassKept ==
  ASSUME PassInv, UNCHANGED <<pass, model>>, proc'.pc # "up" => proc.pc # "up"
  PROVE  PassInv'
BY DEF PassInv

LEMMA IdlePass ==
  ASSUME pass' = NoPass
  PROVE  PassInv'
BY DEF PassInv, NoPass

LEMMA ForgingKeeps ==
  ASSUME DeploymentInv, Forging
  PROVE  DeploymentInv'
<1>1. ProcessInv' /\ UNCHANGED <<model, pass>> /\ proc'.pc = proc.pc
  BY ForgeKeepsProcess DEF Forging, DeploymentInv
<1>2. PassInv'
  BY <1>1, PassKept DEF DeploymentInv
<1> QED
  BY <1>1, <1>2 DEF DeploymentInv

LEMMA LoadingKeeps ==
  ASSUME DeploymentInv, Loading
  PROVE  DeploymentInv'
<1>1. ProcessInv'
  BY LoadingKeepsProcess DEF DeploymentInv, Loading
<1>2. proc.pc # "up"
  BY DEF Loading, LoadStep, Launch, Probe, LoadCheckpoint, ProbeFails, ReadItem, ReadFails,
         Build, BuildFails, Pack
<1>3. pass' = NoPass
  BY <1>2 DEF DeploymentInv, PassInv, Loading
<1> QED
  BY <1>1, <1>3, IdlePass DEF DeploymentInv
-----------------------------------------------------------------------------
(* One sublayer further along the reference.                                *)
LEMMA AdvanceKeeps ==
  ASSUME PassInv, proc.pc = "up", Servable(model.cfg), pass.at \in {"stack", "blocks"},
         Advance(model, AfterBlocks(model)), UNCHANGED <<proc, model>>
  PROVE  PassInv'
<1> DEFINE k == 2 * pass.layer + pass.sub - 3
           x == Append(pass.x, Applied(model, pass.layer, pass.sub))
<1>1. /\ pass.layer \in 1 .. 2 /\ pass.sub \in 1 .. 2
      /\ pass.x = Prefix(model, k) /\ k \in 0 .. 3
  BY DEF PassInv
<1>2. RefAt(model, k + 1) = RefSublayer(model, pass.layer, pass.sub)
  <2>1. ((k + 1) + 1) \div 2 = pass.layer /\ 2 - ((k + 1) % 2) = pass.sub
    BY <1>1
  <2> QED
    BY <2>1 DEF RefAt
<1>3. x = Prefix(model, k + 1)
  <2>1. Applied(model, pass.layer, pass.sub) = RefAt(model, k + 1)
    BY <1>1, <1>2, SublayerIsReference
  <2>2. pass.x = Prefix(model, k) /\ k \in Nat
    BY <1>1
  <2> HIDE DEF k
  <2> QED
    BY <2>1, <2>2, NextPrefix
<1>4. AfterBlocks(model) \in {"halt", "done"}
  BY DEF AfterBlocks
<1>5. model.cfg.layers = 2
  BY DEF Servable
<1>6. CASE pass.sub = 1
  <2>1. pass' = [pass EXCEPT !.sub = 2, !.x = x]
    BY <1>6 DEF Advance
  <2> HIDE DEF x
  <2>2. /\ pass' = [at |-> pass.at, layer |-> pass.layer, sub |-> 2, x |-> x]
    BY <2>1 DEF PassInv
  <2>3. k + 1 = 2 * pass.layer + 2 - 3
    BY <1>1, <1>6
  <2> HIDE DEF k
  <2> QED
    BY <1>1, <1>3, <2>2, <2>3 DEF PassInv
<1>7. CASE pass.sub = 2 /\ pass.layer = 1
  <2>1. pass' = [pass EXCEPT !.sub = 1, !.layer = @ + 1, !.x = x, !.at = @]
    BY <1>5, <1>7 DEF Advance
  <2> HIDE DEF x
  <2>2. pass' = [at |-> pass.at, layer |-> pass.layer + 1, sub |-> 1, x |-> x]
    BY <2>1 DEF PassInv
  <2>3. k + 1 = 2 * (pass.layer + 1) + 1 - 3 /\ pass.layer + 1 \in 1 .. 2
    BY <1>7
  <2> HIDE DEF k
  <2> QED
    BY <1>3, <2>2, <2>3 DEF PassInv
<1>8. CASE pass.sub = 2 /\ pass.layer = 2
  <2>1. pass' = [pass EXCEPT !.sub = 1, !.layer = @ + 1, !.x = x, !.at = AfterBlocks(model)]
    BY <1>5, <1>8 DEF Advance
  <2> HIDE DEF x
  <2>2. pass' = [at |-> AfterBlocks(model), layer |-> pass.layer + 1, sub |-> 1, x |-> x]
    BY <2>1 DEF PassInv
  <2>3. k + 1 = 4
    BY <1>8
  <2> HIDE DEF k
  <2>4. AfterBlocks(model)' = AfterBlocks(model)
    BY DEF AfterBlocks
  <2> QED
    BY <1>3, <1>4, <1>5, <2>2, <2>3, <2>4, EndOfReference DEF PassInv
<1> QED
  BY <1>1, <1>6, <1>7, <1>8

(* A pass begins with nothing, also after the device has given up.          *)
LEMMA FreshPass ==
  ASSUME proc.pc = "up", UNCHANGED proc, NEW at \in {"stack", "blocks"},
         pass' = [NoPass EXCEPT !.at = at]
  PROVE  PassInv'
<1>1. Prefix(model', 0) = << >>
  BY DEF Prefix
<1>2. pass' = [at |-> at, layer |-> 1, sub |-> 1, x |-> << >>]
  BY DEF NoPass
<1>3. pass'.at = at /\ pass'.layer = 1 /\ pass'.sub = 1 /\ pass'.x = << >>
  BY <1>2
<1>4. pass'.x = Prefix(model', 2 * pass'.layer + pass'.sub - 3)
  <2>1. 2 * pass'.layer + pass'.sub - 3 = 0
    BY <1>3
  <2> QED
    BY <1>1, <1>3, <2>1
<1>5. pass' = [at |-> pass'.at, layer |-> pass'.layer, sub |-> pass'.sub, x |-> pass'.x]
  BY <1>2, <1>3, Zenon
<1> QED
  BY <1>3, <1>4, <1>5 DEF PassInv

LEMMA PassKeeps ==
  ASSUME DeploymentInv, Pass
  PROVE  DeploymentInv'
<1>1. /\ proc.pc = "up" /\ UNCHANGED <<product, proc, model>>
      /\ ForwardStep(model)
  BY DEF Pass, WantsPass, Serving, Scoring, bundleVars
<1>2. ProcessInv' /\ PassInv /\ Servable(model.cfg)
  BY <1>1 DEF DeploymentInv, ProcessInv, HasModel, FromBundle
<1>3. CASE Begin(model)
  <2>1. \/ pass' = [NoPass EXCEPT !.at = "stack"]
        \/ pass' = [NoPass EXCEPT !.at = "blocks"]
    BY <1>3 DEF Begin
  <2> QED
    BY <1>1, <1>2, <2>1, FreshPass DEF DeploymentInv
<1>4. CASE StackSublayer(model)
  BY <1>1, <1>2, <1>4, AdvanceKeeps DEF StackSublayer, DeploymentInv
<1>5. CASE StackFails(model)
  BY <1>1, <1>2, <1>5, FreshPass DEF StackFails, DeploymentInv
<1>6. CASE BlockSublayer(model)
  BY <1>1, <1>2, <1>6, AdvanceKeeps DEF BlockSublayer, DeploymentInv
<1>7. CASE HaltHead(model)
  <2> DEFINE x == Append(pass.x, Halting(model))
  <2>1. pass' = [pass EXCEPT !.at = "done", !.x = x]
    BY <1>7 DEF HaltHead
  <2>2. x = Reference(model)
    BY <1>2, <1>7, EndOfReference DEF HaltHead, PassInv, Servable
  <2> HIDE DEF x
  <2>3. pass' = [at |-> "done", layer |-> pass.layer, sub |-> pass.sub, x |-> x]
    BY <1>2, <2>1 DEF PassInv
  <2> QED
    BY <1>1, <1>2, <2>2, <2>3 DEF PassInv, DeploymentInv
<1> QED
  BY <1>1, <1>3, <1>4, <1>5, <1>6, <1>7 DEF ForwardStep
-----------------------------------------------------------------------------
LEMMA StepInv == DeploymentInv /\ [Next]_vars => DeploymentInv'
<1> SUFFICES ASSUME DeploymentInv, [Next]_vars PROVE DeploymentInv'
  OBVIOUS
<1>1. ASSUME UNCHANGED <<product, proc, model>>, pass' = NoPass \/ pass' = pass
      PROVE  DeploymentInv'
  <2>1. ProcessInv'
    BY <1>1 DEF DeploymentInv, ProcessInv, HasModel, FromBundle
  <2>2. PassInv'
    BY <1>1, IdlePass, PassKept DEF DeploymentInv
  <2> QED
    BY <2>1, <2>2 DEF DeploymentInv
<1>2. CASE Forging
  BY <1>2, ForgingKeeps
<1>3. CASE Loading
  BY <1>3, LoadingKeeps
<1>4. CASE Pass
  BY <1>4, PassKeeps
<1>5. CASE StartScoring
  BY <1>1, <1>5 DEF StartScoring, bundleVars
<1>6. CASE Answer
  BY <1>1, <1>6 DEF Answer, bundleVars
<1>7. CASE Decide
  BY <1>1, <1>7 DEF Decide, bundleVars
<1>8. CASE Quit
  <2>1. ProcessInv'
    BY <1>8, OffKeeps DEF Quit, Exit, DeploymentInv
  <2>2. PassInv'
    BY <1>8, IdlePass DEF Quit
  <2> QED
    BY <2>1, <2>2 DEF DeploymentInv
<1>9. CASE UNCHANGED vars
  BY <1>1, <1>9 DEF vars
<1> QED
  BY <1>2, <1>3, <1>4, <1>5, <1>6, <1>7, <1>8, <1>9 DEF Next

(* A pass that has ended computed the reference of the model in memory,     *)
(* for every set of products, commands, rows, kernels and failing launches: *)
(* packed, partly packed or not, on the device, on the CPU or after falling *)
(* back from one to the other (SharedNetwork::forward).                     *)
THEOREM PassesAreReference == Spec => []ForwardIsReference
<1>1. Init => DeploymentInv
  BY InitInv
<1>2. DeploymentInv /\ [Next]_vars => DeploymentInv'
  BY StepInv
<1>3. DeploymentInv => ForwardIsReference
  BY DEF DeploymentInv, PassInv, ForwardIsReference
<1> QED
  BY <1>1, <1>2, <1>3, PTL DEF Spec

(* Whatever configuration was forged, a bundle that loads is the same       *)
(* model: tensors, shapes, heads, sequence length and cycles; every other   *)
(* one is refused (load_trmq10, apply_named).                               *)
THEOREM LoadsKeepTheModel == Spec => []LoadKeepsModel
<1>1. DeploymentInv => LoadKeepsModel
  BY ProcessKeepsModel DEF DeploymentInv
<1> QED
  BY <1>1, InitInv, StepInv, PTL DEF Spec
-----------------------------------------------------------------------------
(* No other action touches the checkpoint, the bundle or the model.         *)
LEMMA BundleStepInv == BundleInv /\ [Next]_vars => BundleInv'
<1> SUFFICES ASSUME BundleInv, [Next]_vars PROVE BundleInv'
  OBVIOUS
<1>1. CASE Forging
  BY <1>1, ForgeKeepsBundle DEF Forging
<1>2. CASE Loading
  BY <1>2, LoadKeepsBundle DEF Loading
<1>3. CASE Pass \/ StartScoring \/ Answer \/ Decide \/ UNCHANGED vars
  <2>1. UNCHANGED bundleVars
    BY <1>3 DEF Pass, StartScoring, Answer, Decide, bundleVars, vars
  <2> QED
    BY <2>1, BundleKept
<1>4. CASE Quit
  BY <1>4, OffKeepsBundle DEF Quit, Exit
<1> QED
  BY <1>1, <1>2, <1>3, <1>4 DEF Next

LEMMA InitBundleKnown == Init => BundleInv
BY InitBundleInv DEF Init

(* The file is at every time the beginning of one save, what was read has   *)
(* its items in their places, a model in memory has exactly the tensors of  *)
(* its configuration, and the bytes of its packs are bytes.                 *)
THEOREM BundleType == Spec => []TypeOK
BY InitBundleKnown, BundleStepInv, InvTypeOK, PTL DEF Spec

(* However training, forge and a loading process interleave, and wherever   *)
(* forge is killed, a bundle that was not truncated while it was read loads *)
(* as one whole save, every tensor of it (save_trmq10, load_trmq10).        *)
THEOREM BundlesAreOneSave == Spec => []LoadedIsOneSave
BY InitBundleKnown, BundleStepInv, InvLoadedIsOneSave, PTL DEF Spec

(* Every packed linear multiplies with the trained weights of a version,    *)
(* quantized once, also when they went through a bundle and were packed     *)
(* again; they are the ones of ternary_ste unless that clamps the scale.    *)
THEOREM LinearsServeTrainedWeights == Spec => []ServesTernaryWeights
BY InitBundleKnown, BundleStepInv, InvServesTernaryWeights, PTL DEF Spec
-----------------------------------------------------------------------------
(* Augment: an augmentation is undone by its inverse, on every grid.        *)
IsShaped(g, rows, cols) == g = [i \in 1 .. rows |-> [j \in 1 .. cols |-> g[i][j]]]

LEMMA ShapeIs ==
  ASSUME NEW rows \in Nat \ {0}, NEW cols \in Nat \ {0}, NEW g, IsShaped(g, rows, cols)
  PROVE  /\ RowsOf(g) = rows /\ ColsOf(g) = cols /\ DOMAIN g = 1 .. rows
         /\ \A i \in 1 .. rows : DOMAIN g[i] = 1 .. cols /\ Len(g[i]) = cols
<1>1. ASSUME NEW n \in Nat, NEW s, DOMAIN s = 1 .. n, s = [i \in 1 .. n |-> s[i]]
      PROVE  Len(s) = n
  BY <1>1
<1>2. DOMAIN g = 1 .. rows /\ \A i \in 1 .. rows : g[i] = [j \in 1 .. cols |-> g[i][j]]
  BY DEF IsShaped
<1>3. g = [i \in 1 .. rows |-> g[i]]
  BY DEF IsShaped
<1>4. Len(g) = rows
  BY <1>1, <1>2, <1>3
<1>5. ASSUME NEW i \in 1 .. rows PROVE DOMAIN g[i] = 1 .. cols /\ Len(g[i]) = cols
  <2>1. g[i] = [j \in 1 .. cols |-> g[i][j]]
    BY <1>2
  <2>2. DOMAIN g[i] = 1 .. cols
    BY <2>1
  <2> QED
    BY <1>1, <2>1, <2>2
<1>6. g # << >> /\ 1 \in 1 .. rows
  BY <1>2
<1> QED
  BY <1>2, <1>4, <1>5, <1>6 DEF RowsOf, ColsOf

LEMMA GridIsShaped ==
  ASSUME NEW g, IsGrid(g)
  PROVE  /\ RowsOf(g) \in Nat \ {0} /\ ColsOf(g) \in Nat \ {0}
         /\ IsShaped(g, RowsOf(g), ColsOf(g))
<1>1. /\ g \in Seq(Seq(Nat)) /\ Len(g) > 0 /\ Len(g[1]) > 0
      /\ \A i \in DOMAIN g : Len(g[i]) = Len(g[1])
  BY DEF IsGrid
<1>2. Len(g) \in Nat /\ DOMAIN g = 1 .. Len(g) /\ \A i \in 1 .. Len(g) : g[i] \in Seq(Nat)
  BY <1>1
<1>3. \A s \in Seq(Nat) : Len(s) \in Nat /\ s = [j \in 1 .. Len(s) |-> s[j]]
  OBVIOUS
<1>4. g # << >> /\ g[1] \in Seq(Nat)
  BY <1>1, <1>2
<1>5. RowsOf(g) = Len(g) /\ ColsOf(g) = Len(g[1])
  BY <1>4 DEF RowsOf, ColsOf
<1>6. \A i \in 1 .. Len(g) : g[i] = [j \in 1 .. Len(g[1]) |-> g[i][j]]
  BY <1>1, <1>2, <1>3
<1>7. g = [i \in 1 .. Len(g) |-> g[i]]
  BY <1>1, <1>2
<1>8. IsShaped(g, RowsOf(g), ColsOf(g))
  BY <1>5, <1>6, <1>7 DEF IsShaped
<1> QED
  BY <1>1, <1>2, <1>3, <1>4, <1>5, <1>8

(* The shape that an operation makes of rows x cols.                        *)
OutRows(op, rows, cols) == IF Transposes(op) THEN cols ELSE rows
OutCols(op, rows, cols) == IF Transposes(op) THEN rows ELSE cols

LEMMA SourceBack ==
  ASSUME NEW op \in DihedralOp, NEW rows \in Nat \ {0}, NEW cols \in Nat \ {0},
         NEW i \in 1 .. rows, NEW j \in 1 .. cols
  PROVE  LET r == OutRows(op, rows, cols)
             c == OutCols(op, rows, cols)
             s == Source(InverseOp(op), r, c, i, j)
         IN /\ s[1] \in 1 .. r /\ s[2] \in 1 .. c
            /\ Source(op, rows, cols, s[1], s[2]) = <<i, j>>
<1> USE DEF OutRows, OutCols, Transposes, InverseOp, Source
<1>1. CASE op = "Identity"
  BY <1>1
<1>2. CASE op = "Rot90"
  BY <1>2
<1>3. CASE op = "Rot180"
  BY <1>3
<1>4. CASE op = "Rot270"
  BY <1>4
<1>5. CASE op = "FlipH"
  BY <1>5
<1>6. CASE op = "FlipV"
  BY <1>6
<1>7. CASE op = "FlipDiag"
  BY <1>7
<1>8. CASE op = "FlipAntiDiag"
  BY <1>8
<1> QED
  BY <1>1, <1>2, <1>3, <1>4, <1>5, <1>6, <1>7, <1>8 DEF DihedralOp

LEMMA InverseShape ==
  ASSUME NEW op \in DihedralOp
  PROVE  InverseOp(op) \in DihedralOp /\ (Transposes(InverseOp(op)) <=> Transposes(op))
BY DEF DihedralOp, InverseOp, Transposes

(* A cell under the permutation of the colours.                             *)
Painted(t, v) == IF v \in Colors THEN t.color_perm[v] ELSE v

LEMMA ApplyIs ==
  ASSUME NEW t, t.dihedral \in DihedralOp, NEW rows \in Nat \ {0}, NEW cols \in Nat \ {0},
         NEW g, IsShaped(g, rows, cols)
  PROVE  LET r == OutRows(t.dihedral, rows, cols)
             c == OutCols(t.dihedral, rows, cols)
             from(i, j) == Source(t.dihedral, rows, cols, i, j)
         IN Apply(t, g) = [i \in 1 .. r |-> [j \in 1 .. c |->
                             Painted(t, g[from(i, j)[1]][from(i, j)[2]])]]
<1> DEFINE op == t.dihedral
           r == OutRows(op, rows, cols)
           c == OutCols(op, rows, cols)
           cell(i, j) == g[Source(op, rows, cols, i, j)[1]][Source(op, rows, cols, i, j)[2]]
           out == Turn(op, g)
<1>1. RowsOf(g) = rows /\ ColsOf(g) = cols
  BY ShapeIs
<1>2. out = [i \in 1 .. r |-> [j \in 1 .. c |-> cell(i, j)]]
  BY <1>1 DEF Turn, OutRows, OutCols
<1> HIDE DEF out, r, c, cell
<1>3. DOMAIN out = 1 .. r /\ \A i \in 1 .. r : DOMAIN out[i] = 1 .. c
                            /\ \A j \in 1 .. c : out[i][j] = cell(i, j)
  BY <1>2
<1>4. Apply(t, g) = [i \in DOMAIN out |-> [j \in DOMAIN out[i] |-> Painted(t, out[i][j])]]
  BY DEF Apply, Painted, out
<1>5. Apply(t, g) = [i \in 1 .. r |-> [j \in 1 .. c |-> Painted(t, cell(i, j))]]
  <2>1. \A i \in 1 .. r : [j \in DOMAIN out[i] |-> Painted(t, out[i][j])]
                            = [j \in 1 .. c |-> Painted(t, cell(i, j))]
    BY <1>3
  <2> QED
    BY <1>3, <1>4, <2>1
<1> QED
  BY <1>5 DEF r, c, cell

LEMMA PaintedBack ==
  ASSUME NEW t \in AugTransform, NEW v
  PROVE  Painted(Undo(t), Painted(t, v)) = v
<1>1. t.color_perm \in [Colors -> Colors]
      /\ \A a, b \in Colors : a # b => t.color_perm[a] # t.color_perm[b]
  BY DEF AugTransform, Perms
<1>2. CASE v \in Colors
  <2> DEFINE p == t.color_perm
  <2>1. p[v] \in Colors /\ \A i \in Colors : p[i] = p[v] => i = v
    BY <1>1, <1>2
  <2>2. Undo(t).color_perm[p[v]] = CHOOSE i \in Colors : p[i] = p[v]
    BY <2>1 DEF Undo
  <2>3. (CHOOSE i \in Colors : p[i] = p[v]) = v
    BY <1>2, <2>1
  <2> HIDE DEF p
  <2>4. Painted(t, v) = p[v]
    BY <1>2 DEF Painted, p
  <2> QED
    BY <2>1, <2>2, <2>3, <2>4 DEF Painted
<1>3. CASE v \notin Colors
  BY <1>3 DEF Painted
<1> QED
  BY <1>2, <1>3

LEMMA UndoesApply ==
  ASSUME NEW t \in AugTransform, NEW rows \in Nat \ {0}, NEW cols \in Nat \ {0},
         NEW g, IsShaped(g, rows, cols)
  PROVE  Apply(Undo(t), Apply(t, g)) = g
<1> DEFINE op == t.dihedral
           r == OutRows(op, rows, cols)
           c == OutCols(op, rows, cols)
           from(i, j) == Source(op, rows, cols, i, j)
           h == Apply(t, g)
           back(i, j) == Source(InverseOp(op), r, c, i, j)
           u == Undo(t)
<1>1. op \in DihedralOp /\ u.dihedral = InverseOp(op)
  BY DEF AugTransform, Undo
<1>2. u.dihedral \in DihedralOp /\ (Transposes(u.dihedral) <=> Transposes(op))
  BY <1>1, InverseShape
<1>3. h = [i \in 1 .. r |-> [j \in 1 .. c |-> Painted(t, g[from(i, j)[1]][from(i, j)[2]])]]
  BY <1>1, ApplyIs
<1>4. r \in Nat \ {0} /\ c \in Nat \ {0}
  BY DEF OutRows, OutCols
<1>5. OutRows(u.dihedral, r, c) = rows /\ OutCols(u.dihedral, r, c) = cols
  BY <1>2 DEF OutRows, OutCols
<1>6. ASSUME NEW i \in 1 .. rows, NEW j \in 1 .. cols
      PROVE  /\ back(i, j)[1] \in 1 .. r /\ back(i, j)[2] \in 1 .. c
             /\ from(back(i, j)[1], back(i, j)[2]) = <<i, j>>
  BY <1>1, SourceBack
<1> HIDE DEF h, u, r, c, from, back
<1>7. IsShaped(h, r, c)
  <2>1. \A i \in 1 .. r : h[i] = [j \in 1 .. c |-> h[i][j]]
    BY <1>3
  <2>2. h = [i \in 1 .. r |-> h[i]]
    BY <1>3
  <2> QED
    BY <2>1, <2>2 DEF IsShaped
<1>8. Apply(u, h) = [i \in 1 .. rows |-> [j \in 1 .. cols |->
                       Painted(u, h[back(i, j)[1]][back(i, j)[2]])]]
  <2>1. LET r2 == OutRows(u.dihedral, r, c)
            c2 == OutCols(u.dihedral, r, c)
            from2(i, j) == Source(u.dihedral, r, c, i, j)
        IN Apply(u, h) = [i \in 1 .. r2 |-> [j \in 1 .. c2 |->
                            Painted(u, h[from2(i, j)[1]][from2(i, j)[2]])]]
    BY <1>2, <1>4, <1>7, ApplyIs
  <2> QED
    BY <1>1, <1>5, <2>1 DEF back
<1>9. ASSUME NEW i \in 1 .. rows, NEW j \in 1 .. cols
      PROVE  Painted(u, h[back(i, j)[1]][back(i, j)[2]]) = g[i][j]
  <2> DEFINE a == back(i, j)[1]
             b == back(i, j)[2]
  <2>1. a \in 1 .. r /\ b \in 1 .. c /\ from(a, b) = <<i, j>>
    BY <1>6
  <2> HIDE DEF a, b
  <2>2. h[a][b] = Painted(t, g[i][j])
    BY <1>3, <2>1
  <2> QED
    BY <2>2, PaintedBack DEF u, a, b
<1>10. Apply(u, h) = [i \in 1 .. rows |-> [j \in 1 .. cols |-> g[i][j]]]
  BY <1>8, <1>9
<1> QED
  BY <1>10 DEF IsShaped, u, h
-----------------------------------------------------------------------------
(* The vote: a colour that a strict majority of the predictions has in a    *)
(* cell wins it.                                                            *)
LEMMA MajorityCell ==
  ASSUME NEW N \in Nat, NEW grids, DOMAIN grids = 1 .. N, NEW i, NEW j,
         NEW best \in Colors, NEW V \in SUBSET (1 .. N), 2 * Cardinality(V) > N,
         \A k \in V : i <= RowsOf(grids[k]) /\ j <= Len(grids[k][i]) /\ grids[k][i][j] = best
  PROVE  VoteAt(grids, i, j) = best
<1> DEFINE Votes(v) == {k \in DOMAIN grids :
                          i <= RowsOf(grids[k]) /\ j <= Len(grids[k][i]) /\ grids[k][i][j] = v}
           count(v) == Cardinality(Votes(v))
           Wins(v) == \A w \in Colors : count(w) < count(v) \/ (count(w) = count(v) /\ w <= v)
<1>1. VoteAt(grids, i, j) = CHOOSE v \in Colors : Wins(v)
  BY DEF VoteAt
<1>2. IsFiniteSet(1 .. N) /\ Cardinality(1 .. N) = N
  BY FS_Interval
<1>3. \A v : Votes(v) \in SUBSET (1 .. N)
  OBVIOUS
<1>4. V \subseteq Votes(best)
  OBVIOUS
<1>5. \A v : v # best => Votes(v) \cap V = {}
  OBVIOUS
<1> HIDE DEF Votes
<1>6. IsFiniteSet(V) /\ Cardinality(V) \in Nat
  BY <1>2, FS_Subset, FS_CardinalityType
<1>7. \A v : IsFiniteSet(Votes(v)) /\ count(v) \in Nat
  BY <1>2, <1>3, FS_Subset, FS_CardinalityType
<1>8. count(best) >= Cardinality(V)
  BY <1>4, <1>7, FS_Subset
<1>9. ASSUME NEW v, v # best PROVE count(v) < count(best)
  <2>1. Votes(v) \cap V = {} /\ IsFiniteSet(Votes(v)) /\ count(v) \in Nat
    BY <1>5, <1>7, <1>9
  <2>2. Cardinality(Votes(v) \cup V) = count(v) + Cardinality(V)
    <3>1. Cardinality(Votes(v) \cup V)
            = count(v) + Cardinality(V) - Cardinality(Votes(v) \cap V)
      BY <1>6, <2>1, FS_Union
    <3>2. Cardinality(Votes(v) \cap V) = 0
      BY <2>1, FS_EmptySet
    <3> QED
      BY <1>6, <2>1, <3>1, <3>2
  <2>3. Cardinality(Votes(v) \cup V) <= N
    <3>1. Votes(v) \cup V \in SUBSET (1 .. N)
      BY <1>3
    <3> QED
      BY <1>2, <3>1, FS_Subset
  <2>4. count(best) \in Nat
    BY <1>7
  <2> HIDE DEF count
  <2> QED
    BY <1>6, <1>8, <2>1, <2>2, <2>3, <2>4
<1> HIDE DEF count
<1>10. \A v : count(v) \in Nat
  BY <1>7 DEF count
<1>11. Wins(best)
  <2>1. ASSUME NEW w \in Colors
        PROVE  count(w) < count(best) \/ (count(w) = count(best) /\ w <= best)
    <3>1. w = best => w <= best
      BY AugmentAssumption DEF Colors
    <3> QED
      BY <1>9, <3>1
  <2> QED
    BY <2>1
<1>12. ASSUME NEW v \in Colors, Wins(v) PROVE v = best
  <2> SUFFICES ASSUME v # best PROVE FALSE
    OBVIOUS
  <2>1. count(v) < count(best)
    BY <1>9
  <2>2. count(best) < count(v) \/ count(best) = count(v)
    BY <1>12
  <2>3. count(v) \in Nat /\ count(best) \in Nat
    BY <1>10
  <2> QED
    BY <2>1, <2>2, <2>3
<1> HIDE DEF Wins
<1> QED
  BY <1>1, <1>11, <1>12

(* The predictions of one attempt.                                          *)
Predictions(preds, n, x) ==
  /\ preds = First(preds, n)
  /\ \A k \in 1 .. n : \E t \in AugTransform : \E a :
       IsGrid(a) /\ SameShape(a, x) /\ preds[k] = [grid |-> Apply(t, a), t |-> t]

LEMMA VoteIs ==
  ASSUME NEW n \in Nat \ {0}, NEW x, IsGrid(x), NEW preds, Predictions(preds, n, x), NEW gt,
         IsGrid(gt), \A i \in DOMAIN gt : \A j \in DOMAIN gt[i] : gt[i][j] \in Colors
  PROVE  /\ SameShape(majority_vote(preds), x)
         /\ 2 * Cardinality({k \in DOMAIN preds : preds[k].grid = Apply(preds[k].t, gt)}) > n
              => majority_vote(preds) = gt
<1> DEFINE deaug == [k \in DOMAIN preds |-> Apply(Undo(preds[k].t), preds[k].grid)]
           rows == RowsOf(x)
           cols == ColsOf(x)
           V == {k \in DOMAIN preds : preds[k].grid = Apply(preds[k].t, gt)}
           vote == majority_vote(preds)
<1>1. rows \in Nat \ {0} /\ cols \in Nat \ {0}
  BY GridIsShaped
<1>2. DOMAIN preds = 1 .. n /\ preds # << >> /\ 1 \in 1 .. n
  <2>1. DOMAIN preds = 1 .. n
    BY DEF Predictions, First
  <2>2. 1 \in 1 .. n
    OBVIOUS
  <2>3. preds # << >>
    BY <2>1, <2>2
  <2> QED
    BY <2>1, <2>2, <2>3
<1> HIDE DEF rows, cols
<1>3. ASSUME NEW k \in 1 .. n
      PROVE  /\ IsShaped(deaug[k], rows, cols)
             /\ k \in V => deaug[k] = gt
  <2>0. PICK t \in AugTransform : \E a :
          IsGrid(a) /\ SameShape(a, x) /\ preds[k] = [grid |-> Apply(t, a), t |-> t]
    BY DEF Predictions
  <2>1. PICK a : IsGrid(a) /\ SameShape(a, x) /\ preds[k] = [grid |-> Apply(t, a), t |-> t]
    BY <2>0
  <2>2. RowsOf(a) = rows /\ ColsOf(a) = cols /\ IsShaped(a, rows, cols)
    BY <2>1, GridIsShaped DEF SameShape, rows, cols
  <2>3. deaug[k] = Apply(Undo(t), Apply(t, a))
    BY <1>2, <2>1
  <2>4. deaug[k] = a
    BY <1>1, <2>2, <2>3, UndoesApply
  <2>5. ASSUME k \in V PROVE deaug[k] = gt
    <3>1. Apply(t, a) = Apply(t, gt)
      BY <2>1, <2>5
    <3>2. Apply(Undo(t), Apply(t, gt)) = gt
      BY GridIsShaped, UndoesApply
    <3> QED
      BY <2>3, <3>1, <3>2
  <2> QED
    BY <2>2, <2>4, <2>5
<1>4. DOMAIN deaug = 1 .. n
  BY <1>2
<1>5. vote = [i \in 1 .. RowsOf(deaug[1]) |->
                [j \in 1 .. ColsOf(deaug[1]) |-> VoteAt(deaug, i, j)]]
  BY <1>2 DEF majority_vote
<1>6. V \in SUBSET (1 .. n)
  BY <1>2
<1> HIDE DEF deaug, vote, V
<1>7. /\ RowsOf(deaug[1]) = rows /\ ColsOf(deaug[1]) = cols
  BY <1>1, <1>2, <1>3, ShapeIs
<1>8. vote = [i \in 1 .. rows |-> [j \in 1 .. cols |-> VoteAt(deaug, i, j)]]
  BY <1>5, <1>7
<1>9. IsShaped(vote, rows, cols)
  <2>1. \A i \in 1 .. rows : vote[i] = [j \in 1 .. cols |-> vote[i][j]]
    BY <1>8
  <2>2. vote = [i \in 1 .. rows |-> vote[i]]
    BY <1>8
  <2> QED
    BY <2>1, <2>2 DEF IsShaped
<1>10. SameShape(vote, x)
  BY <1>1, <1>9, ShapeIs DEF SameShape, rows, cols
<1>11. ASSUME 2 * Cardinality(V) > n PROVE vote = gt
  <2>1. V # {}
    <3> SUFFICES ASSUME V = {} PROVE FALSE
      OBVIOUS
    <3>1. Cardinality(V) = 0
      BY FS_EmptySet
    <3> QED
      BY <1>11, <3>1
  <2>2. IsShaped(gt, rows, cols)
    <3>1. PICK k \in V : TRUE
      BY <2>1
    <3> QED
      BY <1>3, <1>6, <3>1
  <2>3. ASSUME NEW i \in 1 .. rows, NEW j \in 1 .. cols
        PROVE  VoteAt(deaug, i, j) = gt[i][j]
    <3>1. gt[i][j] \in Colors
      <4>1. DOMAIN gt = 1 .. rows /\ DOMAIN gt[i] = 1 .. cols
        BY <1>1, <2>2, ShapeIs
      <4> QED
        BY <4>1
    <3>2. ASSUME NEW k \in V
          PROVE  i <= RowsOf(deaug[k]) /\ j <= Len(deaug[k][i]) /\ deaug[k][i][j] = gt[i][j]
      <4>1. deaug[k] = gt
        BY <1>3, <1>6
      <4>2. RowsOf(gt) = rows /\ Len(gt[i]) = cols
        BY <1>1, <2>2, ShapeIs
      <4>3. i <= rows /\ j <= cols
        BY <1>1
      <4> QED
        BY <4>1, <4>2, <4>3
    <3> QED
      BY <1>4, <1>6, <1>11, <3>1, <3>2, MajorityCell
  <2>4. vote = [i \in 1 .. rows |-> [j \in 1 .. cols |-> gt[i][j]]]
    BY <1>8, <2>3
  <2> QED
    BY <2>2, <2>4 DEF IsShaped
<1> QED
  BY <1>10, <1>11 DEF vote, V
-----------------------------------------------------------------------------
(* Where the evaluation is: every prediction is a transformed answer in the *)
(* shape of the current input.                                              *)
ScoreInv ==
  /\ product \in Products /\ tests = product.tests
  /\ scoring = [running |-> scoring.running, test |-> scoring.test,
                attempt |-> scoring.attempt, preds |-> scoring.preds,
                total |-> scoring.total, exact |-> scoring.exact]
  /\ scoring.test \in Nat \ {0} /\ scoring.attempt \in 0 .. Attempts - 1
  /\ scoring.total \in Nat /\ scoring.exact \in Nat
  /\ \E n \in 0 .. NAugmentations : Predictions(scoring.preds, n, Current.x)

LEMMA NoPredictions == \A x : Predictions(<< >>, 0, x)
<1>1. 1 .. 0 = {}
  OBVIOUS
<1> QED
  BY <1>1, EmptyFirst DEF Predictions

LEMMA CountsOfPredictions ==
  ASSUME NEW n \in Nat, NEW preds, NEW x, Predictions(preds, n, x)
  PROVE  Len(preds) = n /\ DOMAIN preds = 1 .. n
BY OneMore DEF Predictions, First

LEMMA ScoringStarts ==
  ASSUME product' \in Products, tests' = product'.tests,
         \E b \in BOOLEAN : scoring' = [running |-> b, test |-> 1, attempt |-> 0,
                                        preds |-> << >>, total |-> 0, exact |-> 0]
  PROVE  ScoreInv'
<1>1. PICK b \in BOOLEAN : scoring' = [running |-> b, test |-> 1, attempt |-> 0,
                                       preds |-> << >>, total |-> 0, exact |-> 0]
  OBVIOUS
<1>2. 0 \in 0 .. Attempts - 1 /\ 0 \in 0 .. NAugmentations /\ 1 \in Nat \ {0}
  BY TaskEvalAssumption
<1>3. Predictions(scoring'.preds, 0, (Current.x)')
  BY <1>1, NoPredictions
<1> QED
  BY <1>1, <1>2, <1>3 DEF ScoreInv

LEMMA CurrentIsTest ==
  ASSUME ScoreInv, Running
  PROVE  IsTest(Current)
<1>1. /\ Len(tests) \in Nat /\ DOMAIN tests = 1 .. Len(tests)
      /\ \A k \in DOMAIN tests : IsTest(tests[k])
  BY DeploymentAssumption DEF ScoreInv
<1>2. scoring.test \in 1 .. Len(tests)
  BY <1>1 DEF ScoreInv, Running
<1> QED
  BY <1>1, <1>2 DEF Current

LEMMA AnswerKeepsScore ==
  ASSUME ScoreInv, NEW max_seq, Predict(max_seq), UNCHANGED product
  PROVE  ScoreInv'
<1>1. PICK t \in Transforms, a \in Current.answers :
        scoring' = [scoring EXCEPT !.preds = Append(@, [grid |-> Apply(t, a), t |-> t])]
  BY DEF Predict
<1> DEFINE p == [grid |-> Apply(t, a), t |-> t]
           preds == scoring.preds
           x == Current.x
<1>2. IsGrid(a) /\ SameShape(a, x) /\ t \in AugTransform
  BY CurrentIsTest, TaskEvalAssumption DEF Predict, IsTest
<1> HIDE DEF p
<1>3. scoring' = [running |-> scoring.running, test |-> scoring.test,
                  attempt |-> scoring.attempt, preds |-> Append(preds, p),
                  total |-> scoring.total, exact |-> scoring.exact]
  BY <1>1 DEF ScoreInv, p
<1>4. PICK n \in 0 .. NAugmentations : Predictions(preds, n, x)
  BY DEF ScoreInv
<1>5. n \in Nat /\ n < NAugmentations /\ n + 1 \in 0 .. NAugmentations
  <2>1. n \in Nat
    BY TaskEvalAssumption
  <2>2. Len(preds) = n
    BY <1>4, <2>1, CountsOfPredictions
  <2>3. n < NAugmentations
    BY <2>2 DEF Predict
  <2> QED
    BY <2>1, <2>3, TaskEvalAssumption
<1>6. /\ Append(preds, p) = First(Append(preds, p), n + 1)
      /\ \A i \in 1 .. n : Append(preds, p)[i] = preds[i]
      /\ Append(preds, p)[n + 1] = p
  BY <1>4, <1>5, OneMore DEF Predictions
<1>7. ASSUME NEW k \in 1 .. n + 1
      PROVE  \E u \in AugTransform : \E b : /\ IsGrid(b) /\ SameShape(b, x)
                                            /\ Append(preds, p)[k] = [grid |-> Apply(u, b), t |-> u]
  <2>1. CASE k = n + 1
    BY <1>2, <1>6, <2>1 DEF p
  <2>2. CASE k # n + 1
    <3>1. k \in 1 .. n
      BY <1>5, <2>2
    <3> QED
      BY <1>4, <1>6, <3>1 DEF Predictions
  <2> QED
    BY <2>1, <2>2
<1>8. Predictions(Append(preds, p), n + 1, x)
  BY <1>6, <1>7 DEF Predictions
<1>9. (Current.x)' = x /\ scoring'.preds = Append(preds, p)
  BY <1>3 DEF Predict, Current
<1>10. Predictions(scoring'.preds, n + 1, (Current.x)')
  BY <1>8, <1>9
<1>11. \E m \in 0 .. NAugmentations : Predictions(scoring'.preds, m, (Current.x)')
  BY <1>5, <1>10
<1> HIDE DEF preds, x
<1> QED
  BY <1>3, <1>11 DEF ScoreInv, Predict

(* A vote: the next attempt at the test, or the next test.                  *)
LEMMA VoteOutcomes ==
  ASSUME ScoreInv, NEW hit \in BOOLEAN, Vote(hit)
  PROVE  \/ /\ ~ hit /\ scoring.attempt + 1 < Attempts
            /\ scoring' = [running |-> scoring.running, test |-> scoring.test,
                           attempt |-> scoring.attempt + 1, preds |-> << >>,
                           total |-> scoring.total, exact |-> scoring.exact]
         \/ /\ hit \/ ~ (scoring.attempt + 1 < Attempts)
            /\ scoring' = [running |-> scoring.running, test |-> scoring.test + 1,
                           attempt |-> 0, preds |-> << >>, total |-> scoring.total + 1,
                           exact |-> IF hit THEN scoring.exact + 1 ELSE scoring.exact]
BY DEF Vote, NextTest, ScoreInv

LEMMA VoteKeepsScore ==
  ASSUME ScoreInv, NEW hit \in BOOLEAN, Vote(hit), UNCHANGED product
  PROVE  ScoreInv'
<1>1. /\ scoring' = [running |-> scoring'.running, test |-> scoring'.test,
                     attempt |-> scoring'.attempt, preds |-> scoring'.preds,
                     total |-> scoring'.total, exact |-> scoring'.exact]
      /\ scoring'.preds = << >>
  BY VoteOutcomes
<1>2. /\ scoring'.test \in Nat \ {0} /\ scoring'.total \in Nat /\ scoring'.exact \in Nat
      /\ scoring'.attempt \in 0 .. Attempts - 1
  BY VoteOutcomes, TaskEvalAssumption DEF ScoreInv
<1>3. 0 \in 0 .. NAugmentations /\ Predictions(scoring'.preds, 0, (Current.x)')
  BY <1>1, NoPredictions, TaskEvalAssumption
<1>4. UNCHANGED tests
  BY DEF Vote
<1> QED
  BY <1>1, <1>2, <1>3, <1>4 DEF ScoreInv

LEMMA ScoreStepInv == ScoreInv /\ [Next]_vars => ScoreInv'
<1> SUFFICES ASSUME ScoreInv, [Next]_vars PROVE ScoreInv'
  OBVIOUS
<1>1. CASE UNCHANGED <<product, tests, scoring>>
  BY <1>1 DEF ScoreInv, Current
<1>2. UNCHANGED <<product, tests>>
  BY DEF Next, vars, Forging, Loading, ForgeStep, LoadStep, Train, Create, Write, ForgeExits,
         Launch, Probe, LoadCheckpoint, ProbeFails, ReadItem, ReadFails, Build, BuildFails,
         Exit, Pack, Pass, StartScoring, Answer, Decide, Quit, bundleVars, Predict, Vote
<1>3. CASE Forging \/ Loading \/ Pass \/ UNCHANGED vars
  BY <1>1, <1>2, <1>3 DEF Forging, Loading, Pass, vars
<1>4. CASE StartScoring
  <2>1. scoring' = [running |-> TRUE, test |-> 1, attempt |-> 0,
                    preds |-> << >>, total |-> 0, exact |-> 0]
    BY <1>4 DEF StartScoring, BeginScoring, NotScoring
  <2> QED
    BY <1>2, <2>1, ScoringStarts DEF ScoreInv
<1>5. CASE Answer
  BY <1>2, <1>5, AnswerKeepsScore DEF Answer
<1>6. CASE Decide
  BY <1>2, <1>6, VoteKeepsScore DEF Decide
<1>7. CASE Quit
  <2>1. scoring' = [running |-> FALSE, test |-> 1, attempt |-> 0,
                    preds |-> << >>, total |-> 0, exact |-> 0]
    BY <1>7 DEF Quit, NotScoring
  <2> QED
    BY <1>2, <2>1, ScoringStarts DEF ScoreInv
<1> QED
  BY <1>3, <1>4, <1>5, <1>6, <1>7 DEF Next

LEMMA InitScore == Init => ScoreInv
<1> SUFFICES ASSUME Init PROVE ScoreInv
  OBVIOUS
<1>1. /\ product \in Products /\ tests = product.tests
      /\ scoring = [running |-> FALSE, test |-> 1, attempt |-> 0, preds |-> << >>,
                    total |-> 0, exact |-> 0]
  BY DEF Init, InitBundle, NotScoring
<1>2. 0 \in 0 .. Attempts - 1 /\ 0 \in 0 .. NAugmentations /\ 1 \in Nat \ {0}
  BY TaskEvalAssumption
<1> QED
  BY <1>1, <1>2, NoPredictions DEF ScoreInv

(* What a vote that ends a test counts.                                     *)
LEMMA EndOfTest ==
  ASSUME ScoreInv, NEW hit \in BOOLEAN, Vote(hit), scoring'.total # scoring.total
  PROVE  LET solved == scoring'.exact = scoring.exact + 1
         IN /\ 2 * Cardinality(Correct) > NAugmentations => solved
            /\ solved => SameShape(Current.x, Current.gt)
            /\ ~ solved => scoring.attempt = Attempts - 1
<1> DEFINE preds == scoring.preds
           x == Current.x
           gt == Current.gt
           V == {k \in DOMAIN preds : preds[k].grid = Apply(preds[k].t, gt)}
<1>1. /\ hit \/ ~ (scoring.attempt + 1 < Attempts)
      /\ scoring'.exact = IF hit THEN scoring.exact + 1 ELSE scoring.exact
  BY VoteOutcomes
<1>2. scoring.exact \in Nat /\ scoring.attempt \in 0 .. Attempts - 1
  BY DEF ScoreInv
<1>3. (scoring'.exact = scoring.exact + 1) <=> hit
  BY <1>1, <1>2
<1>4. ~ hit => scoring.attempt = Attempts - 1
  BY <1>1, <1>2, TaskEvalAssumption
<1>5. IsTest(Current) /\ Len(preds) = NAugmentations /\ (hit <=> majority_vote(preds) = gt)
  BY CurrentIsTest DEF Vote, Voted, Hit
<1>6. PICK n \in 0 .. NAugmentations : Predictions(preds, n, x)
  BY DEF ScoreInv
<1>7. n = NAugmentations /\ n \in Nat \ {0}
  <2>1. n \in Nat
    BY TaskEvalAssumption
  <2> QED
    BY <1>5, <1>6, <2>1, CountsOfPredictions, TaskEvalAssumption
<1>8. Correct = V
  BY DEF Correct
<1>9. /\ SameShape(majority_vote(preds), x)
      /\ 2 * Cardinality(V) > n => majority_vote(preds) = gt
  <2>1. IsGrid(x) /\ IsGrid(gt)
        /\ \A i \in DOMAIN gt : \A j \in DOMAIN gt[i] : gt[i][j] \in Colors
    BY <1>5 DEF IsTest
  <2> HIDE DEF preds, x, gt
  <2> QED
    BY <1>6, <1>7, <2>1, VoteIs
<1> HIDE DEF V, preds, x, gt
<1>10. hit => SameShape(x, gt)
  BY <1>5, <1>9 DEF SameShape
<1> QED
  BY <1>3, <1>4, <1>5, <1>7, <1>8, <1>9, <1>10 DEF x, gt

(* Whatever grids, answers and augmentations there are: a test whose vote   *)
(* is decided counts as solved if a strict majority of the answers was      *)
(* right, never with an output of another shape than the input, and as      *)
(* missed in the last attempt only (evaluate_arc_tasks, majority_vote).     *)
THEOREM TestsAreScored == Spec => TwoTryScore
<1>1. ScoreInv /\ [Next]_vars =>
        [scoring.running /\ scoring'.running /\ scoring'.total # scoring.total =>
           LET solved == scoring'.exact = scoring.exact + 1
           IN /\ 2 * Cardinality(Correct) > NAugmentations => solved
              /\ solved => SameShape(Current.x, Current.gt)
              /\ ~ solved => scoring.attempt = Attempts - 1]_vars
  <2> SUFFICES ASSUME ScoreInv, Next, scoring.running, scoring'.running,
                      scoring'.total # scoring.total
               PROVE  LET solved == scoring'.exact = scoring.exact + 1
                      IN /\ 2 * Cardinality(Correct) > NAugmentations => solved
                         /\ solved => SameShape(Current.x, Current.gt)
                         /\ ~ solved => scoring.attempt = Attempts - 1
    OBVIOUS
  <2>1. CASE Forging \/ Loading \/ Pass
    BY <2>1 DEF Forging, Loading, Pass
  <2>2. CASE StartScoring
    BY <2>2 DEF StartScoring
  <2>3. CASE Answer
    <3>1. scoring'.total = scoring.total
      BY <2>3 DEF Answer, Predict, ScoreInv
    <3> QED
      BY <3>1
  <2>4. CASE Decide
    BY <2>4, EndOfTest DEF Decide
  <2>5. CASE Quit
    BY <2>5 DEF Quit, NotScoring
  <2> QED
    BY <2>1, <2>2, <2>3, <2>4, <2>5 DEF Next
<1> QED
  BY <1>1, InitScore, ScoreStepInv, PTL DEF Spec, TwoTryScore
=============================================================================
