-------------------------------- MODULE Forward --------------------------------
(***************************************************************************)
(* A pass through the shared network and the halt head, and its ways over  *)
(* the device and the CPU: SharedNetwork::forward and the blocks           *)
(* (src/network.rs), src/kernel_dispatch.rs, the packed layers of          *)
(* src/custom_kernels.rs and src/kernel_ref.rs.                            *)
(*                                                                         *)
(* An activation is the list of the sublayers that made it, each with the  *)
(* weights that it multiplied with and the K/V head that every query head  *)
(* read.  The device and kernel_ref run the same loops over a pack and     *)
(* have one definition here; what PackCache and BlockReduce say of the     *)
(* device's cache and reductions is not repeated.                          *)
(***************************************************************************)
EXTENDS TrmModel, KernelBank

VARIABLES
  bank,    \* OnceLock<Option<KernelBank>>: {} before its first use
  pass     \* at: "idle", "stack", "blocks", "halt" or "done"; layer, sub
           \* (1, 2): the next sublayer; x: the activation

NoPass == [at |-> "idle", layer |-> 1, sub |-> 1, x |-> <<>>]

(* get_or_init: the first use decides for the life of the process.          *)
UseBank == IF bank = {} THEN bank' \in Banks ELSE UNCHANGED bank
-----------------------------------------------------------------------------
(* MaybeTernaryLinear::forward and the packed layers: the kernels decode    *)
(* the pack, Candle multiplies with the live weight.                        *)
LinearRow(m, n) == IF is_packed(m, n) THEN KernelRow(m.pack[n]) ELSE m.live[n]

(* Candle repeats the K/V heads as a whole; the kernels and kernel_ref give *)
(* neighbouring query heads the same one.                                   *)
CandleKv(c) == [h \in 0 .. c.heads - 1 |-> h % kv_heads(c)]
KernelKv(c) == [h \in 0 .. c.heads - 1 |-> h \div (c.heads \div kv_heads(c))]

Sublayer(m, l, sub, w, kv) ==
  [at |-> <<l, sub>>, norm |-> m.live[<<0, "norm">>], w |-> w, kv |-> kv]

Attn(m, l) ==
  Sublayer(m, l, 1, <<LinearRow(m, <<l, "qo">>), LinearRow(m, <<l, "kv">>)>>,
           IF AttnPacked(m, l) THEN KernelKv(m.cfg) ELSE CandleKv(m.cfg))
Ffn(m, l) ==
  Sublayer(m, l, 2, <<LinearRow(m, <<l, "up">>), LinearRow(m, <<l, "down">>)>>, <<>>)
TokenFfn(m, l) ==
  Sublayer(m, l, 1, <<LinearRow(m, <<l, "tup">>), LinearRow(m, <<l, "tdown">>)>>, <<>>)
Halting(m) ==
  Sublayer(m, 0, 1, <<LinearRow(m, <<0, "fc1">>), LinearRow(m, <<0, "fc2">>)>>, <<>>)

Applied(m, l, sub) ==
  IF sub = 2 THEN Ffn(m, l)
  ELSE IF m.cfg.variant = "transformer" THEN Attn(m, l) ELSE TokenFfn(m, l)

(* The sublayer is done: on to the next, after the last layer to "then".    *)
Advance(m, then) ==
  LET x == Append(pass.x, Applied(m, pass.layer, pass.sub))
  IN pass' = IF pass.sub = 1 THEN [pass EXCEPT !.sub = 2, !.x = x]
             ELSE [pass EXCEPT !.sub = 1, !.layer = @ + 1, !.x = x,
                               !.at = IF pass.layer = m.cfg.layers THEN then ELSE @]

(* The halt head reads the answer when the model halts adaptively.          *)
AfterBlocks(m) == IF m.cfg.adaptive /\ m.cfg.head THEN "halt" ELSE "done"
-----------------------------------------------------------------------------
(* SharedNetwork::forward: a fully packed transformer tries the device      *)
(* stack, if the dispatcher finds its three kernels.                        *)
StackKernels == {"fused_attention", "layer_norm", "ewise_add_inplace"}

Begin(m) ==
  /\ pass.at \in {"idle", "done"}
  /\ IF transformer_stack_packed(m)
       THEN /\ UseBank
            /\ pass' = [NoPass EXCEPT
                 !.at = IF StackKernels \subseteq bank' THEN "stack" ELSE "blocks"]
       ELSE /\ pass' = [NoPass EXCEPT !.at = "blocks"]
            /\ UNCHANGED bank

(* On the device: every launch needs its kernel, and may fail.              *)
Launches(sub) ==
  Gemm \cup {"bias_add"} \cup IF sub = 1 THEN Attention ELSE {"swiglu_fused"}

StackSublayer(m) ==
  /\ pass.at = "stack" /\ Launches(pass.sub) \subseteq bank
  /\ Advance(m, AfterBlocks(m))
  /\ UNCHANGED bank

(* Any error on the device: the layers start again from the input.          *)
KeepsActivation(m) ==                            \* mutant of StackFails
  /\ pass.at = "stack"
  /\ pass' = [pass EXCEPT !.at = "blocks", !.layer = 1, !.sub = 1]
  /\ UNCHANGED bank
StackFails(m) ==
  /\ pass.at = "stack"
  /\ pass' = [NoPass EXCEPT !.at = "blocks"]
  /\ UNCHANGED bank

(* Block by block: a packed sublayer tries the device and repeats a failed  *)
(* call on the CPU; one that is not packed, or in part, goes linear by      *)
(* linear.  The outcome is the same sublayer.                               *)
UsesPacks(m, l, sub) ==
  \E n \in Linears(m.cfg) : n[1] = l /\ is_packed(m, n)
    /\ n[2] \in IF sub = 1 THEN {"qo", "kv", "tup", "tdown"} ELSE {"up", "down"}

BlockSublayer(m) ==
  /\ pass.at = "blocks"
  /\ Advance(m, AfterBlocks(m))
  /\ IF UsesPacks(m, pass.layer, pass.sub) THEN UseBank ELSE UNCHANGED bank

HaltHead(m) ==
  /\ pass.at = "halt"
  /\ pass' = [pass EXCEPT !.at = "done", !.x = Append(@, Halting(m))]
  /\ IF is_packed(m, <<0, "fc1">>) \/ is_packed(m, <<0, "fc2">>)
       THEN UseBank ELSE UNCHANGED bank

ForwardStep(m) ==
  \/ Begin(m) \/ StackSublayer(m) \/ StackFails(m) \/ BlockSublayer(m) \/ HaltHead(m)
-----------------------------------------------------------------------------
(* The reference: Candle's graph with every packed weight unpacked.         *)
Weight(m, n) == IF is_packed(m, n) THEN unpack_ternary(m.pack[n]) ELSE m.live[n]

RefSublayer(m, l, sub) ==
  LET names == IF sub = 2 THEN <<"up", "down">>
               ELSE IF m.cfg.variant = "transformer" THEN <<"qo", "kv">>
                                                     ELSE <<"tup", "tdown">>
  IN Sublayer(m, l, sub, [i \in 1 .. 2 |-> Weight(m, <<l, names[i]>>)],
              IF sub = 1 /\ m.cfg.variant = "transformer" THEN CandleKv(m.cfg) ELSE <<>>)

RefHalt(m) ==
  IF AfterBlocks(m) = "halt"
    THEN <<Sublayer(m, 0, 1, <<Weight(m, <<0, "fc1">>), Weight(m, <<0, "fc2">>)>>, <<>>)>>
    ELSE <<>>

Reference(m) ==
  [i \in 1 .. 2 * m.cfg.layers |-> RefSublayer(m, (i + 1) \div 2, 2 - (i % 2))]
  \o RefHalt(m)
=============================================================================
