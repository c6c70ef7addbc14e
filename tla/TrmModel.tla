------------------------------- MODULE TrmModel -------------------------------
(***************************************************************************)
(* A model in memory: its configuration, its parameters, the packed        *)
(* weights beside them (src/network.rs, MaybeTernaryLinear in              *)
(* src/kernel_dispatch.rs, TrmModel in src/recursion.rs).                  *)
(*                                                                         *)
(* Parameters of one layer with the same role and shape are one tensor:    *)
(* <<layer, role>> with layers counted from 1, and layer 0 outside of the  *)
(* blocks.  "norm" stands for everything that is not 2-D (LayerNorms,      *)
(* biases, init_y, init_z), "token" for the embeddings.                    *)
(***************************************************************************)
EXTENDS Ternary, FiniteSets

CONSTANTS
  Vocab       \* vocab_size

(* A configuration is a record with fields of NetworkConfig and TrmConfig:  *)
(* variant, dim, heads, kv (num_kv_heads, 0 for None), mult (ffn_mult, a    *)
(* rational), max_seq, layers, deep (allow_non_standard_depth), rope        *)
(* (rope_base), n_sup (also for the other cycle counts), head (learned      *)
(* halt head), adaptive, deq.                                               *)
Default ==
  [variant |-> "transformer", dim |-> 256, heads |-> 8, kv |-> 0, mult |-> <<8, 3>>,
   max_seq |-> 900, layers |-> 2, deep |-> FALSE, rope |-> 10000,
   n_sup |-> 16, head |-> TRUE, adaptive |-> FALSE, deq |-> FALSE]

head_dim(c)   == c.dim \div c.heads
kv_heads(c)   == IF c.kv = 0 THEN c.heads ELSE c.kv
ffn_hidden(c) ==
  LET raw == (2 * c.dim * c.mult[1] + c.mult[2]) \div (2 * c.mult[2])
  IN 8 * ((raw + 7) \div 8)

Valid(c) ==
  /\ c.deep \/ c.layers = 2
  /\ c.dim % c.heads = 0
  /\ c.kv # 0 => c.heads % c.kv = 0

(* The tensors of a configuration, in the order of the layers.              *)
Roles(c) == IF c.variant = "transformer" THEN <<"qo", "kv", "up", "down">>
                                         ELSE <<"tup", "tdown", "up", "down">>
BlockTensors(c) ==
  [i \in 1 .. 4 * c.layers |-> <<((i - 1) \div 4) + 1, Roles(c)[((i - 1) % 4) + 1]>>]
HeadTensors(c) == IF c.head THEN <<<<0, "fc1">>, <<0, "fc2">>>> ELSE <<>>
TensorSeq(c) == <<<<0, "token">>>> \o HeadTensors(c) \o BlockTensors(c) \o <<<<0, "norm">>>>

Tensors(c) == {TensorSeq(c)[i] : i \in DOMAIN TensorSeq(c)}
Linears(c) == {n \in Tensors(c) : n[2] \notin {"token", "norm"}}

(* Shapes as <<out_dim, in_dim>>.                                           *)
Shape(c, n) ==
  CASE n[2] = "token" -> <<Vocab, c.dim>>
    [] n[2] = "norm"  -> <<c.dim>>
    [] n[2] = "qo"    -> <<c.dim, c.dim>>
    [] n[2] = "kv"    -> <<kv_heads(c) * head_dim(c), c.dim>>
    [] n[2] = "up"    -> <<ffn_hidden(c), c.dim>>
    [] n[2] = "down"  -> <<c.dim, ffn_hidden(c)>>
    [] n[2] = "tup"   -> <<2 * c.max_seq, c.max_seq>>
    [] n[2] = "tdown" -> <<c.max_seq, 2 * c.max_seq>>
    [] n[2] = "fc1"   -> <<c.dim \div 2, c.dim>>
    [] n[2] = "fc2"   -> <<1, c.dim \div 2>>

Packable(c, n) == Len(Shape(c, n)) = 2 /\ Shape(c, n)[2] % 4 = 0
-----------------------------------------------------------------------------
NoPack == [packed |-> <<>>, alpha |-> [num |-> 0, den |-> 1]]
Random == [w |-> <<>>, den |-> 1]        \* what the initializers leave

New(c) == [cfg |-> c, live |-> [n \in Tensors(c) |-> Random],
           pack |-> [n \in Linears(c) |-> NoPack]]

(* A file of named tensors has every tensor of c in the shape of c; one     *)
(* that is missing or of another shape fails the load, others are ignored.  *)
HasTensors(stored, c) ==
  \A n \in Tensors(c) : n \in Tensors(stored) /\ Shape(stored, n) = Shape(c, n)

load_safetensors(c, rows) == [New(c) EXCEPT !.live = [n \in Tensors(c) |-> rows[n]]]

(* The packed weights of every linear are made from its live ones, or are   *)
(* given up where they cannot be packed.                                    *)
pack_from_weights(m) ==
  [m EXCEPT !.pack = [n \in Linears(m.cfg) |->
     IF Packable(m.cfg, n) THEN quantize_rowwise_ternary(m.live[n]) ELSE NoPack]]

(* Packs are attached by name; a linear without one keeps what it has.      *)
Repacked(m, packs) ==                            \* mutant of apply_ternary_packs
  [m EXCEPT !.pack = [n \in Linears(m.cfg) |->
     IF n \in DOMAIN packs THEN quantize_rowwise_ternary(m.live[n]) ELSE m.pack[n]]]
apply_ternary_packs(m, packs) ==
  [m EXCEPT !.pack = [n \in Linears(m.cfg) |->
     IF n \in DOMAIN packs THEN packs[n] ELSE m.pack[n]]]

is_packed(m, n) == m.pack[n] # NoPack
packed_linear_count(m) == Cardinality({n \in Linears(m.cfg) : is_packed(m, n)})

AttnPacked(m, l)    == is_packed(m, <<l, "qo">>) /\ is_packed(m, <<l, "kv">>)
FfnPacked(m, l)     == is_packed(m, <<l, "up">>) /\ is_packed(m, <<l, "down">>)

transformer_stack_packed(m) ==
  /\ m.cfg.layers > 0 /\ m.cfg.variant = "transformer"
  /\ \A l \in 1 .. m.cfg.layers : AttnPacked(m, l) /\ FfnPacked(m, l)
=============================================================================
