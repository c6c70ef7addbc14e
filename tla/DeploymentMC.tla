----------------------------- MODULE DeploymentMC -----------------------------
(***************************************************************************)
(* A small instance of Deployment for TLC: the configurations that decide  *)
(* which tensors can be packed, which bundles load and which path a pass   *)
(* takes, rows at the edges of the quantizer, and a few test grids.        *)
(***************************************************************************)
EXTENDS Deployment, TLC

Server(preset, path, changes) ==
  changes @@ [NoCommand EXCEPT !.bin = "server", !.preset = preset, !.dim = 256,
     !.heads = 8, !.layers = 2, !.variant = "transformer", !.seq_len = 81,
     !.n_sup = 16, !.path = path]
Eval(preset, path) ==
  [Server(preset, path, <<>>) EXCEPT !.bin = "eval"]

Trained(dim, heads) == [Default EXCEPT !.dim = dim, !.heads = heads]
Forged(dim, heads, max_seq) ==
  ForgeConfig([preset |-> "none", dim |-> dim, heads |-> heads, layers |-> 2,
               max_seq |-> max_seq])
Tiny == [Trained(32, 4) EXCEPT !.max_seq = 243]

(* Weights at exactly half of the scale; no weights; a scale below the      *)
(* smallest; a scale that changes when ternary weights are quantized again; *)
(* one that ternary_ste clamps.                                             *)
Row(w, den) == [w |-> w, den |-> den]
Halves == Row(<<3, -1, 0, 5, -4, 2, 1, 0>>, 8)
Zeros  == Row(<<0, 0, 0, 0, 0, 0, 0, 0>>, 1)
Small  == Row(<<1, 0, 0, 0, -1, 0, 0, 0>>, 2000)
Sparse == Row(<<7, 7, 0, 0, 0, -7, 0, 1>>, 1)
TwoVersions == << <<Halves, Zeros>>, <<Small, Sparse>> >>
OneVersion  == << <<Sparse, Halves>> >>
Clamped     == << <<Row(<<700, -700, 0, 0, 0, 0, 0, 1>>, 1), Halves>> >>

(* A test that the model may solve, where rotations move the cells; one     *)
(* whose output has another shape.                                          *)
Wide == [x |-> <<<<0, 1>>>>, gt |-> <<<<1, 2>>>>,
         answers |-> {<<<<1, 2>>>>, <<<<1, 0>>>>, <<<<10, 2>>>>}]
Tall == [x |-> <<<<0, 1>>>>, gt |-> <<<<1>>, <<2>>>>, answers |-> {<<<<1, 2>>>>}]
Dot  == [x |-> <<<<0>>>>, gt |-> <<<<1>>>>, answers |-> {<<<<1>>>>, <<<<2>>>>}]

Transform(perm, op) == [color_perm |-> [c \in 0 .. 2 |-> perm[c + 1]], dihedral |-> op]
MCTransforms == {Transform(<<0, 1, 2>>, "Identity"), Transform(<<1, 2, 0>>, "Rot90"),
                 Transform(<<2, 1, 0>>, "Rot270"), Transform(<<1, 2, 0>>, "FlipAntiDiag")}

Product(ckpt, forged, weights, commands, tsts) ==
  [ckpt |-> ckpt, forged |-> forged, weights |-> weights, commands |-> commands,
   tests |-> tsts]
Api(c, commands) == Product(c, c, OneVersion, commands, <<>>)

FromTheBundle == {Server("tiny", "bundle", <<>>)}
MCProducts ==
  { \* what the documentation describes: forged for 81 tokens, served, evaluated
    Product(Tiny, Tiny, TwoVersions, FromTheBundle, <<>>),
    Product(Tiny, Tiny, TwoVersions, {Server("tiny", "checkpoint",
              [kernels |-> k, adaptive |-> a]) : k, a \in BOOLEAN}, <<>>),
    Product(Tiny, Tiny, OneVersion, {Eval("tiny", "bundle")}, <<Dot>>),
    Product(Tiny, Tiny, OneVersion, {Eval("tiny", "checkpoint")}, <<Wide, Tall>>),
    \* a cache too short for the sequence, other heads than the trained ones
    Product(Trained(448, 8), Forged(448, 8, 85), OneVersion,
            {Server("seven", "bundle", [seq_len |-> n]) : n \in {2, 3}}, <<>>),
    Product(Tiny, Forged(32, 8, 84), OneVersion, {Eval("none", "bundle")}, <<Dot, Wide>>),
    \* rows that do not fill bytes: some linears packed, some not
    Product(Trained(6, 3), Forged(6, 3, 243), TwoVersions,
            {Server("none", "bundle", <<>>),
             Server("none", "checkpoint",
                    [dim |-> 6, heads |-> 3, kernels |-> TRUE, adaptive |-> TRUE])}, <<>>),
    Product(Trained(12, 3), Forged(12, 3, 243), Clamped,
            {Server("none", "checkpoint",
                    [dim |-> 12, heads |-> 3, kernels |-> TRUE, adaptive |-> TRUE])}, <<>>),
    \* models that only the library makes
    Api([Tiny EXCEPT !.variant = "mixer"],
        {Server("tiny", "checkpoint", [variant |-> "mixer", kernels |-> TRUE, seq_len |-> n])
           : n \in {81, 82}} \cup FromTheBundle),
    Api([Tiny EXCEPT !.kv = 2], FromTheBundle \cup {Eval("tiny", "checkpoint")}),
    Api([Tiny EXCEPT !.kv = 4, !.head = FALSE, !.n_sup = 4], FromTheBundle),
    Api([Tiny EXCEPT !.mult = <<2, 1>>], FromTheBundle),
    Api([Tiny EXCEPT !.mult = <<11, 4>>, !.adaptive = TRUE], FromTheBundle),
    Api([Tiny EXCEPT !.deep = TRUE, !.layers = 3], FromTheBundle) }

(* A process does not look at the file again: what happens to it while a    *)
(* model is in memory, and models that were read from two saves, are not    *)
(* followed further.                                                        *)
FileAtRest ==
  proc.pc = "up" => /\ ~ forge.busy /\ ~ proc.replaced
                    /\ Len(file) \in {0, Len(Layout(product.forged))}
=============================================================================
