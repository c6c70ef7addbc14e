-------------------------------- MODULE Bundle --------------------------------
(***************************************************************************)
(* From a trained checkpoint to a model in memory: the forge binary and    *)
(* the TRMQ10 file (src/bin/forge.rs, src/trmq10.rs), load_model of the    *)
(* server and eval binaries, pack_ternary_inference of server --kernels.   *)
(*                                                                         *)
(* Training replaces the checkpoint, forge writes the bundle in place and  *)
(* may be killed, a process reads the bundle at the same time.  The items  *)
(* of the file are read and written one after the other; an item that is   *)
(* torn is as good as absent.  All saves under one path have the same      *)
(* configuration, hence the same items in the same places.                 *)
(***************************************************************************)
EXTENDS TrmModel

CONSTANTS
  Products      \* what is trained, forged and run: [ckpt, forged: configurations of
                \* the checkpoint and the bundle; weights: two rows per version;
                \* commands: command lines of server and eval; tests]

Heads == Nat \ {0}      \* num_heads: 0 is refused by Valid (head_dim divides by it)

ASSUME BundleAssumption == \A p \in Products :
  /\ Valid(p.forged) /\ HasTensors(p.ckpt, p.forged)
  /\ p.forged.heads \in Heads /\ p.forged.dim \in Nat \ {0}
  /\ p.forged.kv \in Nat /\ p.forged.layers \in Nat
  /\ \A a \in p.commands : a.heads \in Heads /\ a.preset \in {"none", "tiny", "paper", "seven"}
  /\ Len(p.weights) \in Nat \ {0} /\ DOMAIN p.weights = 1 .. Len(p.weights)
  /\ \A v \in DOMAIN p.weights, i \in 1 .. 2 : IsRow(p.weights[v][i])

VARIABLES
  product,   \* a member of Products, which never changes
  version,   \* the version in the checkpoint
  forge,     \* busy: a forge process is writing; save: the version it writes
  file,      \* the items of the bundle
  proc,      \* pc: "off", "probe", "reading", "loaded" or "up"; args; got: the
             \* items read; replaced: a forge truncated the file meanwhile
  model

bundleVars == <<product, version, forge, file, proc, model>>

NoCommand == [bin |-> "none", preset |-> "none", dim |-> 0, heads |-> 0, layers |-> 0,
              variant |-> "none", seq_len |-> 0, n_sup |-> 0, adaptive |-> FALSE,
              deq |-> FALSE, kernels |-> FALSE, path |-> "none"]
NoModel == [cfg |-> Default, live |-> <<>>, pack |-> <<>>]
Off     == [pc |-> "off", args |-> NoCommand, got |-> <<>>, replaced |-> FALSE]

(* The two rows of a version stand for different tensors.                   *)
RowOf(v, n) == product.weights[v][IF n[2] \in {"token", "fc1", "qo", "tup", "up"} THEN 1 ELSE 2]
-----------------------------------------------------------------------------
(* The named architectures, and the configurations that the binaries make.  *)
Preset == [tiny  |-> [dim |-> 32,  heads |-> 4, layers |-> 2],
           paper |-> [dim |-> 256, heads |-> 8, layers |-> 2],
           seven |-> [dim |-> 448, heads |-> 8, layers |-> 2]]

resolve(a) ==
  LET arch == IF a.preset = "none" THEN a ELSE Preset[a.preset]
  IN [Default EXCEPT !.dim = arch.dim, !.heads = arch.heads, !.layers = arch.layers]

ForgeConfig(a) == [resolve(a) EXCEPT !.max_seq = a.max_seq]

ServerConfig(a) ==
  [resolve(a) EXCEPT !.variant = a.variant, !.max_seq = 3 * a.seq_len,
                     !.adaptive = a.adaptive, !.deq = a.deq, !.n_sup = a.n_sup]

EvalConfig(a) == [resolve(a) EXCEPT !.max_seq = 2700, !.deq = a.deq]

FallbackConfig(a) == IF a.bin = "server" THEN ServerConfig(a) ELSE EvalConfig(a)

(* What TrmqHeader keeps; the rest of the configuration is the default.     *)
FromHeader(c, deq) ==
  [Default EXCEPT !.dim = c.dim, !.heads = c.heads, !.max_seq = c.max_seq,
                  !.layers = c.layers, !.n_sup = c.n_sup, !.head = c.head, !.deq = deq]
-----------------------------------------------------------------------------
(* save_trmq10: 2-D tensors whose rows fill bytes are quantized, then come  *)
(* the others.  Every section is preceded by its length.                    *)
can_pack(c, n) == Packable(c, n) /\ Shape(c, n)[1] > 0

TensorsThat(c, packed) ==
  LET all == TensorSeq(c)
      among[i \in 0 .. Len(all)] ==      \* the first i
        IF i = 0 THEN <<>>
        ELSE IF can_pack(c, all[i]) = packed THEN Append(among[i - 1], all[i]) ELSE among[i - 1]
  IN among[Len(all)]

Layout(c) ==
  LET item(kind, n) == [kind |-> kind, name |-> n]
      mark(kind)    == <<item(kind, <<0, kind>>)>>
      section(kind, names) == [i \in DOMAIN names |-> item(kind, names[i])]
  IN mark("magic") \o mark("header")
       \o mark("n_q")  \o section("q", TensorsThat(c, TRUE))
       \o mark("n_fp") \o section("fp", TensorsThat(c, FALSE))

Stamped(item, v) == [kind |-> item.kind, name |-> item.name, version |-> v]
Items(c, v) == LET items == Layout(c) IN [i \in DOMAIN items |-> Stamped(items[i], v)]

(* Training saves a new version of the checkpoint.                          *)
Train ==
  /\ version < Len(product.weights)
  /\ version' = version + 1
  /\ UNCHANGED <<product, forge, file, proc, model>>

(* File::create empties the file, whoever is reading it.                    *)
Create ==
  /\ ~ forge.busy
  /\ forge' = [busy |-> TRUE, save |-> version]
  /\ file' = <<>>
  /\ proc' = [proc EXCEPT !.replaced = @ \/ (proc.pc = "reading" /\ proc.got # <<>>)]
  /\ UNCHANGED <<product, version, model>>

Write ==
  /\ forge.busy
  /\ LET items == Items(product.forged, forge.save)
     IN /\ Len(file) < Len(items)
        /\ file' = Append(file, items[Len(file) + 1])
  /\ UNCHANGED <<product, version, forge, proc, model>>

(* Done, failed or killed, with what has been flushed.                      *)
ForgeExits ==
  /\ forge.busy
  /\ forge' = [forge EXCEPT !.busy = FALSE]
  /\ UNCHANGED <<product, version, file, proc, model>>
-----------------------------------------------------------------------------
Exit ==
  /\ proc.pc # "off"
  /\ proc' = Off /\ model' = NoModel

Launch ==
  /\ proc.pc = "off"
  /\ \E a \in product.commands : proc' = [Off EXCEPT !.pc = "probe", !.args = a]
  /\ UNCHANGED <<product, version, forge, file, model>>

(* is_trmq10: the magic decides.  What has none is read as safetensors,     *)
(* with the configuration of the command line.                              *)
is_trmq10 == proc.args.path = "bundle" /\ file # <<>>

Probe ==
  /\ proc.pc = "probe" /\ is_trmq10
  /\ proc' = [proc EXCEPT !.pc = "reading"]
  /\ UNCHANGED <<product, version, forge, file, model>>

LoadCheckpoint ==
  /\ proc.pc = "probe" /\ proc.args.path = "checkpoint"
  /\ LET c == FallbackConfig(proc.args)
     IN /\ Valid(c) /\ HasTensors(product.ckpt, c)
        /\ model' = load_safetensors(c, [n \in Tensors(product.ckpt) |-> RowOf(version, n)])
  /\ proc' = [proc EXCEPT !.pc = "loaded"]
  /\ UNCHANGED <<product, version, forge, file>>

ProbeFails ==
  /\ proc.pc = "probe" /\ ~ is_trmq10
  /\ proc.args.path = "checkpoint" =>
       LET c == FallbackConfig(proc.args)
       IN ~ (Valid(c) /\ HasTensors(product.ckpt, c))
  /\ Exit
  /\ UNCHANGED <<product, version, forge, file>>

(* load_trmq10 reads on from where it is, in the file as it is now.         *)
AnyRead(got) == Len(got) > 1                     \* mutant of AllRead
AllRead(got) == Len(got) = Len(Layout(product.forged))

ReadItem ==
  /\ proc.pc = "reading" /\ ~ AllRead(proc.got)
  /\ Len(proc.got) < Len(file)
  /\ proc' = [proc EXCEPT !.got = Append(@, file[Len(@) + 1])]
  /\ UNCHANGED <<product, version, forge, file, model>>

ReadFails ==
  /\ proc.pc = "reading" /\ ~ AllRead(proc.got)
  /\ Len(proc.got) >= Len(file)
  /\ Exit
  /\ UNCHANGED <<product, version, forge, file>>

(* apply_named: every stored tensor has its place in the model.             *)
NameOnly(stored, c) ==                           \* mutant of Known
  Tensors(stored) \subseteq Tensors(c)
Known(stored, c) ==
  \A n \in Tensors(stored) : n \in Tensors(c) /\ Shape(stored, n) = Shape(c, n)

Loaded(got, c) ==
  LET items == {got[i] : i \in DOMAIN got}
      names(kind) == {i.name : i \in {j \in items : j.kind = kind}}
      row(n)  == RowOf((CHOOSE i \in items : i.name = n).version, n)
      packs   == [n \in names("q") |-> quantize_rowwise_ternary(row(n))]
      live(n) == IF n \in names("q") THEN unpack_ternary(packs[n])
                 ELSE IF n \in names("fp") THEN row(n) ELSE Random
  IN apply_ternary_packs([New(c) EXCEPT !.live = [n \in Tensors(c) |-> live(n)]], packs)

Build ==
  /\ proc.pc = "reading" /\ AllRead(proc.got)
  /\ LET c == FromHeader(product.forged, proc.args.deq)
     IN /\ Valid(c) /\ Known(product.forged, c)
        /\ model' = Loaded(proc.got, c)
  /\ proc' = [proc EXCEPT !.pc = "loaded", !.got = <<>>]
  /\ UNCHANGED <<product, version, forge, file>>

BuildFails ==
  /\ proc.pc = "reading" /\ AllRead(proc.got)
  /\ LET c == FromHeader(product.forged, proc.args.deq)
     IN ~ (Valid(c) /\ Known(product.forged, c))
  /\ Exit
  /\ UNCHANGED <<product, version, forge, file>>

(* server --kernels packs a model that came without packs.                  *)
Pack ==
  /\ proc.pc = "loaded"
  /\ model' = IF proc.args.kernels /\ packed_linear_count(model) = 0
                THEN pack_from_weights(model) ELSE model
  /\ proc' = [proc EXCEPT !.pc = "up"]
  /\ UNCHANGED <<product, version, forge, file>>

InitBundle ==
  /\ product \in Products /\ version = 1
  /\ forge = [busy |-> FALSE, save |-> 1] /\ file = <<>>
  /\ proc = Off /\ model = NoModel

ForgeStep == Train \/ Create \/ Write \/ ForgeExits
LoadStep  == \/ Launch \/ Probe \/ LoadCheckpoint \/ ProbeFails \/ ReadItem
             \/ ReadFails \/ Build \/ BuildFails \/ Pack
-----------------------------------------------------------------------------
(* The types of what is stored and loaded: the bytes of a pack are bytes.   *)
TypeOK ==
  /\ product \in Products
  /\ version \in 1 .. Len(product.weights)
  /\ forge \in [busy : BOOLEAN, save : 1 .. Len(product.weights)]
  /\ Len(file) <= Len(Layout(product.forged))
  /\ LET items == Items(product.forged, forge.save)
     IN \A i \in DOMAIN file : file[i] = items[i]
  /\ proc.pc \in {"off", "probe", "reading", "loaded", "up"}
  /\ proc.args \in product.commands \cup {NoCommand} /\ proc.replaced \in BOOLEAN
  /\ Len(proc.got) <= Len(Layout(product.forged))
  /\ model = NoModel <=> proc.pc \in {"off", "probe", "reading"}
  /\ model # NoModel =>
       /\ Valid(model.cfg)
       /\ DOMAIN model.live = Tensors(model.cfg) /\ DOMAIN model.pack = Linears(model.cfg)
       /\ \A n \in Linears(model.cfg) : \A k \in DOMAIN model.pack[n].packed :
            model.pack[n].packed[k] \in 0 .. 255

HasModel     == proc.pc \in {"loaded", "up"}
FromBundle   == HasModel /\ proc.args.path = "bundle"

(* A bundle that no other forge replaced while it was read is one whole     *)
(* save, although it was written in place, by a process that may have been  *)
(* killed or still be writing: every tensor of the model is of that save,   *)
(* none is left at random.                                                  *)
StoredRow(v, n) == IF can_pack(product.forged, n)
                     THEN unpack_ternary(quantize_rowwise_ternary(RowOf(v, n)))
                     ELSE RowOf(v, n)
LoadedIsOneSave ==
  FromBundle /\ ~ proc.replaced =>
    \E v \in 1 .. version : \A n \in Tensors(model.cfg) : model.live[n] = StoredRow(v, n)

(* The header holds a part of the configuration only.  Whatever the forged  *)
(* model was, the loaded one has its tensors and shapes, its heads, its     *)
(* sequence length and its cycles, or the load was refused.                 *)
LoadKeepsModel ==
  FromBundle =>
    LET c == model.cfg
        f == product.forged
    IN /\ Tensors(c) = Tensors(f) /\ \A n \in Tensors(f) : Shape(c, n) = Shape(f, n)
       /\ c.heads = f.heads /\ kv_heads(c) = kv_heads(f)
       /\ c.variant = f.variant /\ c.n_sup = f.n_sup
       /\ c.variant = "transformer" => c.max_seq = f.max_seq

(* What a linear multiplies with, on either path, once a model is up: if it *)
(* is packed, the weights of a trained version quantized once, also when    *)
(* they have been through a bundle, which are the ones ternary_ste trained  *)
(* with as long as it did not clamp their scale; if not, the trained ones.  *)
InRange(row) == ~ (Alpha(row).num > MaxAlpha * Alpha(row).den)
ServesTernaryWeights ==
  proc.pc = "up" => \A n \in Linears(model.cfg) : \E v \in 1 .. version :
    LET row == RowOf(v, n)
    IN IF is_packed(model, n)
         THEN /\ KernelRow(model.pack[n]) = Scaled(Rounded(row, Alpha(row)), Alpha(row))
              /\ InRange(row) => KernelRow(model.pack[n]) = ternary_ste(row)
         ELSE model.live[n] = row
=============================================================================
