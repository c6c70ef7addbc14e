---------------------------- MODULE BundleProofs ----------------------------
(***************************************************************************)
(* Packing and decoding rows of every length (Ternary); what a bundle      *)
(* holds while it is written and read, and what a process makes of it      *)
(* (Bundle), for every set of products.                                    *)
(***************************************************************************)
EXTENDS Bundle, FiniteSetTheorems, SequenceTheorems, TLAPS

(* The four codes of a byte, read back.                                     *)
LEMMA ByteOfCodes ==
  ASSUME NEW a \in 0 .. 2, NEW b \in 0 .. 2, NEW c \in 0 .. 2, NEW d \in 0 .. 2
  PROVE  LET byte == a + 4 * b + 16 * c + 64 * d
         IN /\ (byte \div 1) % 4 = a /\ (byte \div 4) % 4 = b
            /\ (byte \div 16) % 4 = c /\ (byte \div 64) % 4 = d
            /\ byte \in 0 .. 255
OBVIOUS

(* Reading place i of the bytes made from codes gives the i-th code.        *)
LEMMA ReadBack ==
  ASSUME NEW n \in Nat, n % 4 = 0, NEW codes \in [1 .. n -> 0 .. 2],
         NEW pack, pack.packed = PackBytes(codes)
  PROVE  /\ Places(pack) = 1 .. n
         /\ \A i \in 1 .. n : CodeAt(pack, i) = codes[i]
<1> DEFINE m == n \div 4
           bytes == PackBytes(codes)
           byte(k) == codes[4*k - 3] + 4 * codes[4*k - 2] + 16 * codes[4*k - 1]
                        + 64 * codes[4*k]
<1>1. m \in Nat /\ n = 4 * m
  OBVIOUS
<1>2. codes \in Seq(0 .. 2) /\ Len(codes) = n
  OBVIOUS
<1>3. bytes = [k \in 1 .. m |-> byte(k)]
  BY <1>2 DEF PackBytes
<1>4. Len(bytes) = m
  <2> HIDE DEF bytes, byte, m
  <2> QED
    BY <1>1, <1>3
<1>5. Places(pack) = 1 .. n
  BY <1>1, <1>4 DEF Places
<1>6. ASSUME NEW i \in 1 .. n PROVE CodeAt(pack, i) = codes[i]
  <2> DEFINE k == ((i - 1) \div 4) + 1
             r == (i - 1) % 4
  <2>1. k \in 1 .. m /\ r \in 0 .. 3 /\ i = 4 * k - 3 + r
    BY <1>1
  <2>2. /\ codes[4*k - 3] \in 0 .. 2 /\ codes[4*k - 2] \in 0 .. 2
        /\ codes[4*k - 1] \in 0 .. 2 /\ codes[4*k] \in 0 .. 2
    BY <1>1, <2>1
  <2>3. bytes[k] = byte(k)
    BY <1>3, <2>1
  <2>4. CodeAt(pack, i) = (byte(k) \div Shift[r + 1]) % 4
    BY <2>3 DEF CodeAt
  <2> DEFINE a == codes[4*k - 3]
             b == codes[4*k - 2]
             c == codes[4*k - 1]
             d == codes[4*k]
  <2>5. /\ (byte(k) \div 1) % 4 = a /\ (byte(k) \div 4) % 4 = b
        /\ (byte(k) \div 16) % 4 = c /\ (byte(k) \div 64) % 4 = d
    <3>1. a \in 0 .. 2 /\ b \in 0 .. 2 /\ c \in 0 .. 2 /\ d \in 0 .. 2
      BY <2>2
    <3> HIDE DEF a, b, c, d
    <3>2. LET v == a + 4 * b + 16 * c + 64 * d
          IN /\ (v \div 1) % 4 = a /\ (v \div 4) % 4 = b
             /\ (v \div 16) % 4 = c /\ (v \div 64) % 4 = d
      BY <3>1, ByteOfCodes
    <3> QED
      BY <3>2 DEF a, b, c, d
  <2> HIDE DEF byte, k, r
  <2>6. CASE r = 0 /\ codes[i] = a
    BY <2>4, <2>5, <2>6 DEF Shift
  <2>7. CASE r = 1 /\ codes[i] = b
    BY <2>4, <2>5, <2>7 DEF Shift
  <2>8. CASE r = 2 /\ codes[i] = c
    BY <2>4, <2>5, <2>8 DEF Shift
  <2>9. CASE r = 3 /\ codes[i] = d
    BY <2>4, <2>5, <2>9 DEF Shift
  <2>10. /\ r = 0 => i = 4*k - 3
         /\ r = 1 => i = 4*k - 2
         /\ r = 2 => i = 4*k - 1
         /\ r = 3 => i = 4*k
    <3>1. i \in Int /\ k \in Int /\ i = 4 * k - 3 + r
      BY <1>1, <2>1
    <3> QED
      BY <3>1
  <2> QED
    BY <2>1, <2>6, <2>7, <2>8, <2>9, <2>10
<1> QED
  BY <1>5, <1>6

(* Packing loses nothing: for every row, the kernels and unpack_ternary     *)
(* multiply with the rounded signs times the scale (quantize.rs).           *)
THEOREM PackIsLossless ==
  ASSUME NEW row, IsRow(row)
  PROVE  KernelRow(quantize_rowwise_ternary(row)) = Scaled(Rounded(row, Alpha(row)), Alpha(row))
<1> DEFINE n == Len(row.w)
           signs == Rounded(row, Alpha(row))
           codes == [i \in DOMAIN signs |-> signs[i] + 1]
           pack == quantize_rowwise_ternary(row)
<1>1. n \in Nat /\ n % 4 = 0 /\ DOMAIN row.w = 1 .. n
  <2>1. row.w \in Seq(Int) /\ Len(row.w) % 4 = 0
    BY DEF IsRow
  <2>2. \A s \in Seq(Int) : Len(s) \in Nat /\ DOMAIN s = 1 .. Len(s)
    OBVIOUS
  <2> QED
    BY <2>1, <2>2
<1>2. DOMAIN signs = 1 .. n /\ \A i \in 1 .. n : signs[i] \in {-1, 0, 1}
  BY <1>1 DEF Rounded
<1>3. codes \in [1 .. n -> 0 .. 2]
  <2> HIDE DEF signs
  <2> QED
    BY <1>2
<1>4. pack.packed = PackBytes(codes) /\ pack.alpha = Alpha(row)
  BY DEF quantize_rowwise_ternary
<1> HIDE DEF pack, n
<1>5. Places(pack) = 1 .. n /\ \A i \in 1 .. n : CodeAt(pack, i) = codes[i]
  BY <1>1, <1>3, <1>4, ReadBack
<1>6. ASSUME NEW i \in 1 .. n PROVE unpack_w(pack, i) = signs[i]
  <2>1. CodeAt(pack, i) = signs[i] + 1
    BY <1>2, <1>5
  <2> HIDE DEF signs
  <2> QED
    BY <1>2, <2>1 DEF unpack_w
<1>7. [i \in Places(pack) |-> unpack_w(pack, i)] = [i \in 1 .. n |-> signs[i]]
  BY <1>5, <1>6
<1>8. signs = [i \in 1 .. n |-> signs[i]]
  BY <1>1 DEF Rounded
<1> HIDE DEF signs
<1>9. KernelRow(pack) = Scaled(signs, Alpha(row))
  BY <1>4, <1>7, <1>8 DEF KernelRow
<1> QED
  BY <1>9 DEF signs, pack
-----------------------------------------------------------------------------
(* Bundle: which configurations a process can have in memory, and what it   *)
(* loads from a bundle.                                                     *)

(* A configuration whose two head mappings agree.                           *)
Servable(c) == c.kv = 0 /\ c.heads \in Heads /\ c.layers = 2

LEMMA ResolveKeeps ==
  ASSUME NEW a, a.heads \in Heads, a.preset \in {"none", "tiny", "paper", "seven"}
  PROVE  \E d, l : \E h \in Heads :
           resolve(a) = [Default EXCEPT !.dim = d, !.heads = h, !.layers = l]
<1> DEFINE arch == IF a.preset = "none" THEN a ELSE Preset[a.preset]
<1>1. arch.heads \in Heads
  BY DEF Preset, Heads
<1>2. resolve(a) = [Default EXCEPT !.dim = arch.dim, !.heads = arch.heads,
                                   !.layers = arch.layers]
  BY DEF resolve
<1> HIDE DEF arch
<1> QED
  BY <1>1, <1>2

(* Whatever a process makes a configuration from, a valid one is servable.  *)
LEMMA FallbackServable ==
  ASSUME NEW a, a.heads \in Heads, a.preset \in {"none", "tiny", "paper", "seven"},
         Valid(FallbackConfig(a))
  PROVE  Servable(FallbackConfig(a))
<1> DEFINE r == resolve(a)
           c == FallbackConfig(a)
<1>1. PICK d, l : \E h \in Heads :
        r = [Default EXCEPT !.dim = d, !.heads = h, !.layers = l]
  BY ResolveKeeps
<1>2. PICK h \in Heads : r = [Default EXCEPT !.dim = d, !.heads = h, !.layers = l]
  BY <1>1
<1>3. c.kv = 0 /\ c.deep = FALSE /\ c.heads = h
  <2>1. CASE a.bin = "server"
    <3>1. c = [r EXCEPT !.variant = a.variant, !.max_seq = 3 * a.seq_len,
                        !.adaptive = a.adaptive, !.deq = a.deq, !.n_sup = a.n_sup]
      BY <2>1 DEF FallbackConfig, ServerConfig
    <3> HIDE DEF r, c
    <3> QED
      BY <1>2, <3>1 DEF Default
  <2>2. CASE a.bin # "server"
    <3>1. c = [r EXCEPT !.max_seq = 2700, !.deq = a.deq]
      BY <2>2 DEF FallbackConfig, EvalConfig
    <3> HIDE DEF r, c
    <3> QED
      BY <1>2, <3>1 DEF Default
  <2> QED
    BY <2>1, <2>2
<1>4. Valid(c)
  OBVIOUS
<1> HIDE DEF c
<1>5. Servable(c)
  BY <1>3, <1>4 DEF Servable, Valid
<1> QED
  BY <1>5 DEF c

LEMMA HeaderServable ==
  ASSUME NEW f, NEW d, f.heads \in Heads, Valid(FromHeader(f, d))
  PROVE  Servable(FromHeader(f, d))
BY DEF FromHeader, Default, Servable, Valid
-----------------------------------------------------------------------------
Elements(s) == {s[i] : i \in DOMAIN s}

LEMMA ElementsOfConcat ==
  ASSUME NEW S, NEW s \in Seq(S), NEW t \in Seq(S)
  PROVE  Elements(s \o t) = Elements(s) \cup Elements(t)
<1> DEFINE u == s \o t
<1>1. /\ DOMAIN s = 1 .. Len(s) /\ DOMAIN t = 1 .. Len(t)
      /\ Len(s) \in Nat /\ Len(t) \in Nat
  OBVIOUS
<1>2. /\ DOMAIN u = 1 .. Len(s) + Len(t)
      /\ \A i \in 1 .. Len(s) : u[i] = s[i]
      /\ \A i \in 1 .. Len(t) : u[Len(s) + i] = t[i]
  BY ConcatProperties
<1> HIDE DEF u
<1>3. ASSUME NEW i \in DOMAIN u
      PROVE  u[i] \in {s[j] : j \in DOMAIN s} \cup {t[j] : j \in DOMAIN t}
  <2>1. CASE i <= Len(s)
    BY <1>1, <1>2, <2>1
  <2>2. CASE ~ (i <= Len(s))
    <3>1. i - Len(s) \in 1 .. Len(t) /\ u[i] = t[i - Len(s)]
      BY <1>1, <1>2, <2>2
    <3> QED
      BY <1>1, <3>1
  <2> QED
    BY <2>1, <2>2
<1>4. ASSUME NEW j \in DOMAIN s PROVE s[j] \in {u[i] : i \in DOMAIN u}
  BY <1>1, <1>2
<1>5. ASSUME NEW j \in DOMAIN t PROVE t[j] \in {u[i] : i \in DOMAIN u}
  <2>1. Len(s) + j \in DOMAIN u /\ u[Len(s) + j] = t[j]
    BY <1>1, <1>2
  <2> QED
    BY <2>1
<1> QED
  BY <1>3, <1>4, <1>5 DEF u, Elements

(* The tensors, without their order.                                        *)
Blocks(c) == {BlockTensors(c)[i] : i \in 1 .. 4 * c.layers}
Halts(c)  == IF c.head THEN {<<0, "fc1">>, <<0, "fc2">>} ELSE {}

LEMMA TensorsAre ==
  ASSUME NEW c, c.layers = 2
  PROVE  Tensors(c) = {<<0, "token">>, <<0, "norm">>} \cup Halts(c) \cup Blocks(c)
<1> DEFINE S == {<<0, "token">>, <<0, "norm">>} \cup Halts(c) \cup Blocks(c)
           token == <<<<0, "token">>>>
           head  == HeadTensors(c)
           block == BlockTensors(c)
           norm  == <<<<0, "norm">>>>
<1>1. /\ token \in Seq(S) /\ norm \in Seq(S)
      /\ Elements(token) = {<<0, "token">>} /\ Elements(norm) = {<<0, "norm">>}
  BY DEF Elements
<1>2. head \in Seq(S) /\ Elements(head) = Halts(c)
  <2>1. CASE c.head
    <3>1. head = <<<<0, "fc1">>, <<0, "fc2">>>> /\ Halts(c) = {<<0, "fc1">>, <<0, "fc2">>}
      BY <2>1 DEF HeadTensors, Halts
    <3> HIDE DEF head
    <3>2. DOMAIN head = 1 .. 2 /\ head[1] = <<0, "fc1">> /\ head[2] = <<0, "fc2">>
      BY <3>1
    <3>3. Elements(head) = {<<0, "fc1">>, <<0, "fc2">>}
      BY <3>2 DEF Elements
    <3> QED
      BY <3>1, <3>3
  <2>2. CASE ~ c.head
    BY <2>2 DEF HeadTensors, Halts, Elements
  <2> QED
    BY <2>1, <2>2
<1>3. block \in Seq(S) /\ Elements(block) = Blocks(c)
  <2>1. DOMAIN block = 1 .. 8 /\ 4 * c.layers = 8
    BY DEF BlockTensors
  <2>2. Elements(block) = Blocks(c)
    BY <2>1 DEF Blocks, Elements
  <2>3. block = [i \in 1 .. 8 |-> block[i]]
    BY <2>1 DEF BlockTensors
  <2>4. \A i \in 1 .. 8 : block[i] \in S
    BY <2>1 DEF Blocks
  <2> HIDE DEF block, S
  <2> QED
    BY <2>2, <2>3, <2>4
<1> HIDE DEF S, token, head, block, norm
<1> DEFINE two == token \o head
           three == two \o block
<1>4. two \in Seq(S) /\ Elements(two) = Elements(token) \cup Elements(head)
  BY <1>1, <1>2, ConcatProperties, ElementsOfConcat
<1> HIDE DEF two
<1>5. three \in Seq(S) /\ Elements(three) = Elements(two) \cup Elements(block)
  BY <1>3, <1>4, ConcatProperties, ElementsOfConcat
<1> HIDE DEF three
<1>6. Elements(three \o norm) = Elements(three) \cup Elements(norm)
  BY <1>1, <1>5, ElementsOfConcat
<1>7. Tensors(c) = Elements(three \o norm)
  BY DEF Tensors, TensorSeq, Elements, token, head, block, norm, two, three
<1> QED
  BY <1>1, <1>2, <1>3, <1>4, <1>5, <1>6, <1>7 DEF S

(* The tensors of a transformer block and of a mixer block.                 *)
LEMMA BlocksAre ==
  ASSUME NEW c, c.layers = 2
  PROVE  Blocks(c) = {<<l, r>> : l \in 1 .. 2, r \in Elements(Roles(c))}
<1>1. Roles(c) = <<Roles(c)[1], Roles(c)[2], Roles(c)[3], Roles(c)[4]>>
      /\ DOMAIN Roles(c) = 1 .. 4
  BY DEF Roles
<1>2. Elements(Roles(c)) = {Roles(c)[j] : j \in 1 .. 4}
  BY <1>1 DEF Elements
<1>3. Blocks(c) = {<<((i - 1) \div 4) + 1, Roles(c)[((i - 1) % 4) + 1]>> : i \in 1 .. 8}
  BY DEF Blocks, BlockTensors
<1>4. \A i \in 1 .. 8 : ((i - 1) \div 4) + 1 \in 1 .. 2 /\ ((i - 1) % 4) + 1 \in 1 .. 4
  OBVIOUS
<1>5. \A l \in 1 .. 2, j \in 1 .. 4 :
        /\ 4 * l + j - 4 \in 1 .. 8
        /\ (((4 * l + j - 4) - 1) \div 4) + 1 = l /\ (((4 * l + j - 4) - 1) % 4) + 1 = j
  OBVIOUS
<1>6. ASSUME NEW l \in 1 .. 2, NEW j \in 1 .. 4 PROVE <<l, Roles(c)[j]>> \in Blocks(c)
  BY <1>3, <1>5
<1>7. ASSUME NEW b \in Blocks(c) PROVE b \in {<<l, Roles(c)[j]>> : l \in 1 .. 2, j \in 1 .. 4}
  BY <1>3, <1>4
<1> QED
  BY <1>2, <1>6, <1>7

LEMMA HeaderIs ==
  ASSUME NEW f, NEW d
  PROVE  LET c == FromHeader(f, d)
         IN /\ c.dim = f.dim /\ c.heads = f.heads /\ c.max_seq = f.max_seq
            /\ c.layers = f.layers /\ c.n_sup = f.n_sup /\ c.head = f.head
            /\ c.kv = 0 /\ c.variant = "transformer" /\ c.deep = FALSE
BY DEF FromHeader, Default

(* A positive head_dim, since the heads divide the width.                   *)
LEMMA HeadDimPositive ==
  ASSUME NEW c, c.dim \in Nat \ {0}, c.heads \in Nat \ {0}, c.dim % c.heads = 0
  PROVE  head_dim(c) \in Nat \ {0}
<1> DEFINE n == c.heads
           a == c.dim
<1> HIDE DEF n, a
<1>1. ASSUME NEW x \in Nat \ {0}, NEW y \in Nat \ {0}, x % y = 0
      PROVE  x \div y \in Nat \ {0}
  <2>1. x = y * (x \div y) + (x % y) /\ x \div y \in Int
    OBVIOUS
  <2>2. x \div y # 0
    BY <1>1, <2>1
  <2>3. x \div y >= 0
    OBVIOUS
  <2> QED
    BY <2>1, <2>2, <2>3
<1> QED
  BY <1>1 DEF head_dim

LEMMA KnownIsSame ==
  ASSUME NEW f, NEW d, Valid(f), f.heads \in Heads, f.dim \in Nat \ {0}, f.kv \in Nat,
         Valid(FromHeader(f, d)), Known(f, FromHeader(f, d))
  PROVE  LET c == FromHeader(f, d)
         IN /\ Tensors(c) = Tensors(f) /\ \A n \in Tensors(f) : Shape(c, n) = Shape(f, n)
            /\ c.heads = f.heads /\ kv_heads(c) = kv_heads(f)
            /\ c.variant = f.variant /\ c.n_sup = f.n_sup
            /\ c.variant = "transformer" => c.max_seq = f.max_seq
<1> DEFINE c == FromHeader(f, d)
<1>1. /\ c.dim = f.dim /\ c.heads = f.heads /\ c.max_seq = f.max_seq
      /\ c.layers = f.layers /\ c.n_sup = f.n_sup /\ c.head = f.head
      /\ c.kv = 0 /\ c.variant = "transformer" /\ c.deep = FALSE
  BY HeaderIs
<1>2. Valid(c) /\ \A n \in Tensors(f) : n \in Tensors(c) /\ Shape(c, n) = Shape(f, n)
  BY DEF Known
<1> HIDE DEF c
<1>3. c.layers = 2 /\ f.layers = 2
  BY <1>1, <1>2 DEF Valid
<1>4. /\ Tensors(c) = {<<0, "token">>, <<0, "norm">>} \cup Halts(c) \cup Blocks(c)
      /\ Tensors(f) = {<<0, "token">>, <<0, "norm">>} \cup Halts(f) \cup Blocks(f)
  BY <1>3, TensorsAre
<1>5. /\ Blocks(c) = {<<l, r>> : l \in 1 .. 2, r \in Elements(Roles(c))}
      /\ Blocks(f) = {<<l, r>> : l \in 1 .. 2, r \in Elements(Roles(f))}
  BY <1>3, BlocksAre
<1>6. Elements(Roles(c)) = {"qo", "kv", "up", "down"}
  BY <1>1 DEF Roles, Elements
<1>7. Halts(c) = Halts(f)
  BY <1>1 DEF Halts
<1>8. f.variant = "transformer"
  <2> SUFFICES ASSUME f.variant # "transformer" PROVE FALSE
    OBVIOUS
  <2>1. "tup" \in Elements(Roles(f))
    <3>1. Roles(f) = <<"tup", "tdown", "up", "down">>
      BY DEF Roles
    <3> QED
      BY <3>1 DEF Elements
  <2>2. <<1, "tup">> \in Tensors(c)
    BY <1>2, <1>4, <1>5, <2>1
  <2>3. \A n \in Tensors(c) : n[2] \in {"token", "norm", "fc1", "fc2", "qo", "kv", "up", "down"}
    BY <1>4, <1>5, <1>6 DEF Halts
  <2> QED
    BY <2>2, <2>3
<1>9. Tensors(c) = Tensors(f)
  BY <1>1, <1>4, <1>5, <1>7, <1>8 DEF Roles
<1>10. kv_heads(c) = kv_heads(f)
  <2>1. <<1, "kv">> \in Tensors(f)
    BY <1>4, <1>5, <1>6, <1>9
  <2>2. Shape(c, <<1, "kv">>) = Shape(f, <<1, "kv">>)
    BY <1>2, <2>1
  <2>3. \A e : Shape(e, <<1, "kv">>) = <<kv_heads(e) * head_dim(e), e.dim>>
    BY DEF Shape
  <2>4. kv_heads(c) * head_dim(c) = kv_heads(f) * head_dim(f)
    BY <2>2, <2>3
  <2>5. head_dim(c) = head_dim(f) /\ head_dim(f) \in Nat \ {0}
    <3>1. head_dim(c) = head_dim(f)
      BY <1>1 DEF head_dim
    <3> QED
      BY <3>1, HeadDimPositive DEF Valid, Heads
  <2>6. kv_heads(c) \in Nat /\ kv_heads(f) \in Nat
    BY <1>1 DEF kv_heads, Heads
  <2>7. \A p, q \in Nat, h \in Nat \ {0} : p * h = q * h => p = q
    OBVIOUS
  <2> QED
    BY <2>4, <2>5, <2>6, <2>7
<1> QED
  BY <1>1, <1>2, <1>8, <1>9, <1>10 DEF c
-----------------------------------------------------------------------------
(* The process and its model: what it read came from a bundle of the        *)
(* product, and no command line and no header gives grouped heads or        *)
(* another depth.                                                           *)
ProcessInv ==
  /\ product \in Products
  /\ proc = [pc |-> proc.pc, args |-> proc.args, got |-> proc.got,
             replaced |-> proc.replaced]
  /\ model = [cfg |-> model.cfg, live |-> model.live, pack |-> model.pack]
  /\ proc.pc \in {"off", "probe", "reading", "loaded", "up"}
  /\ proc.pc # "off" => proc.args \in product.commands
  /\ HasModel => Servable(model.cfg)
  /\ FromBundle => /\ Valid(model.cfg) /\ Known(product.forged, model.cfg)
                   /\ \E deq : model.cfg = FromHeader(product.forged, deq)

LEMMA InitProcess == InitBundle => ProcessInv
BY DEF InitBundle, ProcessInv, Off, NoModel, HasModel, FromBundle

LEMMA ForgeKeepsProcess ==
  ASSUME ProcessInv, ForgeStep
  PROVE  ProcessInv' /\ UNCHANGED model /\ proc'.pc = proc.pc
<1>1. /\ UNCHANGED <<product, model>>
      /\ proc' = [proc EXCEPT !.replaced = @ \/ (proc.pc = "reading" /\ proc.got # <<>>)]
           \/ proc' = proc
  BY DEF ForgeStep, Train, Create, Write, ForgeExits
<1>2. /\ proc'.pc = proc.pc /\ proc'.args = proc.args
      /\ proc' = [pc |-> proc'.pc, args |-> proc'.args, got |-> proc'.got,
                  replaced |-> proc'.replaced]
  BY <1>1 DEF ProcessInv
<1> QED
  BY <1>1, <1>2 DEF ProcessInv, HasModel, FromBundle

LEMMA OffKeeps ==
  ASSUME ProcessInv, UNCHANGED product, proc' = Off, model' = NoModel
  PROVE  ProcessInv'
BY DEF ProcessInv, Off, NoModel, HasModel, FromBundle

LEMMA CommandsKnown ==
  ASSUME ProcessInv, proc.pc # "off"
  PROVE  proc.args.heads \in Heads /\ proc.args.preset \in {"none", "tiny", "paper", "seven"}
BY BundleAssumption DEF ProcessInv

LEMMA LoadingKeepsProcess ==
  ASSUME ProcessInv, LoadStep
  PROVE  ProcessInv'
<1> USE DEF ProcessInv, HasModel, FromBundle
<1>1. CASE Launch
  BY <1>1 DEF Launch, Off
<1>2. CASE Probe
  BY <1>2 DEF Probe
<1>3. CASE LoadCheckpoint
  <2> DEFINE c == FallbackConfig(proc.args)
  <2>1. Servable(c)
    BY <1>3, CommandsKnown, FallbackServable DEF LoadCheckpoint
  <2>2. /\ model' = [cfg |-> model'.cfg, live |-> model'.live, pack |-> model'.pack]
        /\ model'.cfg = c
    <3> DEFINE rows == [n \in Tensors(product.ckpt) |-> RowOf(version, n)]
    <3>1. model' = load_safetensors(c, rows)
      BY <1>3 DEF LoadCheckpoint
    <3> HIDE DEF c, rows
    <3> QED
      BY <3>1 DEF load_safetensors, New
  <2> HIDE DEF c
  <2> QED
    BY <1>3, <2>1, <2>2 DEF LoadCheckpoint
<1>4. CASE ProbeFails
  BY <1>4, OffKeeps DEF ProbeFails, Exit
<1>5. CASE ReadItem
  BY <1>5 DEF ReadItem
<1>6. CASE ReadFails
  BY <1>6, OffKeeps DEF ReadFails, Exit
<1>7. CASE Build
  <2> DEFINE c == FromHeader(product.forged, proc.args.deq)
  <2>1. Servable(c)
    BY <1>7, HeaderServable, BundleAssumption DEF Build
  <2>2. /\ model' = [cfg |-> model'.cfg, live |-> model'.live, pack |-> model'.pack]
        /\ model'.cfg = c
    <3>1. model' = Loaded(proc.got, c)
      BY <1>7 DEF Build
    <3> HIDE DEF c
    <3> QED
      BY <3>1 DEF Loaded, apply_ternary_packs, New
  <2>3. Valid(c) /\ Known(product.forged, c)
        /\ \E deq : c = FromHeader(product.forged, deq)
    BY <1>7 DEF Build
  <2> HIDE DEF c
  <2> QED
    BY <1>7, <2>1, <2>2, <2>3 DEF Build
<1>8. CASE BuildFails
  BY <1>8, OffKeeps DEF BuildFails, Exit
<1>9. CASE Pack
  <2>1. /\ model' = [cfg |-> model'.cfg, live |-> model'.live, pack |-> model'.pack]
        /\ model'.cfg = model.cfg
    BY <1>9 DEF Pack, pack_from_weights
  <2> QED
    BY <1>9, <2>1 DEF Pack
<1> QED
  BY <1>1, <1>2, <1>3, <1>4, <1>5, <1>6, <1>7, <1>8, <1>9 DEF LoadStep

(* Whatever model was forged, the invariant of the process says that the    *)
(* loaded one is the same model.                                            *)
LEMMA ProcessKeepsModel == ProcessInv => LoadKeepsModel
<1> SUFFICES ASSUME ProcessInv, FromBundle PROVE LoadKeepsModel
  BY DEF LoadKeepsModel
<1> DEFINE f == product.forged
<1>1. PICK deq : model.cfg = FromHeader(f, deq)
  BY DEF ProcessInv
<1>2. Valid(f) /\ f.heads \in Heads /\ f.dim \in Nat \ {0} /\ f.kv \in Nat
  BY BundleAssumption DEF ProcessInv
<1>3. Valid(FromHeader(f, deq)) /\ Known(f, FromHeader(f, deq))
  BY <1>1 DEF ProcessInv
<1> HIDE DEF f
<1>4. LET c == FromHeader(f, deq)
      IN /\ Tensors(c) = Tensors(f) /\ \A n \in Tensors(f) : Shape(c, n) = Shape(f, n)
         /\ c.heads = f.heads /\ kv_heads(c) = kv_heads(f)
         /\ c.variant = f.variant /\ c.n_sup = f.n_sup
         /\ c.variant = "transformer" => c.max_seq = f.max_seq
  BY <1>2, <1>3, KnownIsSame
<1> QED
  BY <1>1, <1>4 DEF LoadKeepsModel, f

-----------------------------------------------------------------------------
(* The layout of a file: which sections name which tensors.                 *)
LEMMA Induction ==
  ASSUME NEW S, 0 \in S, \A n \in Nat : n \in S => n + 1 \in S
  PROVE  Nat \subseteq S
<1> DEFINE R == {p \in Nat \X Nat : p[1] < p[2]}
<1> SUFFICES ASSUME Nat \ S # {} PROVE FALSE
  OBVIOUS
<1>1. IsWellFoundedOn(R, Nat)
  <2>1. R = OpToRel(<, Nat)
    BY DEF OpToRel
  <2> QED
    BY <2>1, NatLessThanWellFounded
<1>2. PICK x \in Nat \ S : \A y \in Nat \ S : <<y, x>> \notin R
  <2> HIDE DEF R
  <2> QED
    BY <1>1, WFMin
<1>3. \A y \in Nat \ S : ~ y < x
  BY <1>2
<1>4. x # 0 /\ x - 1 \in Nat /\ x - 1 < x /\ (x - 1) + 1 = x
  BY <1>2
<1> QED
  BY <1>3, <1>4

LEMMA AppendElements ==
  ASSUME NEW S, NEW s \in Seq(S), NEW e \in S
  PROVE  Append(s, e) \in Seq(S) /\ Elements(Append(s, e)) = Elements(s) \cup {e}
<1>1. /\ Append(s, e) \in Seq(S) /\ Len(Append(s, e)) = Len(s) + 1
      /\ \A i \in 1 .. Len(s) : Append(s, e)[i] = s[i]
      /\ Append(s, e)[Len(s) + 1] = e
  BY AppendProperties
<1>2. DOMAIN Append(s, e) = 1 .. Len(s) + 1 /\ DOMAIN s = 1 .. Len(s) /\ Len(s) \in Nat
  BY <1>1
<1>3. \A i \in 1 .. Len(s) + 1 : i \in 1 .. Len(s) \/ i = Len(s) + 1
  BY <1>2
<1>4. Len(s) + 1 \in 1 .. Len(s) + 1 /\ 1 .. Len(s) \subseteq 1 .. Len(s) + 1
  BY <1>2
<1> QED
  BY <1>1, <1>2, <1>3, <1>4 DEF Elements

LEMMA SectionIs ==
  ASSUME NEW c, NEW S, TensorSeq(c) \in Seq(S), NEW b \in BOOLEAN
  PROVE  /\ TensorsThat(c, b) \in Seq(S)
         /\ Elements(TensorsThat(c, b)) = {n \in Tensors(c) : can_pack(c, n) = b}
<1> DEFINE all == TensorSeq(c)
           L == Len(all)
           next(s, i) == IF can_pack(c, all[i]) = b THEN Append(s, all[i]) ELSE s
           Fun(f, n) == f = [i \in 0 .. n |-> IF i = 0 THEN <<>> ELSE next(f[i - 1], i)]
<1>1. L \in Nat /\ DOMAIN all = 1 .. L /\ \A i \in 1 .. L : all[i] \in S
  OBVIOUS
<1>2. TensorsThat(c, b) = (CHOOSE f : Fun(f, L))[L]
  BY DEF TensorsThat
<1> HIDE DEF all, L, next
<1>3. \E f : Fun(f, L)
  <2> DEFINE T == {n \in Nat : \E f : Fun(f, n)}
  <2>1. 0 \in T
    <3>1. Fun([i \in 0 .. 0 |-> <<>>], 0)
      OBVIOUS
    <3> QED
      BY <3>1
  <2>2. ASSUME NEW n \in Nat, n \in T PROVE n + 1 \in T
    <3>1. PICK f : Fun(f, n)
      BY <2>2
    <3> DEFINE g == [i \in 0 .. n + 1 |-> IF i = n + 1 THEN next(f[n], n + 1) ELSE f[i]]
    <3>2. \A i \in 0 .. n + 1 : g[i] = IF i = 0 THEN <<>> ELSE next(g[i - 1], i)
      <4> TAKE i \in 0 .. n + 1
      <4>1. CASE i = n + 1
        <5>1. g[i - 1] = f[n] /\ i # 0
          BY <4>1
        <5> QED
          BY <4>1, <5>1
      <4>2. CASE i # n + 1
        <5>1. i \in 0 .. n /\ g[i] = f[i] /\ (i # 0 => g[i - 1] = f[i - 1])
          BY <4>2
        <5>2. f[i] = IF i = 0 THEN <<>> ELSE next(f[i - 1], i)
          BY <3>1, <5>1
        <5> HIDE DEF g
        <5> QED
          BY <5>1, <5>2
      <4> QED
        BY <4>1, <4>2
    <3>3. Fun(g, n + 1)
      <4>1. g = [i \in 0 .. n + 1 |-> g[i]]
        OBVIOUS
      <4> HIDE DEF g
      <4> QED
        BY <3>2, <4>1
    <3> HIDE DEF g
    <3> QED
      BY <3>3
  <2> HIDE DEF T
  <2>3. L \in T
    BY <1>1, <2>1, <2>2, Induction
  <2> QED
    BY <2>3 DEF T
<1>4. PICK f : Fun(f, L) /\ TensorsThat(c, b) = f[L]
  BY <1>2, <1>3
<1>5. /\ f[0] = <<>>
      /\ \A i \in 1 .. L : f[i] = next(f[i - 1], i)
  <2>1. 0 \in 0 .. L /\ \A i \in 1 .. L : i \in 0 .. L /\ i # 0
    BY <1>1
  <2> QED
    BY <1>4, <2>1
<1> HIDE DEF Fun
<1> DEFINE Upto(n) == {all[i] : i \in {j \in 1 .. n : can_pack(c, all[j]) = b}}
           T == {n \in Nat : n <= L => f[n] \in Seq(S) /\ Elements(f[n]) = Upto(n)}
<1>6. 0 \in T
  <2>1. f[0] \in Seq(S) /\ Elements(f[0]) = {}
    BY <1>5 DEF Elements
  <2>2. Upto(0) = {}
    OBVIOUS
  <2> HIDE DEF Upto
  <2> QED
    BY <2>1, <2>2
<1>7. ASSUME NEW n \in Nat, n \in T PROVE n + 1 \in T
  <2> SUFFICES ASSUME n + 1 <= L
               PROVE  f[n + 1] \in Seq(S) /\ Elements(f[n + 1]) = Upto(n + 1)
    OBVIOUS
  <2>1. f[n] \in Seq(S) /\ Elements(f[n]) = Upto(n)
    BY <1>1, <1>7
  <2>2. n + 1 \in 1 .. L /\ f[n + 1] = next(f[n], n + 1)
    <3>1. n + 1 \in 1 .. L /\ (n + 1) - 1 = n
      BY <1>1
    <3> QED
      BY <1>5, <3>1
  <2>3. \A j \in 1 .. n + 1 : j \in 1 .. n \/ j = n + 1
    OBVIOUS
  <2>4. n + 1 \in 1 .. n + 1 /\ 1 .. n \subseteq 1 .. n + 1
    OBVIOUS
  <2>5. CASE can_pack(c, all[n + 1]) = b
    <3>1. Upto(n + 1) = Upto(n) \cup {all[n + 1]}
      BY <2>3, <2>4, <2>5
    <3>2. f[n + 1] = Append(f[n], all[n + 1])
      BY <2>2, <2>5 DEF next
    <3>3. all[n + 1] \in S
      BY <1>1, <2>2
    <3> HIDE DEF Upto, T
    <3>4. /\ Append(f[n], all[n + 1]) \in Seq(S)
          /\ Elements(Append(f[n], all[n + 1])) = Elements(f[n]) \cup {all[n + 1]}
      BY <2>1, <3>3, AppendElements
    <3> QED
      BY <2>1, <3>1, <3>2, <3>4
  <2>6. CASE can_pack(c, all[n + 1]) # b
    <3>1. Upto(n + 1) = Upto(n)
      BY <2>3, <2>4, <2>6
    <3>2. f[n + 1] = f[n]
      BY <2>2, <2>6 DEF next
    <3> QED
      BY <2>1, <3>1, <3>2
  <2> QED
    BY <2>5, <2>6
<1>8. f[L] \in Seq(S) /\ Elements(f[L]) = Upto(L)
  <2>1. L \in T
    <3> HIDE DEF T
    <3> QED
      BY <1>1, <1>6, <1>7, Induction
  <2> QED
    BY <1>1, <2>1
<1>9. Upto(L) = {n \in Tensors(c) : can_pack(c, n) = b}
  BY <1>1 DEF Tensors, all
<1> QED
  BY <1>4, <1>8, <1>9
LEMMA CanPackIsBoolean ==
  ASSUME NEW c, NEW n
  PROVE  can_pack(c, n) \in BOOLEAN
BY DEF can_pack, Packable

LEMMA TensorSeqType ==
  ASSUME NEW c, c.layers \in Nat
  PROVE  TensorSeq(c) \in Seq(Tensors(c)) /\ Len(TensorSeq(c)) > 0
<1> DEFINE Names == Nat \X {"token", "fc1", "fc2", "qo", "kv", "tup", "tdown", "up", "down", "norm"}
           token == <<<<0, "token">>>>
           head  == HeadTensors(c)
           block == BlockTensors(c)
           norm  == <<<<0, "norm">>>>
<1>1. token \in Seq(Names) /\ norm \in Seq(Names)
  OBVIOUS
<1>2. head \in Seq(Names)
  <2>1. <<0, "fc1">> \in Names /\ <<0, "fc2">> \in Names
    OBVIOUS
  <2> HIDE DEF Names
  <2>2. << >> \in Seq(Names) /\ <<<<0, "fc1">>, <<0, "fc2">>>> \in Seq(Names)
    BY <2>1
  <2> QED
    BY <2>2 DEF HeadTensors
<1>3. block \in Seq(Names)
  <2>1. \A j \in 1 .. 4 : Roles(c)[j] \in {"qo", "kv", "tup", "tdown", "up", "down"}
    BY DEF Roles
  <2>2. \A i \in 1 .. 4 * c.layers : ((i - 1) \div 4) + 1 \in Nat /\ ((i - 1) % 4) + 1 \in 1 .. 4
    OBVIOUS
  <2>3. \A i \in 1 .. 4 * c.layers :
          <<((i - 1) \div 4) + 1, Roles(c)[((i - 1) % 4) + 1]>> \in Names
    BY <2>1, <2>2
  <2>4. 4 * c.layers \in Nat
    OBVIOUS
  <2> HIDE DEF Names
  <2>5. ASSUME NEW n \in Nat, NEW b, b = [i \in 1 .. n |-> b[i]], \A i \in 1 .. n : b[i] \in Names
        PROVE  b \in Seq(Names)
    BY <2>5
  <2>6. /\ block = [i \in 1 .. 4 * c.layers |-> block[i]]
        /\ \A i \in 1 .. 4 * c.layers : block[i] \in Names
    BY <2>3 DEF BlockTensors
  <2> HIDE DEF block
  <2> QED
    BY <2>4, <2>5, <2>6
<1> HIDE DEF Names, token, head, block, norm
<1>4. /\ ((token \o head) \o block) \o norm \in Seq(Names)
      /\ Len(((token \o head) \o block) \o norm) > 0
  <2> DEFINE two == token \o head
             three == two \o block
  <2>1. two \in Seq(Names)
    BY <1>1, <1>2, ConcatProperties
  <2> HIDE DEF two
  <2>2. three \in Seq(Names)
    BY <1>3, <2>1, ConcatProperties
  <2> HIDE DEF three
  <2>3. /\ three \o norm \in Seq(Names) /\ Len(three \o norm) = Len(three) + Len(norm)
    BY <1>1, <2>2, ConcatProperties
  <2>4. Len(norm) = 1 /\ Len(three) \in Nat
    BY <2>2 DEF norm
  <2> QED
    BY <2>3, <2>4 DEF two, three
<1>5. TensorSeq(c) \in Seq(Names) /\ Len(TensorSeq(c)) > 0
  BY <1>4 DEF TensorSeq, token, head, block, norm
<1>6. TensorSeq(c) = [i \in 1 .. Len(TensorSeq(c)) |-> TensorSeq(c)[i]] /\ Len(TensorSeq(c)) \in Nat
      /\ DOMAIN TensorSeq(c) = 1 .. Len(TensorSeq(c))
  BY <1>5
<1>7. \A i \in 1 .. Len(TensorSeq(c)) : TensorSeq(c)[i] \in Tensors(c)
  BY <1>6 DEF Tensors
<1> QED
  BY <1>5, <1>6, <1>7

LEMMA TensorsFinite ==
  ASSUME NEW c, c.layers \in Nat
  PROVE  IsFiniteSet(Tensors(c)) /\ Tensors(c) # {}
<1> DEFINE s == TensorSeq(c)
<1>1. s \in [1 .. Len(s) -> Tensors(c)] /\ Len(s) \in Nat /\ DOMAIN s = 1 .. Len(s)
  BY TensorSeqType, LenProperties
<1>2. s \in Surjection(1 .. Len(s), Tensors(c))
  BY <1>1 DEF Surjection, Tensors
<1>3. IsFiniteSet(1 .. Len(s))
  BY <1>1, FS_Interval
<1>4. IsFiniteSet(Tensors(c))
  <2> HIDE DEF s
  <2> QED
    BY <1>2, <1>3, FS_Surjection
<1>5. Tensors(c) # {}
  <2>1. 1 \in DOMAIN s
    BY <1>1, TensorSeqType
  <2> QED
    BY <2>1 DEF Tensors
<1> QED
  BY <1>4, <1>5
(* The items of a file, without their order.                                *)
Item(kind, n)      == [kind |-> kind, name |-> n]
Marks              == {Item(k, <<0, k>>) : k \in {"magic", "header", "n_q", "n_fp"}}
Stored(c, kind, b) == {Item(kind, n) : n \in {t \in Tensors(c) : can_pack(c, t) = b}}

LEMMA SectionElements ==
  ASSUME NEW T, NEW names \in Seq(T), NEW kind, NEW S,
         \A n \in Elements(names) : Item(kind, n) \in S
  PROVE  LET s == [i \in DOMAIN names |-> Item(kind, names[i])]
         IN s \in Seq(S) /\ Elements(s) = {Item(kind, n) : n \in Elements(names)}
<1> DEFINE s == [i \in DOMAIN names |-> Item(kind, names[i])]
<1>1. DOMAIN names = 1 .. Len(names) /\ Len(names) \in Nat
  BY LenProperties
<1>2. \A i \in 1 .. Len(names) : Item(kind, names[i]) \in S
  BY <1>1 DEF Elements
<1>3. s \in Seq(S)
  BY <1>1, <1>2
<1>4. Elements(s) = {Item(kind, n) : n \in Elements(names)}
  BY DEF Elements
<1> QED
  BY <1>3, <1>4

LEMMA LayoutIs ==
  ASSUME NEW c, c.layers \in Nat
  PROVE  /\ Layout(c) = [i \in 1 .. Len(Layout(c)) |-> Layout(c)[i]]
         /\ Len(Layout(c)) \in Nat /\ DOMAIN Layout(c) = 1 .. Len(Layout(c))
         /\ Elements(Layout(c)) = Marks \cup Stored(c, "q", TRUE) \cup Stored(c, "fp", FALSE)
<1> DEFINE S == Marks \cup Stored(c, "q", TRUE) \cup Stored(c, "fp", FALSE)
           qs == TensorsThat(c, TRUE)
           fs == TensorsThat(c, FALSE)
           mark(k) == <<Item(k, <<0, k>>)>>
           q  == [i \in DOMAIN qs |-> Item("q", qs[i])]
           fp == [i \in DOMAIN fs |-> Item("fp", fs[i])]
           two   == mark("magic") \o mark("header")
           three == two \o mark("n_q")
           four  == three \o q
           five  == four \o mark("n_fp")
           six   == five \o fp
<1>1. /\ qs \in Seq(Tensors(c)) /\ Elements(qs) = {n \in Tensors(c) : can_pack(c, n) = TRUE}
      /\ fs \in Seq(Tensors(c)) /\ Elements(fs) = {n \in Tensors(c) : can_pack(c, n) = FALSE}
  <2>1. TensorSeq(c) \in Seq(Tensors(c)) /\ TRUE \in BOOLEAN /\ FALSE \in BOOLEAN
    BY TensorSeqType
  <2> QED
    BY <2>1, SectionIs
<1>2. Layout(c) = six
  BY DEF Layout, Item
<1> HIDE DEF qs, fs
<1>3. q \in Seq(S) /\ Elements(q) = Stored(c, "q", TRUE)
  <2>1. \A n \in Elements(qs) : Item("q", n) \in S
    BY <1>1 DEF Stored
  <2> HIDE DEF S
  <2>2. q \in Seq(S) /\ Elements(q) = {Item("q", n) : n \in Elements(qs)}
    BY <1>1, <2>1, SectionElements
  <2> QED
    BY <1>1, <2>2 DEF Stored
<1>4. fp \in Seq(S) /\ Elements(fp) = Stored(c, "fp", FALSE)
  <2>1. \A n \in Elements(fs) : Item("fp", n) \in S
    BY <1>1 DEF Stored
  <2> HIDE DEF S
  <2>2. fp \in Seq(S) /\ Elements(fp) = {Item("fp", n) : n \in Elements(fs)}
    BY <1>1, <2>1, SectionElements
  <2> QED
    BY <1>1, <2>2 DEF Stored
<1>5. ASSUME NEW k \in {"magic", "header", "n_q", "n_fp"}
      PROVE  mark(k) \in Seq(S) /\ Elements(mark(k)) = {Item(k, <<0, k>>)}
  <2>1. Item(k, <<0, k>>) \in S
    BY DEF Marks
  <2> HIDE DEF S
  <2>2. mark(k) \in Seq(S) /\ DOMAIN mark(k) = 1 .. 1 /\ mark(k)[1] = Item(k, <<0, k>>)
    BY <2>1
  <2> HIDE DEF mark
  <2> QED
    BY <2>2 DEF Elements
<1> HIDE DEF S, mark, q, fp
<1>6. two \in Seq(S) /\ Elements(two) = Elements(mark("magic")) \cup Elements(mark("header"))
  BY <1>5, ConcatProperties, ElementsOfConcat
<1> HIDE DEF two
<1>7. three \in Seq(S) /\ Elements(three) = Elements(two) \cup Elements(mark("n_q"))
  BY <1>5, <1>6, ConcatProperties, ElementsOfConcat
<1> HIDE DEF three
<1>8. four \in Seq(S) /\ Elements(four) = Elements(three) \cup Elements(q)
  <2>1. three \in Seq(S) /\ q \in Seq(S)
    BY <1>3, <1>7
  <2>2. three \o q \in Seq(S)
    BY <2>1, ConcatProperties
  <2>3. Elements(three \o q) = Elements(three) \cup Elements(q)
    BY <2>1, ElementsOfConcat
  <2> QED
    BY <2>2, <2>3
<1> HIDE DEF four
<1>9. five \in Seq(S) /\ Elements(five) = Elements(four) \cup Elements(mark("n_fp"))
  BY <1>5, <1>8, ConcatProperties, ElementsOfConcat
<1> HIDE DEF five
<1>10. six \in Seq(S) /\ Elements(six) = Elements(five) \cup Elements(fp)
  <2>1. five \in Seq(S) /\ fp \in Seq(S)
    BY <1>4, <1>9
  <2>2. five \o fp \in Seq(S)
    BY <2>1, ConcatProperties
  <2>3. Elements(five \o fp) = Elements(five) \cup Elements(fp)
    BY <2>1, ElementsOfConcat
  <2> QED
    BY <2>2, <2>3
<1>11. Elements(six) = S
  <2>1. Marks = {Item("magic", <<0, "magic">>), Item("header", <<0, "header">>),
                 Item("n_q", <<0, "n_q">>), Item("n_fp", <<0, "n_fp">>)}
    BY DEF Marks
  <2> QED
    BY <1>3, <1>4, <1>5, <1>6, <1>7, <1>8, <1>9, <1>10, <2>1 DEF S
<1> HIDE DEF six
<1>12. /\ six = [i \in 1 .. Len(six) |-> six[i]] /\ Len(six) \in Nat
       /\ DOMAIN six = 1 .. Len(six)
  BY <1>10
<1> QED
  BY <1>2, <1>11, <1>12 DEF S
-----------------------------------------------------------------------------
(* The bytes of a pack, and that no pack of a row is NoPack.                *)
LEMMA PackType ==
  ASSUME NEW row, IsRow(row)
  PROVE  LET pack == quantize_rowwise_ternary(row)
         IN /\ \A k \in DOMAIN pack.packed : pack.packed[k] \in 0 .. 255
            /\ pack # NoPack
<1> DEFINE n == Len(row.w)
           m == n \div 4
           signs == Rounded(row, Alpha(row))
           codes == [i \in DOMAIN signs |-> signs[i] + 1]
           pack == quantize_rowwise_ternary(row)
<1>1. n \in Nat /\ n % 4 = 0 /\ n > 0 /\ DOMAIN row.w = 1 .. n
  <2>1. row.w \in Seq(Int) /\ Len(row.w) % 4 = 0 /\ Len(row.w) > 0
    BY DEF IsRow
  <2>2. \A s \in Seq(Int) : Len(s) \in Nat /\ DOMAIN s = 1 .. Len(s)
    OBVIOUS
  <2> QED
    BY <2>1, <2>2
<1>2. DOMAIN signs = 1 .. n /\ \A i \in 1 .. n : signs[i] \in {-1, 0, 1}
  BY <1>1 DEF Rounded
<1>3. codes \in [1 .. n -> 0 .. 2] /\ Len(codes) = n
  <2> HIDE DEF signs
  <2>1. codes \in [1 .. n -> 0 .. 2]
    BY <1>2
  <2> HIDE DEF codes
  <2> QED
    BY <1>1, <2>1
<1>4. pack.packed = PackBytes(codes)
  BY DEF quantize_rowwise_ternary
<1> HIDE DEF codes
<1>5. pack.packed = [k \in 1 .. m |-> codes[4*k - 3] + 4 * codes[4*k - 2]
                                        + 16 * codes[4*k - 1] + 64 * codes[4*k]]
  BY <1>3, <1>4 DEF PackBytes
<1>6. m \in Nat /\ m > 0 /\ n = 4 * m
  <2>1. \A x \in Nat : x % 4 = 0 /\ x > 0 => x \div 4 \in Nat /\ x \div 4 > 0 /\ x = 4 * (x \div 4)
    OBVIOUS
  <2> HIDE DEF n
  <2> QED
    BY <1>1, <2>1
<1> HIDE DEF pack, m, n
<1>7. ASSUME NEW k \in 1 .. m PROVE pack.packed[k] \in 0 .. 255
  <2> DEFINE a == codes[4*k - 3]
             b == codes[4*k - 2]
             c == codes[4*k - 1]
             d == codes[4*k]
  <2>1. 4*k - 3 \in 1 .. n /\ 4*k - 2 \in 1 .. n /\ 4*k - 1 \in 1 .. n /\ 4*k \in 1 .. n
    BY <1>6
  <2>2. a \in 0 .. 2 /\ b \in 0 .. 2 /\ c \in 0 .. 2 /\ d \in 0 .. 2
    BY <1>3, <2>1
  <2>3. pack.packed[k] = a + 4 * b + 16 * c + 64 * d
    BY <1>5
  <2> HIDE DEF a, b, c, d
  <2> QED
    BY <2>2, <2>3
<1>8. 1 \in DOMAIN pack.packed
  BY <1>5, <1>6
<1>9. 1 \notin DOMAIN NoPack.packed
  BY DEF NoPack
<1>10. pack # NoPack
  BY <1>8, <1>9
<1> QED
  BY <1>5, <1>7, <1>10 DEF pack

LEMMA RowOfIsRow ==
  ASSUME product \in Products, NEW v \in 1 .. Len(product.weights), NEW n
  PROVE  IsRow(RowOf(v, n))
BY BundleAssumption DEF RowOf
-----------------------------------------------------------------------------
(* What a process makes of the items it has read, from one save or from     *)
(* several: every tensor is a stored row of a version that was read.        *)
AllItems(got) == {got[i] : i \in DOMAIN got}
NamesOf(got, kind) == {i.name : i \in {j \in AllItems(got) : j.kind = kind}}
RowRead(got, n)    == RowOf((CHOOSE i \in AllItems(got) : i.name = n).version, n)
ReadsLayout(got) ==
  LET items == Layout(product.forged)
  IN /\ DOMAIN got = 1 .. Len(items)
     /\ \A i \in 1 .. Len(items) : \E v \in 1 .. version : got[i] = Stamped(items[i], v)

LEMMA NamesRead ==
  ASSUME NEW got, product.forged.layers \in Nat, ReadsLayout(got)
  PROVE  LET f == product.forged
         IN /\ NamesOf(got, "q")  = {n \in Tensors(f) : can_pack(f, n) = TRUE}
            /\ NamesOf(got, "fp") = {n \in Tensors(f) : can_pack(f, n) = FALSE}
<1> DEFINE f == product.forged
           items == Layout(f)
<1>1. /\ DOMAIN items = 1 .. Len(items)
      /\ Elements(items) = Marks \cup Stored(f, "q", TRUE) \cup Stored(f, "fp", FALSE)
  BY LayoutIs
<1>2. \A i \in 1 .. Len(items) : \E v \in 1 .. version : got[i] = Stamped(items[i], v)
  BY DEF ReadsLayout
<1>3. DOMAIN got = 1 .. Len(items)
  BY DEF ReadsLayout
<1> HIDE DEF f, items
<1>4. ASSUME NEW i \in 1 .. Len(items)
      PROVE  got[i].kind = items[i].kind /\ got[i].name = items[i].name
  <2>1. PICK v \in 1 .. version : got[i] = Stamped(items[i], v)
    BY <1>2
  <2> QED
    BY <2>1 DEF Stamped
<1>5. ASSUME NEW kind, NEW b \in BOOLEAN, Stored(f, kind, b) \subseteq Elements(items),
             \A x \in Elements(items) : x.kind = kind => x \in Stored(f, kind, b)
      PROVE  NamesOf(got, kind) = {n \in Tensors(f) : can_pack(f, n) = b}
  <2>1. ASSUME NEW n \in NamesOf(got, kind) PROVE n \in Tensors(f) /\ can_pack(f, n) = b
    <3>1. PICK i \in 1 .. Len(items) : got[i].kind = kind /\ got[i].name = n
      BY <1>3, <2>1 DEF NamesOf, AllItems
    <3>2. items[i].kind = kind /\ items[i].name = n /\ items[i] \in Elements(items)
      BY <1>1, <1>4, <3>1 DEF Elements
    <3>3. items[i] \in Stored(f, kind, b)
      BY <1>5, <3>2
    <3> QED
      BY <3>2, <3>3 DEF Stored, Item
  <2>2. ASSUME NEW n \in Tensors(f), can_pack(f, n) = b PROVE n \in NamesOf(got, kind)
    <3>1. Item(kind, n) \in Elements(items)
      BY <1>5, <2>2 DEF Stored
    <3>2. PICK i \in 1 .. Len(items) : items[i] = Item(kind, n)
      BY <1>1, <3>1 DEF Elements
    <3>3. got[i].kind = kind /\ got[i].name = n /\ got[i] \in AllItems(got)
      BY <1>3, <1>4, <3>2 DEF Item, AllItems
    <3> QED
      BY <3>3 DEF NamesOf
  <2> QED
    BY <2>1, <2>2
<1>6. /\ \A x \in Marks : x.kind \in {"magic", "header", "n_q", "n_fp"}
      /\ \A x \in Stored(f, "q", TRUE) : x.kind = "q"
      /\ \A x \in Stored(f, "fp", FALSE) : x.kind = "fp"
  BY DEF Marks, Stored, Item
<1>7. NamesOf(got, "q") = {n \in Tensors(f) : can_pack(f, n) = TRUE}
  <2>1. /\ Stored(f, "q", TRUE) \subseteq Elements(items)
        /\ \A x \in Elements(items) : x.kind = "q" => x \in Stored(f, "q", TRUE)
    BY <1>1, <1>6
  <2> QED
    BY <1>5, <2>1
<1>8. NamesOf(got, "fp") = {n \in Tensors(f) : can_pack(f, n) = FALSE}
  <2>1. /\ Stored(f, "fp", FALSE) \subseteq Elements(items)
        /\ \A x \in Elements(items) : x.kind = "fp" => x \in Stored(f, "fp", FALSE)
    BY <1>1, <1>6
  <2> QED
    BY <1>5, <2>1
<1> QED
  BY <1>7, <1>8 DEF f

LEMMA LoadedRecord ==
  ASSUME NEW got, NEW c
  PROVE  Loaded(got, c) =
           [cfg  |-> c,
            live |-> [n \in Tensors(c) |->
                        IF n \in NamesOf(got, "q")
                          THEN unpack_ternary(quantize_rowwise_ternary(RowRead(got, n)))
                          ELSE IF n \in NamesOf(got, "fp") THEN RowRead(got, n) ELSE Random],
            pack |-> [n \in Linears(c) |->
                        IF n \in NamesOf(got, "q")
                          THEN quantize_rowwise_ternary(RowRead(got, n)) ELSE NoPack]]
<1> DEFINE packs == [n \in NamesOf(got, "q") |-> quantize_rowwise_ternary(RowRead(got, n))]
           live == [n \in Tensors(c) |->
                      IF n \in NamesOf(got, "q") THEN unpack_ternary(packs[n])
                      ELSE IF n \in NamesOf(got, "fp") THEN RowRead(got, n) ELSE Random]
           blank == [n \in Linears(c) |-> NoPack]
           m == [New(c) EXCEPT !.live = live]
<1>1. Loaded(got, c) = apply_ternary_packs(m, packs)
  BY DEF Loaded, NamesOf, RowRead, AllItems
<1>2. m = [cfg |-> c, live |-> live, pack |-> blank]
  <2> HIDE DEF live
  <2> QED
    BY DEF New
<1>3. live = [n \in Tensors(c) |->
                IF n \in NamesOf(got, "q")
                  THEN unpack_ternary(quantize_rowwise_ternary(RowRead(got, n)))
                  ELSE IF n \in NamesOf(got, "fp") THEN RowRead(got, n) ELSE Random]
  OBVIOUS
<1>4. DOMAIN packs = NamesOf(got, "q")
      /\ \A n \in NamesOf(got, "q") : packs[n] = quantize_rowwise_ternary(RowRead(got, n))
  OBVIOUS
<1> HIDE DEF live, m, packs
<1>5. apply_ternary_packs(m, packs) =
        [cfg |-> c, live |-> live,
         pack |-> [n \in Linears(c) |-> IF n \in DOMAIN packs THEN packs[n] ELSE blank[n]]]
  BY <1>2 DEF apply_ternary_packs
<1>6. [n \in Linears(c) |-> IF n \in DOMAIN packs THEN packs[n] ELSE blank[n]]
        = [n \in Linears(c) |-> IF n \in NamesOf(got, "q")
                                  THEN quantize_rowwise_ternary(RowRead(got, n)) ELSE NoPack]
  BY <1>4
<1> QED
  BY <1>1, <1>3, <1>5, <1>6

LEMMA LoadedIs ==
  ASSUME NEW got, NEW c, product.forged.layers \in Nat, ReadsLayout(got),
         Tensors(c) = Tensors(product.forged)
  PROVE  LET m == Loaded(got, c)
             f == product.forged
         IN /\ m.cfg = c /\ DOMAIN m.live = Tensors(c) /\ DOMAIN m.pack = Linears(c)
            /\ \A n \in Tensors(c) : \E i \in DOMAIN got : \E v \in 1 .. version :
                 /\ got[i].version = v
                 /\ m.live[n] = StoredRow(v, n)
                 /\ n \in Linears(c) =>
                      m.pack[n] = IF can_pack(f, n)
                                    THEN quantize_rowwise_ternary(RowOf(v, n)) ELSE NoPack
<1> DEFINE m == Loaded(got, c)
           f == product.forged
<1>1. /\ m.cfg = c /\ DOMAIN m.live = Tensors(c) /\ DOMAIN m.pack = Linears(c)
      /\ \A n \in Tensors(c) : m.live[n] =
           IF n \in NamesOf(got, "q")
             THEN unpack_ternary(quantize_rowwise_ternary(RowRead(got, n)))
             ELSE IF n \in NamesOf(got, "fp") THEN RowRead(got, n) ELSE Random
      /\ \A n \in Linears(c) : m.pack[n] =
           IF n \in NamesOf(got, "q") THEN quantize_rowwise_ternary(RowRead(got, n)) ELSE NoPack
  BY LoadedRecord
<1> HIDE DEF m
<1>2. /\ NamesOf(got, "q")  = {n \in Tensors(f) : can_pack(f, n) = TRUE}
      /\ NamesOf(got, "fp") = {n \in Tensors(f) : can_pack(f, n) = FALSE}
  BY NamesRead
<1>3. ASSUME NEW n \in Tensors(c)
      PROVE  \E i \in DOMAIN got : \E v \in 1 .. version :
               /\ got[i].version = v
               /\ m.live[n] = StoredRow(v, n)
               /\ n \in Linears(c) =>
                    m.pack[n] = IF can_pack(f, n)
                                  THEN quantize_rowwise_ternary(RowOf(v, n)) ELSE NoPack
  <2>1. can_pack(f, n) \in BOOLEAN
    BY CanPackIsBoolean
  <2>2. /\ n \in NamesOf(got, "q") <=> can_pack(f, n)
        /\ n \in NamesOf(got, "fp") <=> ~ can_pack(f, n)
    BY <1>2, <2>1
  <2>3. \E x \in AllItems(got) : x.name = n
    BY <2>2 DEF NamesOf
  <2> DEFINE x == CHOOSE x \in AllItems(got) : x.name = n
  <2>4. x \in AllItems(got)
    BY <2>3
  <2>5. RowRead(got, n) = RowOf(x.version, n)
    BY DEF RowRead
  <2> HIDE DEF x
  <2>6. PICK i \in DOMAIN got : x = got[i]
    BY <2>4 DEF AllItems
  <2>7. got[i].version \in 1 .. version
    BY DEF ReadsLayout, Stamped
  <2> DEFINE v == got[i].version
  <2>8. RowRead(got, n) = RowOf(v, n)
    BY <2>5, <2>6
  <2> HIDE DEF v
  <2>9. m.live[n] = StoredRow(v, n)
    BY <1>1, <2>2, <2>8 DEF StoredRow
  <2>10. n \in Linears(c) => m.pack[n] = IF can_pack(f, n)
                                           THEN quantize_rowwise_ternary(RowOf(v, n)) ELSE NoPack
    BY <1>1, <2>2, <2>8
  <2> QED
    BY <2>7, <2>9, <2>10 DEF v
<1> QED
  BY <1>1, <1>3 DEF m
-----------------------------------------------------------------------------
(* The first k items.                                                       *)
First(s, k) == [i \in 1 .. k |-> s[i]]

LEMMA OneMore ==
  ASSUME NEW k \in Nat, NEW s, s = First(s, k), NEW e
  PROVE  /\ Len(s) = k
         /\ Append(s, e) = First(Append(s, e), k + 1)
         /\ \A i \in 1 .. k : Append(s, e)[i] = s[i]
         /\ Append(s, e)[k + 1] = e
<1> DEFINE S == {s[i] : i \in 1 .. k} \cup {e}
           t == Append(s, e)
<1>1. s \in Seq(S) /\ Len(s) = k /\ e \in S
  <2>1. ASSUME NEW R, \A i \in 1 .. k : s[i] \in R
        PROVE  First(s, k) \in Seq(R) /\ Len(First(s, k)) = k
    BY <2>1 DEF First
  <2>2. \A i \in 1 .. k : s[i] \in S
    OBVIOUS
  <2>3. First(s, k) \in Seq(S) /\ Len(First(s, k)) = k
    BY <2>1, <2>2
  <2> HIDE DEF S
  <2>4. e \in S
    BY DEF S
  <2> QED
    BY <2>3, <2>4
<1> HIDE DEF S, t
<1>2. /\ t \in Seq(S) /\ Len(t) = k + 1
      /\ \A i \in 1 .. k : t[i] = s[i]
      /\ t[k + 1] = e
  BY <1>1, AppendProperties DEF t
<1>3. t = [i \in 1 .. Len(t) |-> t[i]]
  <2>1. \A R : \A q \in Seq(R) : q = [i \in 1 .. Len(q) |-> q[i]]
    OBVIOUS
  <2> QED
    BY <1>2, <2>1
<1> QED
  BY <1>1, <1>2, <1>3 DEF t, First

LEMMA ItemsAre ==
  ASSUME NEW c, c.layers \in Nat, NEW v
  PROVE  /\ Len(Items(c, v)) = Len(Layout(c)) /\ Len(Layout(c)) \in Nat
         /\ DOMAIN Items(c, v) = 1 .. Len(Layout(c))
         /\ \A i \in 1 .. Len(Layout(c)) : Items(c, v)[i] = Stamped(Layout(c)[i], v)
<1> DEFINE items == Layout(c)
           n == Len(items)
<1>1. n \in Nat /\ DOMAIN items = 1 .. n
  BY LayoutIs
<1>2. Items(c, v) = [i \in DOMAIN items |-> Stamped(items[i], v)]
  BY DEF Items
<1> HIDE DEF items, n
<1>3. ASSUME NEW g, g = [i \in DOMAIN items |-> Stamped(items[i], v)]
      PROVE  DOMAIN g = 1 .. n /\ Len(g) = n /\ \A i \in 1 .. n : g[i] = Stamped(items[i], v)
  BY <1>1, <1>3
<1> QED
  BY <1>1, <1>2, <1>3 DEF n, items

(* The file is the beginning of one save; what was read of it carries       *)
(* versions that were saved, one only unless a forge truncated the file.    *)
ForgeInv ==
  /\ version \in 1 .. Len(product.weights)
  /\ forge \in [busy : BOOLEAN, save : 1 .. version]
  /\ \E k \in 0 .. Len(Layout(product.forged)) :
       file = First(Items(product.forged, forge.save), k)

ReadInv ==
  /\ proc.replaced \in BOOLEAN
  /\ proc.pc = "off" => proc.args = NoCommand
  /\ proc.pc # "reading" => proc.got = << >>
  /\ \E k \in 0 .. Len(Layout(product.forged)) :
       /\ proc.got = First(proc.got, k)
       /\ \A i \in 1 .. k : \E v \in 1 .. version :
            /\ proc.got[i] = Stamped(Layout(product.forged)[i], v)
            /\ proc.pc = "reading" /\ ~ proc.replaced => v = forge.save

(* A linear has the weights of a version, quantized once or not at all.     *)
OnceQuantized(n, v) ==
  \/ model.pack[n] = quantize_rowwise_ternary(RowOf(v, n))
  \/ model.pack[n] = NoPack /\ model.live[n] = RowOf(v, n)

LoadInv ==
  /\ HasModel \/ model = NoModel
  /\ HasModel =>
       /\ Valid(model.cfg)
       /\ DOMAIN model.live = Tensors(model.cfg) /\ DOMAIN model.pack = Linears(model.cfg)
       /\ \A n \in Linears(model.cfg) : \E v \in 1 .. version : OnceQuantized(n, v)
  /\ FromBundle /\ ~ proc.replaced =>
       \E v \in 1 .. version : \A n \in Tensors(model.cfg) : model.live[n] = StoredRow(v, n)

BundleInv == ProcessInv /\ ForgeInv /\ ReadInv /\ LoadInv

LEMMA ForgedLayers == ProcessInv => product.forged.layers \in Nat
BY BundleAssumption DEF ProcessInv

LEMMA EmptyFirst == \A s : First(s, 0) = << >>
BY DEF First

LEMMA NothingRead ==
  ASSUME ProcessInv, proc'.got = << >>, proc'.replaced \in BOOLEAN,
         proc'.pc = "off" => proc'.args = NoCommand, UNCHANGED product
  PROVE  ReadInv'
<1>1. Len(Layout(product.forged)) \in Nat
  BY ForgedLayers, LayoutIs
<1>2. 0 \in 0 .. Len(Layout(product.forged)) /\ 1 .. 0 = {}
  BY <1>1
<1>3. proc'.got = First(proc'.got, 0)
  BY EmptyFirst
<1> QED
  BY <1>2, <1>3 DEF ReadInv

LEMMA InitBundleInv == InitBundle => BundleInv
<1> SUFFICES ASSUME InitBundle PROVE BundleInv
  OBVIOUS
<1>1. ProcessInv
  BY InitProcess
<1>2. Len(Layout(product.forged)) \in Nat
  BY <1>1, ForgedLayers, LayoutIs
<1>3. 0 \in 0 .. Len(Layout(product.forged)) /\ 1 .. 0 = {}
  BY <1>2
<1>4. ForgeInv
  <2>1. version = 1 /\ 1 \in 1 .. Len(product.weights)
    BY BundleAssumption DEF InitBundle
  <2>2. forge = [busy |-> FALSE, save |-> 1] /\ file = << >>
    BY DEF InitBundle
  <2>3. file = First(Items(product.forged, forge.save), 0)
    BY <2>2, EmptyFirst
  <2> QED
    BY <1>3, <2>1, <2>2, <2>3 DEF ForgeInv
<1>5. ReadInv
  <2>1. proc.replaced = FALSE /\ proc.args = NoCommand /\ proc.got = << >> /\ proc.pc = "off"
    BY DEF InitBundle, Off
  <2>2. proc.got = First(proc.got, 0)
    BY <2>1, EmptyFirst
  <2> QED
    BY <1>3, <2>1, <2>2 DEF ReadInv
<1>6. LoadInv
  BY DEF InitBundle, LoadInv, HasModel, FromBundle, Off
<1> QED
  BY <1>1, <1>4, <1>5, <1>6 DEF BundleInv
-----------------------------------------------------------------------------
LEMMA LoadKept ==
  ASSUME LoadInv, UNCHANGED <<product, model>>, proc'.pc = proc.pc, proc'.args = proc.args,
         proc.replaced => proc'.replaced, 1 .. version \subseteq 1 .. version'
  PROVE  LoadInv'
<1>1. \A v, n : /\ StoredRow(v, n)' = StoredRow(v, n)
                /\ OnceQuantized(n, v)' <=> OnceQuantized(n, v)
  BY DEF StoredRow, OnceQuantized, RowOf
<1>2. (HasModel' <=> HasModel) /\ (FromBundle' <=> FromBundle)
  BY DEF HasModel, FromBundle
<1>3. ASSUME HasModel
      PROVE  \A n \in Linears(model'.cfg) : \E v \in 1 .. version' : OnceQuantized(n, v)'
  BY <1>1, <1>3 DEF LoadInv
<1>4. ASSUME FromBundle, ~ proc'.replaced
      PROVE  \E v \in 1 .. version' :
               \A n \in Tensors(model'.cfg) : model'.live[n] = StoredRow(v, n)'
  <2>1. PICK v \in 1 .. version :
          \A n \in Tensors(model.cfg) : model.live[n] = StoredRow(v, n)
    BY <1>4 DEF LoadInv
  <2>2. v \in 1 .. version' /\ model' = model
    OBVIOUS
  <2> QED
    BY <1>1, <2>1, <2>2
<1>5. HasModel' => /\ Valid(model.cfg)'
                   /\ (DOMAIN model.live = Tensors(model.cfg))'
                   /\ (DOMAIN model.pack = Linears(model.cfg))'
  BY <1>2 DEF LoadInv
<1>6. HasModel' \/ model' = NoModel
  BY <1>2 DEF LoadInv
<1> QED
  BY <1>2, <1>3, <1>4, <1>5, <1>6 DEF LoadInv

LEMMA ReadKept ==
  ASSUME ReadInv, UNCHANGED <<product, proc>>,
         proc.pc = "reading" => forge'.save = forge.save, 1 .. version \subseteq 1 .. version'
  PROVE  ReadInv'
<1>1. PICK k \in 0 .. Len(Layout(product.forged)) :
        /\ proc.got = First(proc.got, k)
        /\ \A i \in 1 .. k : \E v \in 1 .. version :
             /\ proc.got[i] = Stamped(Layout(product.forged)[i], v)
             /\ proc.pc = "reading" /\ ~ proc.replaced => v = forge.save
  BY DEF ReadInv
<1>2. \A i \in 1 .. k : \E v \in 1 .. version' :
        /\ proc'.got[i] = Stamped(Layout(product'.forged)[i], v)
        /\ proc'.pc = "reading" /\ ~ proc'.replaced => v = forge'.save
  BY <1>1
<1>3. proc'.got = First(proc'.got, k) /\ k \in 0 .. Len(Layout(product'.forged))
  BY <1>1
<1> QED
  BY <1>2, <1>3 DEF ReadInv

LEMMA ForgeKeepsBundle ==
  ASSUME BundleInv, ForgeStep
  PROVE  BundleInv'
<1> DEFINE f == product.forged
           items == Layout(f)
<1>1. /\ ProcessInv /\ ForgeInv /\ ReadInv /\ LoadInv
      /\ ProcessInv' /\ UNCHANGED model /\ proc'.pc = proc.pc
  BY ForgeKeepsProcess DEF BundleInv
<1>2. f.layers \in Nat /\ Len(items) \in Nat
  BY <1>1, ForgedLayers, LayoutIs
<1>3. version \in Nat /\ version >= 1 /\ version <= Len(product.weights)
      /\ Len(product.weights) \in Nat
  BY <1>1, BundleAssumption DEF ForgeInv, ProcessInv
<1>4. UNCHANGED product /\ proc'.args = proc.args /\ (proc.replaced => proc'.replaced)
  BY <1>1 DEF ForgeStep, Train, Create, Write, ForgeExits, ProcessInv
<1>5. 1 .. version \subseteq 1 .. version' /\ version' \in 1 .. Len(product.weights)
  BY <1>3 DEF ForgeStep, Train, Create, Write, ForgeExits
<1>6. LoadInv'
  BY <1>1, <1>4, <1>5, LoadKept
<1>7. CASE Train \/ ForgeExits
  <2>1. /\ UNCHANGED <<file, proc>> /\ forge'.save = forge.save
        /\ forge' \in [busy : BOOLEAN, save : 1 .. version']
    BY <1>1, <1>5, <1>7 DEF Train, ForgeExits, ForgeInv
  <2>2. ReadInv'
    BY <1>1, <1>4, <1>5, <2>1, ReadKept
  <2>3. ForgeInv'
    BY <1>1, <1>4, <1>5, <2>1 DEF ForgeInv
  <2> QED
    BY <1>1, <1>6, <2>2, <2>3 DEF BundleInv
<1>8. CASE Create
  <2>1. /\ forge' = [busy |-> TRUE, save |-> version] /\ file' = << >>
        /\ UNCHANGED version
        /\ proc' = [proc EXCEPT !.replaced = @ \/ (proc.pc = "reading" /\ proc.got # << >>)]
    BY <1>8 DEF Create
  <2>2. ForgeInv'
    <3>1. file' = First(Items(product'.forged, forge'.save), 0)
      BY <2>1, EmptyFirst
    <3>2. 0 \in 0 .. Len(Layout(product'.forged))
      BY <1>2, <1>4
    <3>3. forge' \in [busy : BOOLEAN, save : 1 .. version']
      BY <1>3, <2>1
    <3> QED
      BY <1>4, <1>5, <3>1, <3>2, <3>3 DEF ForgeInv
  <2>3. proc'.got = proc.got /\ proc'.replaced \in BOOLEAN
        /\ (proc.got # << >> => proc'.replaced)
    BY <1>1, <2>1 DEF ProcessInv, ReadInv
  <2>4. proc'.pc = "off" => proc'.args = NoCommand
    BY <1>1, <1>4 DEF ReadInv
  <2>5. CASE proc.got = << >>
    <3>1. ReadInv'
      BY <1>1, <1>4, <2>3, <2>4, <2>5, NothingRead
    <3> QED
      BY <1>1, <1>6, <2>2, <3>1 DEF BundleInv
  <2>6. CASE proc.got # << >>
    <3>1. ReadInv'
      BY <1>1, <1>4, <2>1, <2>3, <2>4, <2>6 DEF ReadInv
    <3> QED
      BY <1>1, <1>6, <2>2, <3>1 DEF BundleInv
  <2> QED
    BY <2>5, <2>6
<1>9. CASE Write
  <2> DEFINE all == Items(f, forge.save)
  <2>1. /\ UNCHANGED <<version, forge, proc>> /\ Len(file) < Len(all)
        /\ file' = Append(file, all[Len(file) + 1])
    BY <1>9 DEF Write
  <2>2. ReadInv'
    BY <1>1, <1>4, <1>5, <2>1, ReadKept
  <2>3. PICK k \in 0 .. Len(items) : file = First(all, k)
    BY <1>1 DEF ForgeInv
  <2>4. Len(all) = Len(items)
    BY <1>2, ItemsAre
  <2> HIDE DEF all, items
  <2>5. k \in Nat /\ k + 1 \in Nat /\ file = First(file, k)
    <3>1. k \in Nat
      BY <1>2, <2>3
    <3> QED
      BY <2>3, <3>1 DEF First
  <2>6. /\ Len(file) = k
        /\ file' = First(file', k + 1)
        /\ \A i \in 1 .. k : file'[i] = file[i]
        /\ file'[k + 1] = all[k + 1]
    <3>1. Len(file) = k
      BY <2>5, OneMore
    <3>2. file' = Append(file, all[k + 1])
      BY <2>1, <3>1
    <3> QED
      BY <2>5, <3>1, <3>2, OneMore
  <2>7. \A i \in 1 .. k + 1 : file'[i] = all[i]
    <3>1. \A i \in 1 .. k + 1 : i \in 1 .. k \/ i = k + 1
      BY <2>5
    <3>2. \A i \in 1 .. k : file[i] = all[i]
      BY <2>3 DEF First
    <3> QED
      BY <2>6, <3>1, <3>2
  <2>8. file' = First(all, k + 1) /\ k + 1 \in 0 .. Len(items)
    <3>1. k + 1 <= Len(items)
      BY <1>2, <2>1, <2>4, <2>5, <2>6 DEF items
    <3>2. k + 1 \in 0 .. Len(items)
      BY <1>2, <2>5, <3>1 DEF items
    <3> QED
      BY <2>6, <2>7, <3>2 DEF First
  <2>9. ForgeInv'
    BY <1>1, <1>4, <2>1, <2>8 DEF ForgeInv, all, items
  <2> QED
    BY <1>1, <1>6, <2>2, <2>9 DEF BundleInv
<1> QED
  BY <1>7, <1>8, <1>9 DEF ForgeStep
-----------------------------------------------------------------------------
LEMMA NoModelLoaded ==
  ASSUME model' = NoModel, proc'.pc \notin {"loaded", "up"}
  PROVE  LoadInv'
BY DEF LoadInv, HasModel, FromBundle

(* A process that has ended, whatever made it end.                          *)
LEMMA OffKeepsBundle ==
  ASSUME BundleInv, UNCHANGED <<product, version, forge, file>>, proc' = Off, model' = NoModel
  PROVE  BundleInv'
<1>1. ProcessInv'
  BY OffKeeps DEF BundleInv
<1>2. ForgeInv'
  BY DEF ForgeInv, BundleInv
<1>3. proc'.got = << >> /\ proc'.replaced \in BOOLEAN /\ proc'.args = NoCommand
      /\ proc'.pc = "off"
  BY DEF Off
<1>4. ReadInv'
  BY <1>3, NothingRead DEF BundleInv
<1>5. LoadInv'
  BY <1>3, NoModelLoaded
<1> QED
  BY <1>1, <1>2, <1>4, <1>5 DEF BundleInv

LEMMA ReadItemKeeps ==
  ASSUME BundleInv, ReadItem
  PROVE  ReadInv'
<1> DEFINE f == product.forged
           items == Layout(f)
           all == Items(f, forge.save)
<1>1. /\ ProcessInv /\ ForgeInv /\ ReadInv
      /\ UNCHANGED <<product, version, forge, file>>
      /\ proc.pc = "reading" /\ Len(proc.got) # Len(items) /\ Len(proc.got) < Len(file)
      /\ proc' = [proc EXCEPT !.got = Append(@, file[Len(@) + 1])]
  BY DEF BundleInv, ReadItem, AllRead
<1>2. f.layers \in Nat /\ Len(items) \in Nat
  BY <1>1, ForgedLayers, LayoutIs
<1>3. PICK n \in 0 .. Len(items) : file = First(all, n)
  BY <1>1 DEF ForgeInv
<1>4. PICK k \in 0 .. Len(items) :
        /\ proc.got = First(proc.got, k)
        /\ \A i \in 1 .. k : \E v \in 1 .. version :
             /\ proc.got[i] = Stamped(items[i], v)
             /\ proc.pc = "reading" /\ ~ proc.replaced => v = forge.save
  BY <1>1 DEF ReadInv
<1>5. \A i \in 1 .. Len(items) : all[i] = Stamped(items[i], forge.save)
  BY <1>2, ItemsAre
<1> HIDE DEF items, all, f
<1> DEFINE got == proc.got
           e == file[Len(got) + 1]
<1>6. k \in Nat /\ n \in Nat /\ got = First(got, k) /\ file = First(file, n)
  <2>1. k \in Nat /\ n \in Nat
    BY <1>2
  <2> QED
    BY <1>3, <1>4, <2>1 DEF First
<1>7. Len(got) = k /\ Len(file) = n
  BY <1>6, OneMore
<1>8. k + 1 \in 1 .. n /\ k + 1 \in 1 .. Len(items) /\ k + 1 \in 0 .. Len(items)
  BY <1>1, <1>2, <1>6, <1>7
<1>9. e = Stamped(items[k + 1], forge.save)
  <2>1. e = file[k + 1]
    BY <1>7
  <2>2. file[k + 1] = all[k + 1]
    BY <1>3, <1>8 DEF First
  <2> QED
    BY <1>5, <1>8, <2>1, <2>2
<1> HIDE DEF e
<1>10. /\ proc'.pc = proc.pc /\ proc'.args = proc.args /\ proc'.replaced = proc.replaced
       /\ proc'.got = Append(got, e)
  BY <1>1 DEF ProcessInv, e
<1>11. /\ proc'.got = First(proc'.got, k + 1)
       /\ \A i \in 1 .. k : proc'.got[i] = got[i]
       /\ proc'.got[k + 1] = e
  BY <1>6, <1>10, OneMore
<1>12. forge.save \in 1 .. version
  BY <1>1 DEF ForgeInv
<1>13. \A i \in 1 .. k + 1 : \E v \in 1 .. version :
         /\ proc'.got[i] = Stamped(items[i], v)
         /\ proc'.pc = "reading" /\ ~ proc'.replaced => v = forge.save
  <2> TAKE i \in 1 .. k + 1
  <2>1. CASE i = k + 1
    BY <1>9, <1>11, <1>12, <2>1
  <2>2. CASE i # k + 1
    <3>1. i \in 1 .. k
      BY <1>6, <2>2
    <3> QED
      BY <1>4, <1>10, <1>11, <3>1
  <2> QED
    BY <2>1, <2>2
<1>14. \E j \in 0 .. Len(items) :
         /\ proc'.got = First(proc'.got, j)
         /\ \A i \in 1 .. j : \E v \in 1 .. version :
              /\ proc'.got[i] = Stamped(items[i], v)
              /\ proc'.pc = "reading" /\ ~ proc'.replaced => v = forge.save
  BY <1>8, <1>11, <1>13
<1>15. /\ proc'.replaced \in BOOLEAN
       /\ proc'.pc = "off" => proc'.args = NoCommand
       /\ proc'.pc # "reading" => proc'.got = << >>
  BY <1>1, <1>10 DEF ReadInv
<1>16. UNCHANGED <<product, version, forge>>
  BY <1>1
<1> QED
  BY <1>14, <1>15, <1>16 DEF ReadInv, items, f

LEMMA CheckpointLoads ==
  ASSUME BundleInv, LoadCheckpoint
  PROVE  LoadInv'
<1> DEFINE c == FallbackConfig(proc.args)
           rows == [n \in Tensors(product.ckpt) |-> RowOf(version, n)]
           live == [n \in Tensors(c) |-> rows[n]]
<1>1. /\ Valid(c) /\ HasTensors(product.ckpt, c) /\ proc.args.path = "checkpoint"
      /\ model' = load_safetensors(c, rows)
      /\ UNCHANGED <<product, version>>
      /\ proc' = [proc EXCEPT !.pc = "loaded"]
  BY DEF LoadCheckpoint
<1>2. /\ proc' = [proc EXCEPT !.pc = "loaded"]
      /\ proc = [pc |-> proc.pc, args |-> proc.args, got |-> proc.got,
                 replaced |-> proc.replaced]
      /\ version \in 1 .. version
  <2>1. version \in Nat \ {0}
    BY BundleAssumption DEF BundleInv, ForgeInv, ProcessInv
  <2> QED
    BY <1>1, <2>1 DEF BundleInv, ProcessInv
<1> HIDE DEF c
<1>3. \A n \in Tensors(c) : live[n] = RowOf(version, n)
  BY <1>1 DEF HasTensors
<1>4. model' = [cfg |-> c, live |-> live, pack |-> [n \in Linears(c) |-> NoPack]]
  <2> HIDE DEF live
  <2>1. model' = [New(c) EXCEPT !.live = live]
    BY <1>1 DEF load_safetensors, live
  <2> QED
    BY <2>1 DEF New
<1>5. /\ model'.cfg = c /\ DOMAIN model'.live = Tensors(c) /\ DOMAIN model'.pack = Linears(c)
      /\ \A n \in Linears(c) : model'.pack[n] = NoPack /\ model'.live[n] = RowOf(version, n)
  <2>1. Linears(c) \subseteq Tensors(c)
    BY DEF Linears
  <2> QED
    BY <1>3, <1>4, <2>1
<1>6. proc'.pc = "loaded" /\ ~ FromBundle'
  BY <1>1, <1>2 DEF FromBundle
<1>7. \A n \in Linears(c) : OnceQuantized(n, version)'
  BY <1>1, <1>5 DEF OnceQuantized, RowOf
<1>8. \A n \in Linears(model'.cfg) : \E v \in 1 .. version' : OnceQuantized(n, v)'
  BY <1>1, <1>2, <1>5, <1>7 DEF OnceQuantized, RowOf
<1> QED
  BY <1>1, <1>5, <1>6, <1>8 DEF LoadInv, HasModel

LEMMA BuildLoads ==
  ASSUME BundleInv, Build
  PROVE  LoadInv'
<1> DEFINE f == product.forged
           c == FromHeader(f, proc.args.deq)
           items == Layout(f)
           got == proc.got
           m == Loaded(got, c)
<1>1. /\ ProcessInv /\ ForgeInv /\ ReadInv
      /\ UNCHANGED <<product, version, forge>>
      /\ proc.pc = "reading" /\ Len(got) = Len(items)
      /\ Valid(c) /\ Known(f, c) /\ model' = m
      /\ proc' = [proc EXCEPT !.pc = "loaded", !.got = << >>]
  BY DEF BundleInv, Build, AllRead
<1>2. f.layers \in Nat /\ Len(items) \in Nat
  BY <1>1, ForgedLayers, LayoutIs
<1>3. PICK k \in 0 .. Len(items) :
        /\ got = First(got, k)
        /\ \A i \in 1 .. k : \E v \in 1 .. version :
             /\ got[i] = Stamped(items[i], v)
             /\ proc.pc = "reading" /\ ~ proc.replaced => v = forge.save
  BY <1>1 DEF ReadInv
<1>4. k = Len(items) /\ DOMAIN got = 1 .. k
  <2>1. k \in Nat
    BY <1>2
  <2>2. Len(got) = k
    BY <1>3, <2>1, OneMore
  <2>3. DOMAIN got = 1 .. k
    BY <1>3 DEF First
  <2> QED
    BY <1>1, <2>2, <2>3
<1>5. ReadsLayout(got)
  BY <1>3, <1>4 DEF ReadsLayout
<1>6. Tensors(c) = Tensors(f)
  BY <1>1, KnownIsSame, BundleAssumption DEF ProcessInv
<1>7. /\ m.cfg = c /\ DOMAIN m.live = Tensors(c) /\ DOMAIN m.pack = Linears(c)
      /\ \A n \in Tensors(c) : \E i \in DOMAIN got : \E v \in 1 .. version :
           /\ got[i].version = v
           /\ m.live[n] = StoredRow(v, n)
           /\ n \in Linears(c) =>
                m.pack[n] = IF can_pack(f, n)
                              THEN quantize_rowwise_ternary(RowOf(v, n)) ELSE NoPack
  BY <1>2, <1>5, <1>6, LoadedIs
<1>8. proc'.pc = "loaded" /\ proc'.replaced = proc.replaced
  BY <1>1 DEF ProcessInv
<1>9. \A v, n : StoredRow(v, n)' = StoredRow(v, n) /\ RowOf(v, n)' = RowOf(v, n)
  BY <1>1 DEF StoredRow, RowOf
<1>10. model' = m /\ Valid(c) /\ UNCHANGED version
  BY <1>1
<1> HIDE DEF m, c
<1>11. ASSUME NEW n \in Linears(c)
       PROVE  \E v \in 1 .. version' : OnceQuantized(n, v)'
  <2>1. n \in Tensors(c)
    BY DEF Linears
  <2>2. PICK v \in 1 .. version :
          /\ m.live[n] = StoredRow(v, n)
          /\ m.pack[n] = IF can_pack(f, n) THEN quantize_rowwise_ternary(RowOf(v, n)) ELSE NoPack
    BY <1>7, <2>1
  <2>3. CASE can_pack(f, n)
    <3>1. m.pack[n] = quantize_rowwise_ternary(RowOf(v, n))
      BY <2>2, <2>3
    <3>2. OnceQuantized(n, v)'
      BY <1>9, <1>10, <3>1 DEF OnceQuantized
    <3> QED
      BY <1>10, <3>2
  <2>4. CASE ~ can_pack(f, n)
    <3>1. m.pack[n] = NoPack /\ m.live[n] = RowOf(v, n)
      BY <2>2, <2>4 DEF StoredRow
    <3>2. OnceQuantized(n, v)'
      BY <1>9, <1>10, <3>1 DEF OnceQuantized
    <3> QED
      BY <1>10, <3>2
  <2> QED
    BY <2>3, <2>4
<1>12. PICK s \in 1 .. version : s = forge.save
  BY <1>1 DEF ForgeInv
<1>13. ASSUME ~ proc.replaced
       PROVE  \A n \in Tensors(c) : m.live[n] = StoredRow(s, n)
  <2> TAKE n \in Tensors(c)
  <2>1. PICK i \in DOMAIN got : m.live[n] = StoredRow(got[i].version, n)
    BY <1>7
  <2>2. PICK v \in 1 .. version : got[i] = Stamped(items[i], v) /\ v = s
    BY <1>1, <1>3, <1>4, <1>12, <1>13
  <2> QED
    BY <2>1, <2>2 DEF Stamped
<1>14. ASSUME ~ proc'.replaced
       PROVE  \E v \in 1 .. version' :
                \A n \in Tensors(model'.cfg) : model'.live[n] = StoredRow(v, n)'
  <2>1. \A n \in Tensors(model'.cfg) : model'.live[n] = StoredRow(s, n)'
    BY <1>7, <1>8, <1>9, <1>10, <1>13, <1>14
  <2> QED
    BY <1>10, <2>1
<1>15. /\ Valid(model'.cfg) /\ DOMAIN model'.live = Tensors(model'.cfg)
       /\ DOMAIN model'.pack = Linears(model'.cfg)
       /\ \A n \in Linears(model'.cfg) : \E v \in 1 .. version' : OnceQuantized(n, v)'
  BY <1>7, <1>10, <1>11
<1> QED
  BY <1>8, <1>14, <1>15 DEF LoadInv, HasModel

(* server --kernels packs a model of which no linear is packed: the live    *)
(* rows are trained ones, also if they came from a bundle.                  *)
LEMMA PackLoads ==
  ASSUME BundleInv, Pack
  PROVE  LoadInv'
<1> DEFINE c == model.cfg
<1>1. /\ ProcessInv /\ LoadInv /\ HasModel
      /\ UNCHANGED <<product, version>>
      /\ proc' = [proc EXCEPT !.pc = "up"] /\ proc.pc = "loaded"
  BY DEF BundleInv, Pack, HasModel
<1>2. /\ proc'.pc = "up" /\ proc'.args = proc.args /\ proc'.replaced = proc.replaced
  BY <1>1 DEF ProcessInv
<1>3. \A v, n : StoredRow(v, n)' = StoredRow(v, n) /\ RowOf(v, n)' = RowOf(v, n)
  BY <1>1 DEF StoredRow, RowOf
<1>4. /\ Valid(c) /\ DOMAIN model.live = Tensors(c) /\ DOMAIN model.pack = Linears(c)
      /\ \A n \in Linears(c) : \E v \in 1 .. version : OnceQuantized(n, v)
  BY <1>1 DEF LoadInv
<1>5. model'.live = model.live /\ model'.cfg = c
      /\ DOMAIN model'.pack = Linears(c)
  <2>1. model = [cfg |-> model.cfg, live |-> model.live, pack |-> model.pack]
    BY <1>1 DEF ProcessInv
  <2> QED
    BY <1>4, <2>1 DEF Pack, pack_from_weights
<1>6. ASSUME FromBundle', ~ proc'.replaced
      PROVE  \E v \in 1 .. version' :
               \A n \in Tensors(model'.cfg) : model'.live[n] = StoredRow(v, n)'
  <2>1. FromBundle /\ ~ proc.replaced
    BY <1>1, <1>2, <1>6 DEF FromBundle
  <2>2. PICK v \in 1 .. version :
          \A n \in Tensors(c) : model.live[n] = StoredRow(v, n)
    BY <1>1, <2>1 DEF LoadInv
  <2>3. \A n \in Tensors(model'.cfg) : model'.live[n] = StoredRow(v, n)'
    BY <1>3, <1>5, <2>2
  <2>4. v \in 1 .. version'
    BY <1>1
  <2> QED
    BY <2>3, <2>4
<1>7. ASSUME NEW n \in Linears(c)
      PROVE  \E v \in 1 .. version' : OnceQuantized(n, v)'
  <2>1. PICK v \in 1 .. version : OnceQuantized(n, v)
    BY <1>4
  <2>2. v \in 1 .. version'
    BY <1>1
  <2>3. CASE model' = model
    BY <1>3, <2>1, <2>2, <2>3 DEF OnceQuantized
  <2>4. CASE model' # model
    <3>1. model' = pack_from_weights(model) /\ packed_linear_count(model) = 0
      BY <2>4 DEF Pack
    <3>2. ~ is_packed(model, n)
      <4> DEFINE P == {x \in Linears(c) : is_packed(model, x)}
      <4>1. IsFiniteSet(Tensors(c))
        BY <1>1, TensorsFinite DEF ProcessInv, Servable
      <4>2. P \in SUBSET Tensors(c)
        BY DEF Linears
      <4>3. IsFiniteSet(P)
        BY <4>1, <4>2, FS_Subset
      <4>4. Cardinality(P) = 0
        BY <3>1 DEF packed_linear_count
      <4>5. P = {}
        BY <4>3, <4>4, FS_EmptySet
      <4> QED
        BY <4>5
    <3>3. model.live[n] = RowOf(v, n)
      <4>1. model.pack[n] = NoPack
        BY <3>2 DEF is_packed
      <4>2. IsRow(RowOf(v, n))
        BY <1>1, RowOfIsRow DEF BundleInv, ForgeInv, ProcessInv
      <4>3. quantize_rowwise_ternary(RowOf(v, n)) # NoPack
        BY <4>2, PackType
      <4> QED
        BY <2>1, <4>1, <4>3 DEF OnceQuantized
    <3>4. model'.pack[n] = IF Packable(c, n) THEN quantize_rowwise_ternary(model.live[n])
                                             ELSE NoPack
      <4>1. model = [cfg |-> model.cfg, live |-> model.live, pack |-> model.pack]
        BY <1>1 DEF ProcessInv
      <4> QED
        BY <3>1, <4>1 DEF pack_from_weights
    <3>5. OnceQuantized(n, v)'
      BY <1>3, <1>5, <3>3, <3>4 DEF OnceQuantized
    <3> QED
      BY <2>2, <3>5
  <2> QED
    BY <2>3, <2>4
<1>8. /\ Valid(model'.cfg) /\ DOMAIN model'.live = Tensors(model'.cfg)
      /\ DOMAIN model'.pack = Linears(model'.cfg)
      /\ \A n \in Linears(model'.cfg) : \E v \in 1 .. version' : OnceQuantized(n, v)'
  BY <1>4, <1>5, <1>7
<1> QED
  BY <1>2, <1>6, <1>8 DEF LoadInv, HasModel

LEMMA LoadKeepsBundle ==
  ASSUME BundleInv, LoadStep
  PROVE  BundleInv'
<1>1. ProcessInv /\ ForgeInv /\ ReadInv /\ LoadInv /\ ProcessInv'
  BY LoadingKeepsProcess DEF BundleInv
<1>2. CASE ProbeFails \/ ReadFails \/ BuildFails
  BY <1>2, OffKeepsBundle DEF ProbeFails, ReadFails, BuildFails, Exit
<1>3. UNCHANGED <<product, version, forge, file>>
  BY DEF LoadStep, Launch, Probe, LoadCheckpoint, ProbeFails, ReadItem, ReadFails, Build,
         BuildFails, Pack
<1>4. ForgeInv'
  BY <1>1, <1>3 DEF ForgeInv
<1>5. CASE Launch
  <2>1. PICK a \in product.commands : proc' = [Off EXCEPT !.pc = "probe", !.args = a]
    BY <1>5 DEF Launch
  <2>2. proc'.got = << >> /\ proc'.replaced \in BOOLEAN /\ proc'.pc = "probe"
    BY <2>1 DEF Off
  <2>3. ReadInv'
    BY <1>1, <1>3, <2>2, NothingRead
  <2>4. model' = NoModel
    BY <1>1, <1>5 DEF Launch, LoadInv, HasModel
  <2>5. LoadInv'
    BY <2>2, <2>4, NoModelLoaded
  <2> QED
    BY <1>1, <1>4, <2>3, <2>5 DEF BundleInv
<1>6. CASE Probe
  <2>1. /\ proc.pc = "probe" /\ proc' = [proc EXCEPT !.pc = "reading"] /\ UNCHANGED model
    BY <1>6 DEF Probe
  <2>2. proc'.got = << >> /\ proc'.replaced \in BOOLEAN /\ proc'.pc = "reading"
    BY <1>1, <2>1 DEF ProcessInv, ReadInv
  <2>3. ReadInv'
    BY <1>1, <1>3, <2>2, NothingRead
  <2>4. model' = NoModel
    BY <1>1, <2>1 DEF LoadInv, HasModel
  <2>5. LoadInv'
    BY <2>2, <2>4, NoModelLoaded
  <2> QED
    BY <1>1, <1>4, <2>3, <2>5 DEF BundleInv
<1>7. CASE LoadCheckpoint
  <2>1. proc.pc = "probe" /\ proc' = [proc EXCEPT !.pc = "loaded"]
    BY <1>7 DEF LoadCheckpoint
  <2>2. proc'.got = << >> /\ proc'.replaced \in BOOLEAN /\ proc'.pc = "loaded"
    BY <1>1, <2>1 DEF ProcessInv, ReadInv
  <2>3. ReadInv'
    BY <1>1, <1>3, <2>2, NothingRead
  <2> QED
    BY <1>1, <1>4, <1>7, <2>3, CheckpointLoads DEF BundleInv
<1>8. CASE ReadItem
  <2>1. proc.pc = "reading" /\ proc' = [proc EXCEPT !.got = Append(@, file[Len(@) + 1])]
        /\ UNCHANGED model
    BY <1>8 DEF ReadItem
  <2>2. proc'.pc = "reading"
    BY <1>1, <2>1 DEF ProcessInv
  <2>3. model' = NoModel
    BY <1>1, <2>1 DEF LoadInv, HasModel
  <2>4. LoadInv'
    BY <2>2, <2>3, NoModelLoaded
  <2> QED
    BY <1>1, <1>4, <1>8, <2>4, ReadItemKeeps DEF BundleInv
<1>9. CASE Build
  <2>1. proc' = [proc EXCEPT !.pc = "loaded", !.got = << >>]
    BY <1>9 DEF Build
  <2>2. proc'.got = << >> /\ proc'.replaced \in BOOLEAN /\ proc'.pc = "loaded"
    BY <1>1, <2>1 DEF ProcessInv, ReadInv
  <2>3. ReadInv'
    BY <1>1, <1>3, <2>2, NothingRead
  <2> QED
    BY <1>1, <1>4, <1>9, <2>3, BuildLoads DEF BundleInv
<1>10. CASE Pack
  <2>1. proc.pc = "loaded" /\ proc' = [proc EXCEPT !.pc = "up"]
    BY <1>10 DEF Pack
  <2>2. proc'.got = << >> /\ proc'.replaced \in BOOLEAN /\ proc'.pc = "up"
    BY <1>1, <2>1 DEF ProcessInv, ReadInv
  <2>3. ReadInv'
    BY <1>1, <1>3, <2>2, NothingRead
  <2> QED
    BY <1>1, <1>4, <1>10, <2>3, PackLoads DEF BundleInv
<1> QED
  BY <1>2, <1>5, <1>6, <1>7, <1>8, <1>9, <1>10 DEF LoadStep

LEMMA BundleKept ==
  ASSUME BundleInv, UNCHANGED bundleVars
  PROVE  BundleInv'
<1>1. ProcessInv'
  BY DEF BundleInv, bundleVars, ProcessInv, HasModel, FromBundle
<1>2. ForgeInv'
  BY DEF BundleInv, bundleVars, ForgeInv
<1>3. ReadInv'
  BY ReadKept DEF BundleInv, bundleVars
<1>4. LoadInv'
  BY LoadKept DEF BundleInv, bundleVars
<1> QED
  BY <1>1, <1>2, <1>3, <1>4 DEF BundleInv
-----------------------------------------------------------------------------
(* What the invariant says of every state.                                  *)
LEMMA InvLoadedIsOneSave == BundleInv => LoadedIsOneSave
BY DEF BundleInv, LoadInv, LoadedIsOneSave

LEMMA InvServesTernaryWeights == BundleInv => ServesTernaryWeights
<1> SUFFICES ASSUME BundleInv, proc.pc = "up", NEW n \in Linears(model.cfg)
             PROVE  \E v \in 1 .. version :
                      LET row == RowOf(v, n)
                      IN IF is_packed(model, n)
                           THEN /\ KernelRow(model.pack[n])
                                     = Scaled(Rounded(row, Alpha(row)), Alpha(row))
                                /\ InRange(row) => KernelRow(model.pack[n]) = ternary_ste(row)
                           ELSE model.live[n] = row
  BY DEF ServesTernaryWeights
<1>1. PICK v \in 1 .. version : OnceQuantized(n, v)
  BY DEF BundleInv, LoadInv, HasModel
<1> DEFINE row == RowOf(v, n)
<1>2. IsRow(row)
  BY RowOfIsRow DEF BundleInv, ForgeInv, ProcessInv
<1>3. quantize_rowwise_ternary(row) # NoPack
  BY <1>2, PackType
<1>4. KernelRow(quantize_rowwise_ternary(row)) = Scaled(Rounded(row, Alpha(row)), Alpha(row))
  BY <1>2, PackIsLossless
<1>5. InRange(row) => ternary_ste(row) = Scaled(Rounded(row, Alpha(row)), Alpha(row))
  BY DEF InRange, ternary_ste
<1> HIDE DEF row
<1>6. is_packed(model, n) => model.pack[n] = quantize_rowwise_ternary(row)
  BY <1>1 DEF OnceQuantized, is_packed, row
<1>7. ~ is_packed(model, n) => model.live[n] = row
  BY <1>1, <1>3 DEF OnceQuantized, is_packed, row
<1> QED
  BY <1>4, <1>5, <1>6, <1>7 DEF row

LEMMA InvTypeOK == BundleInv => TypeOK
<1> SUFFICES ASSUME BundleInv PROVE TypeOK
  OBVIOUS
<1> DEFINE f == product.forged
           n == Len(Layout(f))
<1>1. ProcessInv /\ ForgeInv /\ ReadInv /\ LoadInv
  BY DEF BundleInv
<1>2. f.layers \in Nat /\ n \in Nat
  BY <1>1, ForgedLayers, LayoutIs
<1>3. version \in 1 .. Len(product.weights) /\ Len(product.weights) \in Nat
  BY <1>1, BundleAssumption DEF ForgeInv, ProcessInv
<1>4. forge \in [busy : BOOLEAN, save : 1 .. Len(product.weights)]
  <2>1. 1 .. version \subseteq 1 .. Len(product.weights)
    BY <1>3
  <2> QED
    BY <1>1, <2>1 DEF ForgeInv
<1>5. /\ Len(file) <= n
      /\ LET items == Items(f, forge.save)
         IN \A i \in DOMAIN file : file[i] = items[i]
  <2> DEFINE all == Items(f, forge.save)
  <2>1. PICK k \in 0 .. n : file = First(all, k)
    BY <1>1 DEF ForgeInv
  <2> HIDE DEF all, n
  <2>2. k \in Nat /\ file = First(file, k)
    <3>1. k \in Nat
      BY <1>2
    <3> QED
      BY <2>1, <3>1 DEF First
  <2>3. Len(file) = k
    BY <2>2, OneMore
  <2>4. \A i \in DOMAIN file : file[i] = all[i]
    BY <2>1 DEF First
  <2>5. k <= n
    BY <1>2
  <2> QED
    BY <2>3, <2>4, <2>5 DEF all
<1>6. Len(proc.got) <= n
  <2>1. PICK k \in 0 .. n : proc.got = First(proc.got, k)
    BY <1>1 DEF ReadInv
  <2> HIDE DEF n
  <2>2. k \in Nat /\ k <= n
    BY <1>2
  <2>3. Len(proc.got) = k
    BY <2>1, <2>2, OneMore
  <2> QED
    BY <2>2, <2>3
<1>7. /\ proc.pc \in {"off", "probe", "reading", "loaded", "up"}
      /\ proc.args \in product.commands \cup {NoCommand} /\ proc.replaced \in BOOLEAN
  BY <1>1 DEF ProcessInv, ReadInv
<1>8. ASSUME HasModel
      PROVE  model # NoModel
  <2>1. DOMAIN model.live = Tensors(model.cfg) /\ Tensors(model.cfg) # {}
    BY <1>1, <1>8, TensorsFinite DEF LoadInv, ProcessInv, Servable
  <2>2. DOMAIN NoModel.live = {}
    BY DEF NoModel
  <2> QED
    BY <2>1, <2>2
<1>9. model = NoModel <=> proc.pc \in {"off", "probe", "reading"}
  BY <1>1, <1>7, <1>8 DEF LoadInv, HasModel
<1>10. ASSUME model # NoModel
       PROVE  /\ Valid(model.cfg)
              /\ DOMAIN model.live = Tensors(model.cfg)
              /\ DOMAIN model.pack = Linears(model.cfg)
              /\ \A t \in Linears(model.cfg) : \A k \in DOMAIN model.pack[t].packed :
                   model.pack[t].packed[k] \in 0 .. 255
  <2>1. /\ HasModel /\ Valid(model.cfg)
        /\ DOMAIN model.live = Tensors(model.cfg) /\ DOMAIN model.pack = Linears(model.cfg)
    BY <1>1, <1>10 DEF LoadInv
  <2>2. ASSUME NEW t \in Linears(model.cfg), NEW k \in DOMAIN model.pack[t].packed
        PROVE  model.pack[t].packed[k] \in 0 .. 255
    <3>1. PICK v \in 1 .. version : OnceQuantized(t, v)
      BY <1>1, <2>1 DEF LoadInv
    <3>2. CASE model.pack[t] = NoPack
      <4>1. DOMAIN NoPack.packed = {}
        BY DEF NoPack
      <4> QED
        BY <3>2, <4>1
    <3>3. CASE model.pack[t] = quantize_rowwise_ternary(RowOf(v, t))
      <4>1. v \in 1 .. Len(product.weights)
        BY <1>3
      <4>2. IsRow(RowOf(v, t))
        BY <1>1, <4>1, RowOfIsRow DEF ProcessInv
      <4> DEFINE pack == quantize_rowwise_ternary(RowOf(v, t))
      <4>3. \A j \in DOMAIN pack.packed : pack.packed[j] \in 0 .. 255
        BY <4>2, PackType
      <4> HIDE DEF pack
      <4> QED
        BY <3>3, <4>3 DEF pack
    <3> QED
      BY <3>1, <3>2, <3>3 DEF OnceQuantized
  <2> QED
    BY <2>1, <2>2
<1>11. product \in Products
  BY <1>1 DEF ProcessInv
<1> HIDE DEF n
<1> QED
  BY <1>3, <1>4, <1>5, <1>6, <1>7, <1>9, <1>10, <1>11 DEF TypeOK, n
=============================================================================
