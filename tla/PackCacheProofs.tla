--------------------------- MODULE PackCacheProofs ---------------------------
(***************************************************************************)
(* Theorems about PackCache, for any set of packs, biases, addresses and   *)
(* threads, any number of layers in a call and any number of calls.        *)
(***************************************************************************)
EXTENDS PackCache, SequenceTheorems, TLAPS

Types ==
  /\ TypeOK
  /\ at \in [Threads -> Nat]

(* The packs a call has borrowed are alive, and it works on one at least.   *)
Live ==
  \A t \in Threads : phase[t] # "idle" =>
    \A i \in 1 .. Len(layers[t]) : heap[layers[t][i].addr] \in Packs

(* An entry holds weights; every layer that has been at is cached.          *)
Entries == \A a \in Addresses : packs[a] = Nothing \/ packs[a].weights \in Packs

Looking(t) == phase[t] \in {"looking", "multiplying"}

Cached ==
  \A t \in Threads : \A i \in 1 .. Len(layers[t]) :
    Looking(t) \/ (phase[t] = "caching" /\ i < at[t]) =>
      packs[layers[t][i].addr] # Nothing

Uploads ==
  \A a \in Addresses :
    /\ uploads[a] <= 1
    /\ packs[a] = Nothing => uploads[a] = 0

PackInv == Types /\ Live /\ Entries /\ Cached /\ Uploads

-----------------------------------------------------------------------------
LEMMA NothingType == Nothing \in Result /\ Nothing.weights \notin Packs
BY PackAssumption DEF Nothing, Result, Options

LEMMA InitPackInv == Init => PackInv
<1> SUFFICES ASSUME Init PROVE PackInv
  OBVIOUS
<1>1. Types
  <2>1. packs \in [Addresses -> Result]
    BY NothingType DEF Init
  <2> QED
    BY <2>1 DEF Init, Types, TypeOK
<1>2. Live /\ Entries /\ Cached /\ Uploads
  BY DEF Init, Live, Entries, Cached, Looking, Uploads
<1> QED
  BY <1>1, <1>2 DEF PackInv

LEMMA LayerType ==
  ASSUME PackInv, NEW t \in Threads, NEW i \in 1 .. Len(layers[t])
  PROVE  layers[t][i].addr \in Addresses /\ layers[t][i].bias \in Options
<1>1. layers[t] \in Seq(Layer)
  BY DEF PackInv, Types, TypeOK
<1>2. layers[t][i] \in Layer
  BY <1>1
<1> QED
  BY <1>2 DEF Layer

(* What a thread works on, in any phase of a call.                          *)
LEMMA CurrentType ==
  ASSUME PackInv, NEW t \in Threads, phase[t] # "idle"
  PROVE  /\ at[t] \in 1 .. Len(layers[t]) /\ Len(layers[t]) \in Nat
         /\ Current(t) = layers[t][at[t]]
         /\ Current(t) \in Layer
         /\ Current(t).addr \in Addresses /\ Current(t).bias \in Options
         /\ heap[Current(t).addr] \in Packs
<1>1. layers[t] \in Seq(Layer) /\ at[t] \in 1 .. Len(layers[t])
  BY DEF PackInv, Types, TypeOK
<1>2. layers[t][at[t]] \in Layer
  BY <1>1
<1> QED
  BY <1>1, <1>2 DEF PackInv, Live, Current, Layer

(* The entry cached_pack leaves behind.                                     *)
LEMMA EntryType ==
  ASSUME PackInv, NEW t \in Threads, phase[t] # "idle"
  PROVE  /\ Entry(Current(t)) \in Result
         /\ Entry(Current(t)).weights \in Packs
         /\ Entry(Current(t)) # Nothing
<1> DEFINE l == Current(t)
           e == packs[l.addr]
<1>1. l.addr \in Addresses /\ l.bias \in Options /\ heap[l.addr] \in Packs
  BY CurrentType
<1>2. e \in Result
  BY <1>1 DEF PackInv, Types, TypeOK
<1>3. e = Nothing \/ e.weights \in Packs
  BY <1>1 DEF PackInv, Entries
<1>4. Entry(l) \in Result /\ Entry(l).weights \in Packs
  <2> HIDE DEF l
  <2>1. CASE e = Nothing
    <3>1. Entry(l) = [weights |-> heap[l.addr], bias |-> l.bias]
      BY <2>1 DEF Entry, Key
    <3> QED
      BY <1>1, <3>1 DEF Result
  <2>2. CASE e # Nothing
    <3>1. Entry(l) = e \/ Entry(l) = [e EXCEPT !.bias = l.bias]
      BY <2>2 DEF Entry, Key
    <3> QED
      BY <1>1, <1>2, <1>3, <2>2, <3>1 DEF Result
  <2> QED
    BY <2>1, <2>2
<1> QED
  BY <1>4, NothingType

-----------------------------------------------------------------------------
(* Steps of the owner of the packs.                                         *)
LEMMA OwnerStep == PackInv /\ Owner => PackInv'
<1> SUFFICES ASSUME PackInv, NEW a \in Addresses,
                    Drop(a) \/ \E p \in Packs : Quantize(a, p)
             PROVE  PackInv'
  BY DEF Owner
<1>1. CASE Drop(a)
  <2>1. Types'
    BY <1>1 DEF Drop, PackInv, Types, TypeOK
  <2>2. Live'
    <3> SUFFICES ASSUME NEW t \in Threads, phase[t] # "idle", NEW i \in 1 .. Len(layers[t])
                 PROVE  heap'[layers[t][i].addr] \in Packs
      BY <1>1 DEF Drop, Live
    <3>1. layers[t][i].addr # a
      BY <1>1 DEF Drop, Borrowed
    <3>2. heap[layers[t][i].addr] \in Packs
      BY DEF PackInv, Live
    <3>3. layers[t][i].addr \in Addresses
      BY LayerType
    <3> QED
      BY <1>1, <3>1, <3>2, <3>3 DEF Drop, PackInv, Types, TypeOK
  <2>3. Entries' /\ Cached' /\ Uploads'
    BY <1>1 DEF Drop, PackInv, Entries, Cached, Looking, Uploads
  <2> QED
    BY <2>1, <2>2, <2>3 DEF PackInv
<1>2. ASSUME NEW p \in Packs, Quantize(a, p) PROVE PackInv'
  <2>1. Types'
    BY <1>2 DEF Quantize, PackInv, Types, TypeOK
  <2>2. Live'
    <3> SUFFICES ASSUME NEW t \in Threads, phase[t] # "idle", NEW i \in 1 .. Len(layers[t])
                 PROVE  heap'[layers[t][i].addr] \in Packs
      BY <1>2 DEF Quantize, Live
    <3>1. heap[layers[t][i].addr] \in Packs /\ layers[t][i].addr \in Addresses
      BY LayerType DEF PackInv, Live
    <3> QED
      BY <1>2, <3>1, PackAssumption DEF Quantize, PackInv, Types, TypeOK
  <2>3. Entries' /\ Cached'
    BY <1>2 DEF Quantize, PackInv, Entries, Cached, Looking
  <2>4. Uploads'
    BY <1>2 DEF Quantize, PackInv, Types, TypeOK, Uploads
  <2> QED
    BY <2>1, <2>2, <2>3, <2>4 DEF PackInv
<1> QED
  BY <1>1, <1>2

(* A thread starts a call.                                                  *)
LEMMA CallStarts ==
  ASSUME PackInv, NEW t \in Threads, NEW n \in 1 .. MaxLayers,
         NEW ls \in [1 .. n -> Layer], Call(t, ls)
  PROVE  PackInv'
<1> DEFINE uses(a) == {<<heap[a], ls[i].bias>> : i \in {j \in 1 .. Len(ls) : ls[j].addr = a}}
<1>1. n \in Nat /\ n >= 1 /\ ls \in Seq(Layer) /\ Len(ls) = n
  <2>1. n \in Nat /\ n >= 1
    BY PackAssumption
  <2> QED
    BY <2>1, SeqDef, LenProperties
<1>2. \A i \in 1 .. Len(ls) :
        ls[i].addr \in Addresses /\ ls[i].bias \in Options /\ heap[ls[i].addr] \in Packs
  BY <1>1 DEF Call, Callable, PackInv, Types, TypeOK, Layer
<1>3. Types'
  <2>1. \A a \in Addresses : uses(a) \in SUBSET (Packs \X Options)
    BY <1>2
  <2>2. used' \in [Addresses -> SUBSET (Packs \X Options)]
    <3>1. used' = [a \in Addresses |-> used[a] \cup uses(a)]
      BY DEF Call
    <3> HIDE DEF uses
    <3> QED
      BY <2>1, <3>1 DEF PackInv, Types, TypeOK
  <2>3. layers' \in [Threads -> Seq(Layer)]
    BY <1>1 DEF Call, PackInv, Types, TypeOK
  <2>4. /\ at' \in [Threads -> Nat]
        /\ \A x \in Threads : phase'[x] # "idle" => at'[x] \in 1 .. Len(layers'[x])
    BY <1>1 DEF Call, PackInv, Types, TypeOK
  <2>5. out' \in [Threads -> Seq(Result)]
    <3>1. << >> \in Seq(Result)
      OBVIOUS
    <3> QED
      BY <3>1 DEF Call, PackInv, Types, TypeOK
  <2>6. /\ phase' \in [Threads -> {"idle", "caching", "looking", "multiplying"}]
        /\ calls' \in Nat /\ heap' = heap /\ packs' = packs /\ uploads' = uploads
    BY DEF Call, PackInv, Types, TypeOK
  <2> QED
    BY <2>2, <2>3, <2>4, <2>5, <2>6 DEF PackInv, Types, TypeOK
<1>4. /\ phase' = [phase EXCEPT ![t] = "caching"] /\ at' = [at EXCEPT ![t] = 1]
      /\ layers' = [layers EXCEPT ![t] = ls]
      /\ heap' = heap /\ packs' = packs /\ uploads' = uploads
  BY DEF Call
<1>5. Live'
  BY <1>2, <1>4 DEF PackInv, Types, TypeOK, Live
<1>6. Cached'
  BY <1>1, <1>4 DEF PackInv, Types, TypeOK, Cached, Looking
<1>7. Entries' /\ Uploads'
  BY <1>4 DEF PackInv, Entries, Uploads
<1> QED
  BY <1>3, <1>5, <1>6, <1>7 DEF PackInv

(* A thread serves its call.                                                *)
LEMMA CachedPackStep ==
  ASSUME PackInv, NEW t \in Threads, CachedPack(t)
  PROVE  PackInv'
<1> DEFINE l == Current(t)
           k == l.addr
           E == Entry(l)
<1>1. /\ at[t] \in 1 .. Len(layers[t]) /\ Len(layers[t]) \in Nat /\ l = layers[t][at[t]]
      /\ k \in Addresses /\ heap[k] \in Packs
  BY CurrentType DEF CachedPack
<1>2. E \in Result /\ E.weights \in Packs /\ E # Nothing
  BY EntryType DEF CachedPack
<1>3. /\ packs' = [packs EXCEPT ![k] = E]
      /\ uploads' = [uploads EXCEPT ![k] = IF packs[k] = Nothing THEN uploads[k] + 1 ELSE uploads[k]]
  BY DEF CachedPack, Key, Upload
<1>4. phase[t] = "caching" /\ heap' = heap /\ layers' = layers
      /\ UNCHANGED <<out, used, calls>>
  BY DEF CachedPack
<1>5. \/ at[t] < Len(layers[t]) /\ at' = [at EXCEPT ![t] = at[t] + 1] /\ phase' = phase
      \/ /\ at[t] = Len(layers[t]) /\ at' = [at EXCEPT ![t] = 1]
         /\ phase' = [phase EXCEPT ![t] = "looking"]
  BY DEF CachedPack, Advance
<1> HIDE DEF l, k, E
<1>6. Types'
  <2>1. packs' \in [Addresses -> Result] /\ uploads' \in [Addresses -> Nat]
    BY <1>1, <1>2, <1>3 DEF PackInv, Types, TypeOK
  <2>2. /\ phase' \in [Threads -> {"idle", "caching", "looking", "multiplying"}]
        /\ at' \in [Threads -> Nat]
    <3>1. at[t] + 1 \in Nat /\ 1 \in Nat /\ at \in [Threads -> Nat]
      BY DEF PackInv, Types
    <3>2. at' \in [Threads -> Nat]
      BY <3>1, <1>5
    <3>3. phase \in [Threads -> {"idle", "caching", "looking", "multiplying"}]
      BY DEF PackInv, Types, TypeOK
    <3>4. phase' \in [Threads -> {"idle", "caching", "looking", "multiplying"}]
      BY <3>3, <1>5
    <3> QED
      BY <3>2, <3>4
  <2>3. \A x \in Threads : phase'[x] # "idle" => at'[x] \in 1 .. Len(layers'[x])
    BY <1>1, <1>4, <1>5 DEF PackInv, Types, TypeOK
  <2> QED
    BY <2>1, <2>2, <2>3, <1>4 DEF PackInv, Types, TypeOK
<1>7. Live'
  BY <1>4, <1>5 DEF PackInv, Types, TypeOK, Live
<1>8. \A a \in Addresses : packs'[a] = IF a = k THEN E ELSE packs[a]
  BY <1>1, <1>3 DEF PackInv, Types, TypeOK
<1>9. Entries'
  BY <1>2, <1>8 DEF PackInv, Entries
<1>10. Cached'
  <2> SUFFICES ASSUME NEW x \in Threads, NEW i \in 1 .. Len(layers[x]),
                      Looking(x)' \/ (phase'[x] = "caching" /\ i < at'[x])
               PROVE  packs'[layers[x][i].addr] # Nothing
    BY <1>4 DEF Cached
  <2>1. layers[x][i].addr \in Addresses
    BY LayerType
  <2>2. CASE x = t /\ i = at[t]
    BY <1>1, <1>2, <1>8, <2>1, <2>2 DEF k
  <2>3. CASE x = t /\ i # at[t]
    <3>1. at[t] \in Nat /\ i \in Nat /\ t \in DOMAIN phase /\ t \in DOMAIN at
      BY <1>1 DEF PackInv, Types, TypeOK
    <3>2. i < at[t]
      BY <1>1, <1>4, <1>5, <2>3, <3>1 DEF Looking
    <3>3. packs[layers[x][i].addr] # Nothing
      BY <1>4, <2>3, <3>2 DEF PackInv, Cached
    <3> QED
      BY <1>2, <1>8, <2>1, <3>3
  <2>4. CASE x # t
    <3>1. phase'[x] = phase[x] /\ at'[x] = at[x]
      BY <1>5, <2>4 DEF PackInv, Types, TypeOK
    <3>2. packs[layers[x][i].addr] # Nothing
      BY <3>1 DEF PackInv, Cached, Looking
    <3> QED
      BY <1>2, <1>8, <2>1, <3>2
  <2> QED
    BY <2>2, <2>3, <2>4
<1>11. Uploads'
  <2> SUFFICES ASSUME NEW a \in Addresses
               PROVE  uploads'[a] <= 1 /\ (packs'[a] = Nothing => uploads'[a] = 0)
    BY DEF Uploads
  <2>1. uploads[a] \in Nat /\ uploads[a] <= 1 /\ (packs[a] = Nothing => uploads[a] = 0)
    BY DEF PackInv, Types, TypeOK, Uploads
  <2>2. uploads'[a] = IF a = k /\ packs[k] = Nothing THEN uploads[a] + 1 ELSE uploads[a]
    BY <1>3 DEF PackInv, Types, TypeOK
  <2> QED
    BY <1>2, <1>8, <2>1, <2>2
<1> QED
  BY <1>6, <1>7, <1>9, <1>10, <1>11 DEF PackInv

LEMMA DevicePackStep ==
  ASSUME PackInv, NEW t \in Threads, DevicePack(t)
  PROVE  PackInv'
<1>1. phase[t] = "looking" /\ phase' = [phase EXCEPT ![t] = "multiplying"]
      /\ UNCHANGED <<heap, packs, layers, at, out, uploads, used, calls>>
  BY DEF DevicePack
<1>2. Types' /\ Live'
  BY <1>1 DEF PackInv, Types, TypeOK, Live
<1>3. Cached'
  BY <1>1 DEF PackInv, Types, TypeOK, Cached, Looking
<1> QED
  BY <1>1, <1>2, <1>3 DEF PackInv, Entries, Uploads

LEMMA MultiplyStep ==
  ASSUME PackInv, NEW t \in Threads, Multiply(t)
  PROVE  PackInv'
<1> DEFINE r == packs[Key(Current(t))]
<1>1. /\ at[t] \in 1 .. Len(layers[t]) /\ Len(layers[t]) \in Nat
      /\ Current(t).addr \in Addresses
  BY CurrentType DEF Multiply
<1>2. r \in Result
  BY <1>1 DEF PackInv, Types, TypeOK, Key
<1>3. phase[t] = "multiplying" /\ out' = [out EXCEPT ![t] = Append(out[t], r)]
      /\ UNCHANGED <<heap, packs, layers, uploads, used, calls>>
  BY DEF Multiply
<1>4. \/ /\ at[t] < Len(layers[t]) /\ at' = [at EXCEPT ![t] = at[t] + 1]
         /\ phase' = [phase EXCEPT ![t] = "looking"]
      \/ at[t] = Len(layers[t]) /\ phase' = [phase EXCEPT ![t] = "idle"] /\ at' = at
  BY DEF Multiply
<1> HIDE DEF r
<1>5. Types'
  <2>1. out' \in [Threads -> Seq(Result)]
    BY <1>2, <1>3 DEF PackInv, Types, TypeOK
  <2>2. /\ phase' \in [Threads -> {"idle", "caching", "looking", "multiplying"}]
        /\ at' \in [Threads -> Nat]
    <3>1. at[t] + 1 \in Nat /\ 1 \in Nat /\ at \in [Threads -> Nat]
      BY DEF PackInv, Types
    <3>2. at' \in [Threads -> Nat]
      BY <3>1, <1>4
    <3>3. phase \in [Threads -> {"idle", "caching", "looking", "multiplying"}]
      BY DEF PackInv, Types, TypeOK
    <3>4. phase' \in [Threads -> {"idle", "caching", "looking", "multiplying"}]
      BY <3>3, <1>4
    <3> QED
      BY <3>2, <3>4
  <2>3. \A x \in Threads : phase'[x] # "idle" => at'[x] \in 1 .. Len(layers[x])
    BY <1>1, <1>3, <1>4 DEF PackInv, Types, TypeOK
  <2> QED
    BY <1>3, <2>1, <2>2, <2>3 DEF PackInv, Types, TypeOK
<1>6. Live'
  BY <1>3, <1>4 DEF PackInv, Types, TypeOK, Live
<1>7. Cached'
  BY <1>3, <1>4 DEF PackInv, Types, TypeOK, Cached, Looking
<1> QED
  BY <1>3, <1>5, <1>6, <1>7 DEF PackInv, Entries, Uploads

LEMMA FallBackStep ==
  ASSUME PackInv, NEW t \in Threads, FallBack(t)
  PROVE  PackInv'
<1> DEFINE r == [i \in 1 .. Len(layers[t]) |-> Reference(layers[t][i])]
<1>1. \A i \in 1 .. Len(layers[t]) : Reference(layers[t][i]) \in Result
  <2> SUFFICES ASSUME NEW i \in 1 .. Len(layers[t]) PROVE Reference(layers[t][i]) \in Result
    OBVIOUS
  <2>1. layers[t][i].bias \in Options /\ heap[layers[t][i].addr] \in Packs
    BY LayerType DEF FallBack, PackInv, Live
  <2> QED
    BY <2>1 DEF Reference, Result
<1>2. r \in Seq(Result)
  <2>1. Len(layers[t]) \in Nat
    BY DEF PackInv, Types, TypeOK
  <2> QED
    BY <1>1, <2>1, SeqDef
<1>3. phase' = [phase EXCEPT ![t] = "idle"] /\ out' = [out EXCEPT ![t] = r]
      /\ UNCHANGED <<heap, packs, layers, at, uploads, used, calls>>
  BY DEF FallBack
<1> HIDE DEF r
<1>4. Types' /\ Live'
  BY <1>2, <1>3 DEF PackInv, Types, TypeOK, Live
<1>5. Cached'
  BY <1>3 DEF PackInv, Types, TypeOK, Cached, Looking
<1> QED
  BY <1>3, <1>4, <1>5 DEF PackInv, Entries, Uploads

LEMMA NextPackInv == PackInv /\ [Next]_vars => PackInv'
<1> SUFFICES ASSUME PackInv, [Next]_vars PROVE PackInv'
  OBVIOUS
<1>1. CASE Owner
  BY <1>1, OwnerStep
<1>2. ASSUME NEW t \in Threads, NEW n \in 1 .. MaxLayers,
             NEW ls \in [1 .. n -> Layer], Call(t, ls)
      PROVE  PackInv'
  BY <1>2, CallStarts
<1>3. ASSUME NEW t \in Threads, CallStep(t) PROVE PackInv'
  BY <1>3, CachedPackStep, DevicePackStep, MultiplyStep, FallBackStep DEF CallStep
<1>4. CASE UNCHANGED vars
  BY <1>4 DEF vars, PackInv, Types, TypeOK, Live, Entries, Cached, Looking, Uploads
<1> QED
  BY <1>1, <1>2, <1>3, <1>4 DEF Next

LEMMA AlwaysPackInv == Spec => []PackInv
BY InitPackInv, NextPackInv, PTL DEF Spec

-----------------------------------------------------------------------------
(* Looking up a pack never meets "device pack missing".                     *)
THEOREM LookupsFindTheirPack == Spec => []NeverMissing
<1>1. PackInv => NeverMissing
  BY LayerType DEF PackInv, Cached, Looking, NeverMissing, Key
<1> QED
  BY <1>1, AlwaysPackInv, PTL

(* Racing threads upload the weights of a pack once.                        *)
THEOREM WeightsUploadedOnce == Spec => []UploadedOnce
<1>1. PackInv => UploadedOnce
  BY DEF PackInv, Uploads, UploadedOnce
<1> QED
  BY <1>1, AlwaysPackInv, PTL

-----------------------------------------------------------------------------
(* What callers have passed for an address: a call in flight is recorded,   *)
(* and entries and results are made of what is recorded.                    *)
Recorded ==
  \A t \in Threads : phase[t] # "idle" =>
    \A i \in 1 .. Len(layers[t]) :
      <<heap[layers[t][i].addr], layers[t][i].bias>> \in used[layers[t][i].addr]

Passed(r, a) == r.weights \in WeightsUsed(a) /\ r.bias \in BiasesUsed(a)

EntryUsed == \A a \in Addresses : packs[a] # Nothing => Passed(packs[a], a)

GoodResults(t) ==
  \A j \in 1 .. Len(out[t]) : Passed(out[t][j], layers[t][j].addr)

Results ==
  \A t \in Threads :
    /\ phase[t] = "caching" => Len(out[t]) = 0
    /\ Looking(t) => Len(out[t]) = at[t] - 1 /\ GoodResults(t)

UseInv == PackInv /\ Recorded /\ EntryUsed /\ Results

LEMMA InitUseInv == Init => UseInv
<1> SUFFICES ASSUME Init PROVE UseInv
  OBVIOUS
<1>1. Recorded /\ EntryUsed /\ Results
  BY DEF Init, Recorded, EntryUsed, Results, Looking
<1> QED
  BY <1>1, InitPackInv DEF UseInv

(* What was passed stays passed.                                            *)
LEMMA PassedStays ==
  ASSUME NEW a \in Addresses, NEW r, Passed(r, a), used[a] \subseteq used'[a]
  PROVE  r.weights \in WeightsUsed(a)' /\ r.bias \in BiasesUsed(a)'
BY DEF Passed, WeightsUsed, BiasesUsed

LEMMA CallIsPassed ==
  ASSUME NEW a, NEW p, NEW b, <<p, b>> \in used[a]
  PROVE  p \in WeightsUsed(a) /\ b \in BiasesUsed(a)
<1>1. p = <<p, b>>[1] /\ b = <<p, b>>[2]
  OBVIOUS
<1> QED
  BY <1>1 DEF WeightsUsed, BiasesUsed

LEMMA ResultsStayGood ==
  ASSUME UseInv, NEW t \in Threads, Looking(t),
         layers'[t] = layers[t], out'[t] = out[t],
         \A a \in Addresses : used[a] \subseteq used'[a]
  PROVE  GoodResults(t)'
<1> SUFFICES ASSUME NEW j \in 1 .. Len(out[t])
             PROVE  Passed(out[t][j], layers[t][j].addr)'
  BY DEF GoodResults, Passed
<1>1. j \in 1 .. Len(layers[t])
  <2>1. at[t] \in 1 .. Len(layers[t]) /\ Len(out[t]) = at[t] - 1 /\ Len(layers[t]) \in Nat
    BY DEF UseInv, Results, PackInv, Types, TypeOK, Looking
  <2> QED
    BY <2>1
<1>2. layers[t][j].addr \in Addresses
  BY <1>1, LayerType DEF UseInv
<1>3. Passed(out[t][j], layers[t][j].addr)
  BY DEF UseInv, Results, GoodResults
<1> QED
  BY <1>2, <1>3, PassedStays DEF Passed, WeightsUsed, BiasesUsed

LEMMA OwnerUse == UseInv /\ Owner => UseInv'
<1> SUFFICES ASSUME UseInv, NEW a \in Addresses,
                    Drop(a) \/ \E p \in Packs : Quantize(a, p)
             PROVE  UseInv'
  BY DEF Owner
<1>1. UNCHANGED <<packs, phase, layers, at, out, used, calls>>
  BY DEF Drop, Quantize
<1>2. PackInv'
  BY OwnerStep DEF UseInv, Owner
<1>3. ASSUME NEW t \in Threads, phase[t] # "idle", NEW i \in 1 .. Len(layers[t])
      PROVE  heap'[layers[t][i].addr] = heap[layers[t][i].addr]
  <2>1. layers[t][i].addr \in Addresses /\ heap[layers[t][i].addr] \in Packs
    BY <1>3, LayerType DEF UseInv, PackInv, Live
  <2>2. layers[t][i].addr # a
    BY <1>3, <2>1, PackAssumption DEF Drop, Quantize, Borrowed
  <2>3. \E v : heap' = [heap EXCEPT ![a] = v]
    BY DEF Drop, Quantize
  <2> QED
    BY <2>1, <2>2, <2>3 DEF UseInv, PackInv, Types, TypeOK
<1>4. Recorded'
  BY <1>1, <1>3 DEF UseInv, Recorded
<1>5. EntryUsed'
  BY <1>1 DEF UseInv, EntryUsed, Passed, WeightsUsed, BiasesUsed
<1>6. Results'
  <2> SUFFICES ASSUME NEW t \in Threads
               PROVE  /\ phase[t] = "caching" => Len(out[t]) = 0
                      /\ Looking(t) => Len(out[t]) = at[t] - 1 /\ GoodResults(t)'
    BY <1>1 DEF Results, Looking
  <2>1. ASSUME Looking(t) PROVE GoodResults(t)'
    BY <2>1, <1>1, ResultsStayGood DEF Looking
  <2> QED
    BY <2>1 DEF UseInv, Results
<1> QED
  BY <1>2, <1>4, <1>5, <1>6 DEF UseInv

LEMMA CallUse ==
  ASSUME UseInv, NEW t \in Threads, NEW n \in 1 .. MaxLayers,
         NEW ls \in [1 .. n -> Layer], Call(t, ls)
  PROVE  UseInv'
<1> DEFINE uses(a) == {<<heap[a], ls[i].bias>> : i \in {j \in 1 .. Len(ls) : ls[j].addr = a}}
<1>1. PackInv'
  BY CallStarts DEF UseInv
<1>2. /\ phase' = [phase EXCEPT ![t] = "caching"] /\ layers' = [layers EXCEPT ![t] = ls]
      /\ out' = [out EXCEPT ![t] = << >>] /\ at' = [at EXCEPT ![t] = 1]
      /\ heap' = heap /\ packs' = packs
      /\ used' = [a \in Addresses |-> used[a] \cup uses(a)]
  BY DEF Call
<1>3. \A i \in 1 .. Len(ls) : <<heap[ls[i].addr], ls[i].bias>> \in uses(ls[i].addr)
  OBVIOUS
<1>4. \A i \in 1 .. Len(ls) : ls[i].addr \in Addresses
  <2>1. n \in Nat /\ Len(ls) = n
    BY PackAssumption, SeqDef, LenProperties
  <2> QED
    BY <2>1 DEF Layer
<1> HIDE DEF uses
<1>5. \A a \in Addresses : used[a] \subseteq used'[a] /\ uses(a) \subseteq used'[a]
  BY <1>2
<1>6. Recorded'
  <2> SUFFICES ASSUME NEW x \in Threads, phase'[x] # "idle", NEW i \in 1 .. Len(layers'[x])
               PROVE  <<heap[layers'[x][i].addr], layers'[x][i].bias>> \in used'[layers'[x][i].addr]
    BY <1>2 DEF Recorded
  <2>1. CASE x = t
    <3>1. layers'[x] = ls
      BY <1>2, <2>1 DEF UseInv, PackInv, Types, TypeOK
    <3> QED
      BY <3>1, <1>3, <1>4, <1>5
  <2>2. CASE x # t
    <3>1. layers'[x] = layers[x] /\ phase'[x] = phase[x]
      BY <1>2, <2>2 DEF UseInv, PackInv, Types, TypeOK
    <3>2. layers[x][i].addr \in Addresses
      BY <3>1, LayerType DEF UseInv
    <3> QED
      BY <3>1, <3>2, <1>5 DEF UseInv, Recorded
  <2> QED
    BY <2>1, <2>2
<1>7. EntryUsed'
  <2> SUFFICES ASSUME NEW a \in Addresses, packs[a] # Nothing
               PROVE  packs[a].weights \in WeightsUsed(a)' /\ packs[a].bias \in BiasesUsed(a)'
    BY <1>2 DEF EntryUsed, Passed, WeightsUsed, BiasesUsed
  <2> QED
    BY <1>5, PassedStays DEF UseInv, EntryUsed
<1>8. Results'
  <2> SUFFICES ASSUME NEW x \in Threads
               PROVE  /\ phase'[x] = "caching" => Len(out'[x]) = 0
                      /\ Looking(x)' => Len(out'[x]) = at'[x] - 1 /\ GoodResults(x)'
    BY DEF Results
  <2>1. CASE x = t
    <3>1. phase'[x] = "caching" /\ out'[x] = << >>
      BY <1>2, <2>1 DEF UseInv, PackInv, Types, TypeOK
    <3> QED
      BY <3>1 DEF Looking
  <2>2. CASE x # t
    <3>1. /\ layers'[x] = layers[x] /\ phase'[x] = phase[x]
          /\ out'[x] = out[x] /\ at'[x] = at[x]
      BY <1>2, <2>2 DEF UseInv, PackInv, Types, TypeOK
    <3>2. ASSUME Looking(x) PROVE GoodResults(x)'
      BY <3>1, <3>2, <1>2, <1>5, ResultsStayGood
    <3> QED
      BY <3>1, <3>2 DEF UseInv, Results, Looking
  <2> QED
    BY <2>1, <2>2
<1> QED
  BY <1>1, <1>6, <1>7, <1>8 DEF UseInv

LEMMA CachedPackUse ==
  ASSUME UseInv, NEW t \in Threads, CachedPack(t)
  PROVE  UseInv'
<1> DEFINE l == Current(t)
           E == Entry(l)
<1>1. PackInv'
  BY CachedPackStep DEF UseInv
<1>2. /\ at[t] \in 1 .. Len(layers[t]) /\ l = layers[t][at[t]]
      /\ l.addr \in Addresses /\ l.bias \in Options
  BY CurrentType DEF CachedPack, UseInv
<1>3. /\ packs' = [packs EXCEPT ![l.addr] = E]
      /\ UNCHANGED <<heap, layers, out, used>> /\ phase[t] = "caching"
  BY DEF CachedPack, Key
<1>4. \/ at' = [at EXCEPT ![t] = at[t] + 1] /\ phase' = phase
      \/ at' = [at EXCEPT ![t] = 1] /\ phase' = [phase EXCEPT ![t] = "looking"]
  BY DEF CachedPack, Advance
<1>5. heap[l.addr] \in WeightsUsed(l.addr) /\ l.bias \in BiasesUsed(l.addr)
  <2>1. <<heap[l.addr], l.bias>> \in used[l.addr]
    BY <1>2, <1>3 DEF UseInv, Recorded
  <2> QED
    BY <2>1, CallIsPassed
<1>6. Passed(E, l.addr)
  <2> DEFINE e == packs[l.addr]
  <2>0. e \in Result
    BY <1>2 DEF UseInv, PackInv, Types, TypeOK
  <2>1. CASE e = Nothing
    <3>1. E = [weights |-> heap[l.addr], bias |-> l.bias]
      BY <2>1 DEF Entry, Key
    <3> HIDE DEF E, l
    <3>2. E.weights = heap[l.addr] /\ E.bias = l.bias
      BY <3>1
    <3> QED
      BY <1>5, <3>2 DEF Passed
  <2>2. CASE e # Nothing
    <3>1. Passed(e, l.addr)
      BY <1>2, <2>2 DEF UseInv, EntryUsed
    <3>2. E = e \/ E = [e EXCEPT !.bias = l.bias]
      BY <2>2 DEF Entry, Key
    <3>3. E.weights = e.weights /\ (E.bias = e.bias \/ E.bias = l.bias)
      <4> HIDE DEF E, e, l
      <4> QED
        BY <2>0, <3>2 DEF Result
    <3> QED
      BY <1>5, <3>1, <3>3 DEF Passed
  <2> QED
    BY <2>1, <2>2
<1> HIDE DEF l, E
<1>7. \A a \in Addresses : packs'[a] = IF a = l.addr THEN E ELSE packs[a]
  BY <1>2, <1>3 DEF UseInv, PackInv, Types, TypeOK
<1>8. EntryUsed'
  BY <1>3, <1>6, <1>7 DEF UseInv, EntryUsed, Passed, WeightsUsed, BiasesUsed
<1>9. Recorded'
  BY <1>3, <1>4 DEF UseInv, PackInv, Types, TypeOK, Recorded
<1>10. Results'
  <2> SUFFICES ASSUME NEW x \in Threads
               PROVE  /\ phase'[x] = "caching" => Len(out[x]) = 0
                      /\ Looking(x)' => Len(out[x]) = at'[x] - 1 /\ GoodResults(x)'
    BY <1>3 DEF Results
  <2>1. CASE x = t
    <3>1. Len(out[t]) = 0
      BY <1>3 DEF UseInv, Results
    <3>2. Looking(t)' => at'[t] = 1
      BY <1>3, <1>4 DEF UseInv, PackInv, Types, TypeOK, Looking
    <3>3. GoodResults(t)'
      BY <1>3, <3>1 DEF GoodResults
    <3> QED
      BY <2>1, <3>1, <3>2, <3>3
  <2>2. CASE x # t
    <3>1. phase'[x] = phase[x] /\ at'[x] = at[x]
      BY <1>4, <2>2 DEF UseInv, PackInv, Types, TypeOK
    <3>2. ASSUME Looking(x) PROVE GoodResults(x)'
      BY <1>3, <3>2, ResultsStayGood
    <3> QED
      BY <3>1, <3>2 DEF UseInv, Results, Looking
  <2> QED
    BY <2>1, <2>2
<1> QED
  BY <1>1, <1>8, <1>9, <1>10 DEF UseInv

LEMMA DevicePackUse ==
  ASSUME UseInv, NEW t \in Threads, DevicePack(t)
  PROVE  UseInv'
<1>1. PackInv'
  BY DevicePackStep DEF UseInv
<1>2. phase[t] = "looking" /\ phase' = [phase EXCEPT ![t] = "multiplying"]
      /\ UNCHANGED <<heap, packs, layers, at, out, uploads, used, calls>>
  BY DEF DevicePack
<1>3. Recorded' /\ EntryUsed'
  BY <1>2 DEF UseInv, PackInv, Types, TypeOK, Recorded, EntryUsed, Passed,
             WeightsUsed, BiasesUsed
<1>4. Results'
  <2> SUFFICES ASSUME NEW x \in Threads
               PROVE  /\ phase'[x] = "caching" => Len(out[x]) = 0
                      /\ Looking(x)' => Len(out[x]) = at[x] - 1 /\ GoodResults(x)'
    BY <1>2 DEF Results
  <2>1. /\ phase'[x] = "caching" => phase[x] = "caching"
        /\ Looking(x)' => Looking(x)
    BY <1>2 DEF UseInv, PackInv, Types, TypeOK, Looking
  <2>2. ASSUME Looking(x) PROVE GoodResults(x)'
    BY <1>2, <2>2, ResultsStayGood
  <2> QED
    BY <2>1, <2>2 DEF UseInv, Results
<1> QED
  BY <1>1, <1>3, <1>4 DEF UseInv

(* Multiply adds a good result, as good as those before it.                 *)
LEMMA MultiplyIsGood ==
  ASSUME UseInv, NEW t \in Threads, Multiply(t)
  PROVE  /\ out'[t] \in Seq(Result) /\ Len(out'[t]) = at[t]
         /\ \A j \in 1 .. at[t] : Passed(out'[t][j], layers[t][j].addr)
<1> DEFINE r == packs[Key(Current(t))]
<1>1. /\ phase[t] = "multiplying" /\ Looking(t)
      /\ at[t] \in 1 .. Len(layers[t]) /\ Len(layers[t]) \in Nat
      /\ Current(t) = layers[t][at[t]] /\ Current(t).addr \in Addresses
  BY CurrentType DEF UseInv, Multiply, Looking
<1>2. r \in Result
  BY <1>1 DEF UseInv, PackInv, Types, TypeOK, Key
<1>3. packs[layers[t][at[t]].addr] # Nothing
  BY <1>1 DEF UseInv, PackInv, Cached
<1>4. Passed(r, layers[t][at[t]].addr)
  BY <1>1, <1>3 DEF UseInv, EntryUsed, Key
<1>5. out[t] \in Seq(Result) /\ Len(out[t]) = at[t] - 1 /\ GoodResults(t)
  BY <1>1 DEF UseInv, PackInv, Types, TypeOK, Results
<1>6. out'[t] = Append(out[t], r)
  BY DEF Multiply, UseInv, PackInv, Types, TypeOK
<1> HIDE DEF r
<1>7. /\ out'[t] \in Seq(Result) /\ Len(out'[t]) = at[t]
      /\ out'[t][at[t]] = r /\ \A j \in 1 .. at[t] - 1 : out'[t][j] = out[t][j]
  BY <1>1, <1>2, <1>5, <1>6
<1>8. ASSUME NEW j \in 1 .. at[t]
      PROVE  Passed(out'[t][j], layers[t][j].addr)
  <2>1. CASE j = at[t]
    BY <1>4, <1>7, <2>1
  <2>2. CASE j # at[t]
    BY <1>1, <1>5, <1>7, <2>2 DEF GoodResults
  <2> QED
    BY <2>1, <2>2
<1> QED
  BY <1>7, <1>8

LEMMA MultiplyUse ==
  ASSUME UseInv, NEW t \in Threads, Multiply(t)
  PROVE  UseInv'
<1>1. PackInv'
  BY MultiplyStep DEF UseInv
<1>2. /\ \E v : out' = [out EXCEPT ![t] = v]
      /\ UNCHANGED <<heap, packs, layers, uploads, used, calls>>
      /\ phase[t] = "multiplying"
  BY DEF Multiply
<1>3. \/ at' = [at EXCEPT ![t] = at[t] + 1] /\ phase' = [phase EXCEPT ![t] = "looking"]
      \/ at' = at /\ phase' = [phase EXCEPT ![t] = "idle"]
  BY DEF Multiply
<1>4. Recorded' /\ EntryUsed'
  BY <1>2, <1>3 DEF UseInv, PackInv, Types, TypeOK, Recorded, EntryUsed, Passed,
             WeightsUsed, BiasesUsed
<1>5. Results'
  <2> SUFFICES ASSUME NEW x \in Threads
               PROVE  /\ phase'[x] = "caching" => Len(out'[x]) = 0
                      /\ Looking(x)' => Len(out'[x]) = at'[x] - 1 /\ GoodResults(x)'
    BY DEF Results
  <2>1. CASE x = t
    <3>1. phase'[t] # "caching" /\ (Looking(t)' => at'[t] = at[t] + 1)
      BY <1>3 DEF UseInv, PackInv, Types, TypeOK, Looking
    <3>2. at[t] \in Nat /\ Len(out'[t]) = at[t]
      BY MultiplyIsGood DEF UseInv, PackInv, Types
    <3>3. GoodResults(t)'
      BY <1>2, <3>2, MultiplyIsGood
        DEF GoodResults, Passed, WeightsUsed, BiasesUsed
    <3> QED
      BY <2>1, <3>1, <3>2, <3>3
  <2>2. CASE x # t
    <3>1. phase'[x] = phase[x] /\ at'[x] = at[x] /\ out'[x] = out[x]
      BY <1>2, <1>3, <2>2 DEF UseInv, PackInv, Types, TypeOK
    <3>2. ASSUME Looking(x) PROVE GoodResults(x)'
      BY <1>2, <3>1, <3>2, ResultsStayGood
    <3> QED
      BY <3>1, <3>2 DEF UseInv, Results, Looking
  <2> QED
    BY <2>1, <2>2
<1> QED
  BY <1>1, <1>4, <1>5 DEF UseInv

LEMMA FallBackUse ==
  ASSUME UseInv, NEW t \in Threads, FallBack(t)
  PROVE  UseInv'
<1>1. PackInv'
  BY FallBackStep DEF UseInv
<1>2. /\ \E v : out' = [out EXCEPT ![t] = v]
      /\ UNCHANGED <<heap, packs, layers, at, uploads, used, calls>>
      /\ phase' = [phase EXCEPT ![t] = "idle"]
  BY DEF FallBack
<1>3. Recorded' /\ EntryUsed'
  BY <1>2 DEF UseInv, PackInv, Types, TypeOK, Recorded, EntryUsed, Passed,
             WeightsUsed, BiasesUsed
<1>4. Results'
  <2> SUFFICES ASSUME NEW x \in Threads
               PROVE  /\ phase'[x] = "caching" => Len(out'[x]) = 0
                      /\ Looking(x)' => Len(out'[x]) = at[x] - 1 /\ GoodResults(x)'
    BY <1>2 DEF Results
  <2>1. CASE x = t
    BY <1>2, <2>1 DEF UseInv, PackInv, Types, TypeOK, Looking
  <2>2. CASE x # t
    <3>1. phase'[x] = phase[x] /\ out'[x] = out[x]
      BY <1>2, <2>2 DEF UseInv, PackInv, Types, TypeOK
    <3>2. ASSUME Looking(x) PROVE GoodResults(x)'
      BY <1>2, <3>1, <3>2, ResultsStayGood
    <3> QED
      BY <3>1, <3>2 DEF UseInv, Results, Looking
  <2> QED
    BY <2>1, <2>2
<1> QED
  BY <1>1, <1>3, <1>4 DEF UseInv

LEMMA NextUseInv == UseInv /\ [Next]_vars => UseInv'
<1> SUFFICES ASSUME UseInv, [Next]_vars PROVE UseInv'
  OBVIOUS
<1>1. CASE Owner
  BY <1>1, OwnerUse
<1>2. ASSUME NEW t \in Threads, NEW n \in 1 .. MaxLayers,
             NEW ls \in [1 .. n -> Layer], Call(t, ls)
      PROVE  UseInv'
  BY <1>2, CallUse
<1>3. ASSUME NEW t \in Threads, CallStep(t) PROVE UseInv'
  BY <1>3, CachedPackUse, DevicePackUse, MultiplyUse, FallBackUse DEF CallStep
<1>4. CASE UNCHANGED vars
  <2>1. PackInv'
    BY <1>4, NextPackInv DEF UseInv
  <2> QED
    BY <1>4, <2>1 DEF vars, UseInv, Recorded, EntryUsed, Results, GoodResults, Looking,
                      Passed, WeightsUsed, BiasesUsed
<1> QED
  BY <1>1, <1>2, <1>3, <1>4 DEF Next

LEMMA AlwaysUseInv == Spec => []UseInv
BY InitUseInv, NextUseInv, PTL DEF Spec

(* A result that was passed for the address of a layer of a call in flight. *)
LEMMA PassedIsOwn ==
  ASSUME UseInv, NEW t \in Threads, phase[t] # "idle", NEW i \in 1 .. Len(layers[t]),
         NEW r, Passed(r, layers[t][i].addr)
  PROVE  /\ WeightsUsed(layers[t][i].addr) = {r.weights} => r.weights = heap[layers[t][i].addr]
         /\ BiasesUsed(layers[t][i].addr) = {r.bias} => r.bias = layers[t][i].bias
<1>1. /\ heap[layers[t][i].addr] \in WeightsUsed(layers[t][i].addr)
      /\ layers[t][i].bias \in BiasesUsed(layers[t][i].addr)
  BY CallIsPassed DEF UseInv, Recorded
<1> QED
  BY <1>1

(* Whatever other threads cache, look up or fail to do meanwhile, and in    *)
(* whatever order packs are dropped and made again at the same address, a   *)
(* call returns weights and biases passed for its layers' addresses, its    *)
(* own ones if nothing else was ever passed.                                *)
THEOREM CallsReturnWhatWasPassed == Spec => ReturnsWhatWasPassed
<1>1. ASSUME UseInv, [Next]_vars, NEW t \in Threads, phase[t] # "idle", phase'[t] = "idle"
      PROVE  ResultsOf(t)
  <2>1. phase \in [Threads -> {"idle", "caching", "looking", "multiplying"}]
        /\ out \in [Threads -> Seq(Result)] /\ Len(layers[t]) \in Nat
    BY <1>1 DEF UseInv, PackInv, Types, TypeOK
  <2>2. FallBack(t) \/ Multiply(t)
    BY <1>1, <2>1 DEF Next, Owner, Drop, Quantize, Call, CallStep, CachedPack, Advance,
                     DevicePack, Multiply, FallBack, vars
  <2>3. /\ Len(out'[t]) = Len(layers[t])
        /\ \A i \in 1 .. Len(layers[t]) : Passed(out'[t][i], layers[t][i].addr)
    <3>1. CASE FallBack(t)
      <4>1. out'[t] = [i \in 1 .. Len(layers[t]) |-> Reference(layers[t][i])]
        BY <2>1, <3>1 DEF FallBack
      <4>2. ASSUME NEW i \in 1 .. Len(layers[t])
            PROVE  Passed(out'[t][i], layers[t][i].addr)
        <5>1. /\ out'[t][i].weights = heap[layers[t][i].addr]
              /\ out'[t][i].bias = layers[t][i].bias
          BY <4>1 DEF Reference
        <5>2. <<heap[layers[t][i].addr], layers[t][i].bias>> \in used[layers[t][i].addr]
          BY <1>1 DEF UseInv, Recorded
        <5> QED
          BY <5>1, <5>2, CallIsPassed DEF Passed
      <4>3. Len(out'[t]) = Len(layers[t])
        BY <2>1, <4>1
      <4> QED
        BY <4>2, <4>3
    <3>2. CASE Multiply(t)
      <4>1. at[t] = Len(layers[t])
        BY <1>1, <2>1, <3>2 DEF Multiply
      <4> QED
        BY <1>1, <3>2, <4>1, MultiplyIsGood
    <3> QED
      BY <2>2, <3>1, <3>2
  <2> QED
    BY <1>1, <2>3, PassedIsOwn DEF ResultsOf, Passed
<1>2. UseInv /\ [Next]_vars => [\A t \in Threads : Ends(t) => ResultsOf(t)]_vars
  BY <1>1 DEF Ends
<1> QED
  BY <1>2, AlwaysUseInv, PTL DEF Spec, ReturnsWhatWasPassed

(* Every variable keeps its type.                                           *)
THEOREM PackCacheType == Spec => []TypeOK
<1>1. PackInv => TypeOK
  BY DEF PackInv, Types
<1> QED
  BY <1>1, AlwaysPackInv, PTL
=============================================================================
