------------------------------ MODULE PackCache ------------------------------
(***************************************************************************)
(* The device cache of packed ternary weights: KernelBank::cached_pack,    *)
(* device_pack and linear_device (src/custom_kernels.rs), called by any    *)
(* number of threads through the dispatcher (src/kernel_dispatch.rs), which*)
(* recomputes a failed call on the CPU.                                    *)
(*                                                                         *)
(* A call works on a list of layers, one for packed_linear_host, three for *)
(* a SwiGLU block, seven per transformer layer: it first caches all of     *)
(* their packs and then multiplies with one after the other.  A result is  *)
(* abstracted to the weights and the bias that went into it.               *)
(***************************************************************************)
EXTENDS Naturals, Sequences

CONSTANTS
  Packs,       \* contents of the TernaryPacked values
  Biases,      \* bias vectors
  NoBias,      \* bias: None
  BiasesOf,    \* pack -> the bias options its owner calls with
  Addresses,   \* where the `packed` vector of a TernaryPacked can live
  Freeable,    \* may the owner drop a pack between calls?
  Threads,
  MaxLayers,   \* bound: layers in one call
  MaxCalls     \* bound: calls

Options == Biases \cup {NoBias}
Nothing == [weights |-> NoBias, bias |-> NoBias]     \* no entry, no vector

ASSUME PackAssumption ==
  /\ NoBias \notin Biases \cup Packs
  /\ BiasesOf \in [Packs -> SUBSET Options]
  /\ Freeable \in BOOLEAN
  /\ MaxLayers \in Nat \ {0}
  /\ MaxCalls \in Nat

VARIABLES
  heap,      \* address -> the pack that lives there, or NoBias
  packs,     \* the cache: address -> DevicePack [weights, bias], or Nothing
  phase,     \* thread -> "idle", "caching", "looking" or "multiplying"
  layers,    \* thread -> the arguments of its call: [addr, bias]
  at,        \* thread -> the layer it is at
  out,       \* thread -> the results of its last call
  uploads,   \* history: address -> uploads of weights for the pack there
  used,      \* history: address -> what calls passed for it: <<pack, bias>>
  calls      \* history: calls started

vars == <<heap, packs, phase, layers, at, out, uploads, used, calls>>

Layer  == [addr : Addresses, bias : Options]
Result == [weights : Packs \cup {NoBias}, bias : Options]

-----------------------------------------------------------------------------
(* What kernel_ref computes for a layer.                                    *)
Reference(l) == [weights |-> heap[l.addr], bias |-> l.bias]

Current(t) == layers[t][at[t]]

(* pack_key: packed.as_ptr() as usize.                                      *)
SameKey(l) == CHOOSE a \in Addresses : TRUE     \* mutant of Key
Key(l) == l.addr

(* Arc::get_mut: only the cache itself holds the entry.                     *)
Shared(k) == \E t \in Threads : phase[t] = "multiplying" /\ Key(Current(t)) = k

(* A call may borrow a pack that lives; its owner passes the bias it has.   *)
Callable(l) == heap[l.addr] # NoBias /\ l.bias \in BiasesOf[heap[l.addr]]

Borrowed(a) ==
  \E t \in Threads : phase[t] # "idle"
    /\ \E i \in 1 .. Len(layers[t]) : layers[t][i].addr = a

-----------------------------------------------------------------------------
(* quantize_rowwise_ternary: a new vector, anywhere free.                   *)
Quantize(a, p) ==
  /\ heap[a] = NoBias
  /\ heap' = [heap EXCEPT ![a] = p]
  /\ uploads' = [uploads EXCEPT ![a] = 0]
  /\ UNCHANGED <<packs, phase, layers, at, out, used, calls>>

(* The owner drops the pack; the cache entry stays.                         *)
Drop(a) ==
  /\ Freeable /\ heap[a] # NoBias /\ ~ Borrowed(a)
  /\ heap' = [heap EXCEPT ![a] = NoBias]
  /\ UNCHANGED <<packs, phase, layers, at, out, uploads, used, calls>>

Call(t, ls) ==
  /\ phase[t] = "idle" /\ calls < MaxCalls
  /\ \A i \in 1 .. Len(ls) : Callable(ls[i])
  /\ phase' = [phase EXCEPT ![t] = "caching"]
  /\ layers' = [layers EXCEPT ![t] = ls]
  /\ at' = [at EXCEPT ![t] = 1]
  /\ out' = [out EXCEPT ![t] = << >>]
  /\ calls' = calls + 1
  /\ used' = [a \in Addresses |-> used[a] \cup
                {<<heap[a], ls[i].bias>> : i \in {j \in 1 .. Len(ls) : ls[j].addr = a}}]
  /\ UNCHANGED <<heap, packs, uploads>>

(* The next layer, or after the last one the next phase from the first.     *)
SkipCaching(t, next) ==                              \* mutant of Advance
  /\ at' = [at EXCEPT ![t] = 1]
  /\ phase' = [phase EXCEPT ![t] = next]

PastTheEnd(t, next) ==                               \* mutant of Advance
  /\ at' = [at EXCEPT ![t] = @ + 1]
  /\ phase' = [phase EXCEPT ![t] = IF at[t] = Len(layers[t]) THEN next ELSE @]

Advance(t, next) ==
  \/ /\ at[t] < Len(layers[t])
     /\ at' = [at EXCEPT ![t] = @ + 1]
     /\ UNCHANGED phase
  \/ /\ at[t] = Len(layers[t])
     /\ at' = [at EXCEPT ![t] = 1]
     /\ phase' = [phase EXCEPT ![t] = next]

(* cached_pack, under the lock of the cache: an entry that is there is kept *)
(* and at most gets the bias it lacks, if no one else is using it.          *)
Entry(l) ==
  LET e == packs[Key(l)]
  IN  IF e = Nothing THEN [weights |-> heap[l.addr], bias |-> l.bias]
      ELSE IF e.bias = NoBias /\ ~ Shared(Key(l)) THEN [e EXCEPT !.bias = l.bias]
      ELSE e

AlwaysUpload(l) == TRUE                              \* mutant of Upload
Upload(l) == packs[Key(l)] = Nothing

CachedPack(t) ==
  /\ phase[t] = "caching"
  /\ LET l == Current(t)
     IN  /\ packs' = [packs EXCEPT ![Key(l)] = Entry(l)]
         /\ uploads' = [uploads EXCEPT ![l.addr] = IF Upload(l) THEN @ + 1 ELSE @]
  /\ Advance(t, "looking")
  /\ UNCHANGED <<heap, layers, out, used, calls>>

(* linear_device: device_pack clones the Arc, under the lock ...            *)
DevicePack(t) ==
  /\ phase[t] = "looking" /\ packs[Key(Current(t))] # Nothing
  /\ phase' = [phase EXCEPT ![t] = "multiplying"]
  /\ UNCHANGED <<heap, packs, layers, at, out, uploads, used, calls>>

(* ... the kernels run with what it points to, and it is dropped.           *)
Multiply(t) ==
  /\ phase[t] = "multiplying"
  /\ out' = [out EXCEPT ![t] = Append(@, packs[Key(Current(t))])]
  /\ \/ /\ at[t] < Len(layers[t])
        /\ at' = [at EXCEPT ![t] = @ + 1]
        /\ phase' = [phase EXCEPT ![t] = "looking"]
     \/ /\ at[t] = Len(layers[t])
        /\ phase' = [phase EXCEPT ![t] = "idle"]
        /\ UNCHANGED at
  /\ UNCHANGED <<heap, packs, layers, uploads, used, calls>>

(* A copy or a launch fails: the dispatcher falls back to kernel_ref.       *)
FallBack(t) ==
  /\ phase[t] # "idle"
  /\ phase' = [phase EXCEPT ![t] = "idle"]
  /\ out' = [out EXCEPT ![t] = [i \in 1 .. Len(layers[t]) |-> Reference(layers[t][i])]]
  /\ UNCHANGED <<heap, packs, layers, at, uploads, used, calls>>

-----------------------------------------------------------------------------
Init ==
  /\ heap = [a \in Addresses |-> NoBias]
  /\ packs = [a \in Addresses |-> Nothing]
  /\ phase = [t \in Threads |-> "idle"]
  /\ layers = [t \in Threads |-> << >>]
  /\ at = [t \in Threads |-> 1]
  /\ out = [t \in Threads |-> << >>]
  /\ uploads = [a \in Addresses |-> 0]
  /\ used = [a \in Addresses |-> {}]
  /\ calls = 0

Owner == \E a \in Addresses : Drop(a) \/ \E p \in Packs : Quantize(a, p)

CallStep(t) == CachedPack(t) \/ DevicePack(t) \/ Multiply(t) \/ FallBack(t)

Next ==
  \/ Owner
  \/ \E t \in Threads, n \in 1 .. MaxLayers : \E ls \in [1 .. n -> Layer] : Call(t, ls)
  \/ \E t \in Threads : CallStep(t)

Spec == Init /\ [][Next]_vars
-----------------------------------------------------------------------------
TypeOK ==
  /\ heap \in [Addresses -> Packs \cup {NoBias}]
  /\ packs \in [Addresses -> Result]
  /\ phase \in [Threads -> {"idle", "caching", "looking", "multiplying"}]
  /\ layers \in [Threads -> Seq(Layer)]
  /\ \A t \in Threads : phase[t] # "idle" => at[t] \in 1 .. Len(layers[t])
  /\ out \in [Threads -> Seq(Result)]
  /\ uploads \in [Addresses -> Nat]
  /\ used \in [Addresses -> SUBSET (Packs \X Options)]
  /\ calls \in Nat

(* A call that ends has one result per layer, of weights that lived at the  *)
(* layer's address and of a bias passed for it, in this call or an earlier  *)
(* one: never another layer's, whatever the other threads cache, look up or *)
(* fail to do.  The weights are the caller's own if nothing else was used   *)
(* at the address, whatever the biases; the bias likewise.                  *)
Ends(t) == phase[t] # "idle" /\ phase'[t] = "idle"

WeightsUsed(a) == {u[1] : u \in used[a]}
BiasesUsed(a)  == {u[2] : u \in used[a]}

ResultsOf(t) ==
  /\ Len(out'[t]) = Len(layers[t])
  /\ \A i \in 1 .. Len(layers[t]) :
       LET l == layers[t][i]
           r == out'[t][i]
       IN  /\ r.weights \in WeightsUsed(l.addr) /\ r.bias \in BiasesUsed(l.addr)
           /\ WeightsUsed(l.addr) = {r.weights} => r.weights = heap[l.addr]
           /\ BiasesUsed(l.addr) = {r.bias} => r.bias = l.bias

ReturnsWhatWasPassed == [][\A t \in Threads : Ends(t) => ResultsOf(t)]_vars

(* device_pack's "device pack missing; call cached_pack first" is not met:  *)
(* no thread looks for a pack that it or another thread has not cached.     *)
NeverMissing ==
  \A t \in Threads : phase[t] \in {"looking", "multiplying"} =>
    \A i \in 1 .. Len(layers[t]) : packs[Key(layers[t][i])] # Nothing

(* README.md: "Weights stay on the device after the first call": threads    *)
(* that race to cache a pack upload its weights once.                       *)
UploadedOnce == \A a \in Addresses : uploads[a] <= 1

(* custom_kernels.rs:68: "Packs must outlive the stack call."  That is all  *)
(* a caller is asked for; the owner may drop the pack afterwards.           *)
PacksOutliveTheCall ==
  [][\A t \in Threads : Ends(t) =>
       out'[t] = [i \in 1 .. Len(layers[t]) |-> Reference(layers[t][i])]]_vars
=============================================================================
