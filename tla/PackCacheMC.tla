----------------------------- MODULE PackCacheMC -----------------------------
(***************************************************************************)
(* Small instances of PackCache for TLC: two packs, two threads.           *)
(***************************************************************************)
EXTENDS PackCache, TLC

CONSTANTS p1, p2, b1, t1, t2, a1, a2

MCPacks == {p1, p2}
MCThreads == {t1, t2}

(* As the public functions allow: any pack with and without a bias.         *)
MCAnyBias == p1 :> {b1, NoBias} @@ p2 :> {b1, NoBias}

(* As the layers of the network do: each pack with the bias of its layer.   *)
MCOneBias == p1 :> {b1} @@ p2 :> {NoBias}

(* Threads and addresses are interchangeable.                               *)
MCSymmetry == Permutations({t1, t2}) \cup Permutations({a1, a2})
=============================================================================
