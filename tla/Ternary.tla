-------------------------------- MODULE Ternary --------------------------------
(***************************************************************************)
(* Ternary quantization of a weight matrix (src/quantize.rs) and the       *)
(* decoder of the kernels (src/kernel_ref.rs; src/kernels/omega.cu is the  *)
(* same).  Scale and codes are computed row by row, so a matrix is         *)
(* represented by one of its rows.                                         *)
(*                                                                         *)
(* A row holds rational numbers: w[i] / den.  Two rows that are compared   *)
(* here come from the same scale, so equal rows are equal records.         *)
(***************************************************************************)
EXTENDS Integers, Sequences
LOCAL INSTANCE Functions

CONSTANTS
  EpsDen,      \* the smallest scale is 1 / EpsDen (1e-8 in the code)
  MaxAlpha     \* the largest scale of ternary_ste (1e4)

ASSUME TernaryAssumption ==
  /\ EpsDen \in Nat \ {0}
  /\ MaxAlpha \in Nat \ {0}

(* The length of a row is in_dim, a multiple of 4 (asserted).               *)
IsRow(row) ==
  /\ row.w \in Seq(Int) /\ Len(row.w) > 0 /\ Len(row.w) % 4 = 0
  /\ row.den \in Nat \ {0}
-----------------------------------------------------------------------------
AbsOf(v) == IF v < 0 THEN -v ELSE v
AbsMean(row) == [num |-> SumFunction([i \in DOMAIN row.w |-> AbsOf(row.w[i])]),
                 den |-> row.den * Len(row.w)]

Alpha(row) ==
  LET mean == AbsMean(row)
  IN IF mean.num * EpsDen < mean.den THEN [num |-> 1, den |-> EpsDen] ELSE mean

(* Every weight in units of alpha, rounded: -1, 0 or 1.                     *)
Rounded(row, a) ==
  [i \in DOMAIN row.w |->
     IF 2 * row.w[i] * a.den <= -(row.den * a.num) THEN -1
     ELSE IF 2 * row.w[i] * a.den >= row.den * a.num THEN 1 ELSE 0]

Scaled(signs, a) == [w |-> [i \in DOMAIN signs |-> signs[i] * a.num], den |-> a.den]

(* Four codes 0, 1, 2 (for -1, 0, 1) in a byte, the first one lowest.       *)
PackBytes(codes) ==
  [k \in 1 .. Len(codes) \div 4 |->
     codes[4*k - 3] + 4 * codes[4*k - 2] + 16 * codes[4*k - 1] + 64 * codes[4*k]]

SignedCodes(row) ==                              \* mutant of quantize_rowwise_ternary
  [packed |-> PackBytes(Rounded(row, Alpha(row))), alpha |-> Alpha(row)]
quantize_rowwise_ternary(row) ==
  LET signs == Rounded(row, Alpha(row))
  IN [packed |-> PackBytes([i \in DOMAIN signs |-> signs[i] + 1]), alpha |-> Alpha(row)]

(* The code at place i of a pack: its byte, shifted by two bits per place.  *)
Shift == <<1, 4, 16, 64>>
CodeAt(pack, i) == (pack.packed[((i - 1) \div 4) + 1] \div Shift[((i - 1) % 4) + 1]) % 4
Places(pack) == 1 .. 4 * Len(pack.packed)

unpack_ternary(pack) ==
  Scaled([i \in Places(pack) |-> CASE CodeAt(pack, i) = 0 -> -1
                                   [] CodeAt(pack, i) = 1 -> 0
                                   [] CodeAt(pack, i) = 2 -> 1
                                   [] OTHER -> 0], pack.alpha)

(* The weights a kernel multiplies with: the signs are added up first, the  *)
(* sum is scaled once.                                                      *)
unpack_w(pack, i) ==
  IF CodeAt(pack, i) = 0 THEN -1 ELSE IF CodeAt(pack, i) = 2 THEN 1 ELSE 0

KernelRow(pack) == Scaled([i \in Places(pack) |-> unpack_w(pack, i)], pack.alpha)

(* The value of ternary_ste in the forward direction.                       *)
ternary_ste(row) ==
  LET a == Alpha(row)
      clamped == IF a.num > MaxAlpha * a.den THEN [num |-> MaxAlpha, den |-> 1] ELSE a
  IN Scaled(Rounded(row, clamped), clamped)
=============================================================================
