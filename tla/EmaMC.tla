-------------------------------- MODULE EmaMC --------------------------------
(***************************************************************************)
(* A small instance of Ema for TLC.                                        *)
(***************************************************************************)
EXTENDS Ema

CONSTANTS w, b

MCNames == {w, b}
=============================================================================
