---------------------------- MODULE DataLoaderMC ----------------------------
(***************************************************************************)
(* A small instance of DataLoader for TLC: nine examples in micro-batches  *)
(* of two, so that the last one is short and a loader that is left behind  *)
(* has some left to prepare; puzzles of one, two and three pairs.          *)
(***************************************************************************)
EXTENDS DataLoader

MCPuzzle == <<1, 1, 2, 3, 4, 3, 3, 2, 5>>
MCOrders == { <<1, 2, 3, 4, 5, 6, 7, 8, 9>>, <<4, 2, 9, 7, 5, 1, 8, 3, 6>> }
=============================================================================
