--------------------------- MODULE MCReplayWindow ---------------------------
(* A window of three words of three bits, so that a shift may move bits inside *)
(* a word, across a word boundary, over a whole word, and out of the window. *)
EXTENDS ReplayWindow, TLC

Symmetry == Permutations(Sealers)
=============================================================================
