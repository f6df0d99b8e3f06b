-------------------------- MODULE MCProcessingQueue --------------------------
(***************************************************************************)
(* Small instances of ProcessingQueue for TLC. Orders are interchangeable, *)
(* so the safety runs use them as a symmetry set.                          *)
(***************************************************************************)
EXTENDS ProcessingQueue, TLC

Symmetry == Permutations(Orders)
=============================================================================
