----------------------------- MODULE MCBlockScan -----------------------------
(***************************************************************************)
(* Small instances of BlockScan for TLC. A run gives StartingBlock a block *)
(* or the model value NoBlock; .cfg files cannot write a negative offset,  *)
(* so it is defined here.                                                  *)
(***************************************************************************)
EXTENDS BlockScan

Offset == -1
=============================================================================
