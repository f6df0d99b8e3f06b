---------------------------- MODULE MCWalletWorker ----------------------------
(***************************************************************************)
(* Small instances of WalletWorker for TLC.                                *)
(***************************************************************************)
EXTENDS WalletWorker
=============================================================================
