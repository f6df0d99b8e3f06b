----------------------------- MODULE MCSubmitter -----------------------------
(* Two orders for one place, two tries, one crash of the wallet. *)
EXTENDS Submitter
=============================================================================
