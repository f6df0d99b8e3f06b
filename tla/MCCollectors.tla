----------------------------- MODULE MCCollectors -----------------------------
(* Every AMB, one failed command and one restart. *)
EXTENDS Collectors

AllBridges == {"wormhole", "mock", "polymer", "layer-zero"}
AllWorkers ==
    {"sniffer", "engine", "recovery", "mock", "polymer", "sent", "verified", "recovered", "operator"}
=============================================================================
