---------------------------- MODULE OrderPipeline ----------------------------
(***************************************************************************)
(* What a processing queue promises its caller: orders are started in the  *)
(* order they were accepted, no more than MaxConcurrent of them are        *)
(* unresolved at a time, and each accepted order is handed back once.      *)
(***************************************************************************)
EXTENDS Naturals, Sequences, FiniteSets

CONSTANTS Orders, MaxConcurrent

VARIABLES
    backlog,    \* accepted orders not yet started, oldest first
    active,     \* started orders with no outcome yet (retries included)
    finished    \* orders with an outcome the caller has not collected

vars == <<backlog, active, finished>>

InBacklog == {backlog[j] : j \in 1..Len(backlog)}

Init ==
    /\ backlog = <<>>
    /\ active = {}
    /\ finished = {}

Accept(o) ==
    /\ o \notin InBacklog \cup active \cup finished
    /\ backlog' = Append(backlog, o)
    /\ UNCHANGED <<active, finished>>

Start ==
    /\ backlog # <<>>
    /\ Cardinality(active) < MaxConcurrent
    /\ active' = active \cup {Head(backlog)}
    /\ backlog' = Tail(backlog)
    /\ UNCHANGED finished

Finish(o) ==
    /\ o \in active
    /\ active' = active \ {o}
    /\ finished' = finished \cup {o}
    /\ UNCHANGED backlog

Collect ==
    /\ finished' = {}
    /\ UNCHANGED <<backlog, active>>

Next ==
    \/ \E o \in Orders : Accept(o) \/ Finish(o)
    \/ Start
    \/ Collect

Spec == Init /\ [][Next]_vars
=============================================================================
