------------------------------- MODULE AMBStore -------------------------------
(***************************************************************************)
(* What the store keeps of one cross-chain message of an AMB: the message, *)
(* its proof, the additional data of its collector. Workers call the store *)
(* at any time; a call is a sequence of redis commands, each awaited. The  *)
(* submitter listens to the proof channel, looks the message up and makes  *)
(* an order of it.                                                         *)
(***************************************************************************)
EXTENDS Naturals, FiniteSets

CONSTANT Workers        \* the threads that call the store

\* What a lookup of the message gives: nothing, the message, the message with
\* its priority flag.
Values == {"none", "plain", "priority"}

\* The first command of each call: setAMBMessage, setAMBMessagePriority,
\* setAMBProof, setAdditionalAMBData.
Calls == {"setMessage", "readMessage", "checkProof", "setData"}
Commands == Calls \cup {"listHash", "announceMessage", "setPriority", "setProof", "announceProof"}

VARIABLES
    message,    \* the value under the message's key
    listed,     \* the message is in the list of its transaction hash
    proof,      \* a proof is stored
    data,       \* additional data is stored
    at,         \* the command each worker awaits next
    announced,  \* proofs published on the proof channel
    submitter,  \* the submitter's thread: starting, listening to the proof
                \* channel, or ended
    lookups,    \* announcements whose getAMBMessage has not answered
    orders,     \* orders made by the submitter, by what their lookup gave
    raced       \* history: a call checked for a proof while another had
                \* checked and not yet stored

redis == <<message, listed, proof, data>>
submitterVars == <<submitter, lookups, orders>>
storeVars == <<redis, at, announced, submitterVars, raced>>

NoOrders == [v \in Values |-> 0]

Init ==
    /\ message = "none" /\ listed = FALSE /\ proof = FALSE /\ data = FALSE
    /\ at = [w \in Workers |-> "idle"]
    /\ announced = 0 /\ raced = FALSE
    /\ submitter = "starting" /\ lookups = 0 /\ orders = NoOrders

-----------------------------------------------------------------------------
Call(w, c) ==
    /\ at[w] = "idle"
    /\ at' = [at EXCEPT ![w] = c]
    /\ UNCHANGED <<redis, announced, submitterVars, raced>>

\* setAMBMessage: whatever is stored is replaced.
SetMessage(w) ==
    /\ at[w] = "setMessage"
    /\ message' = "plain"
    /\ at' = [at EXCEPT ![w] = "listHash"]
    /\ UNCHANGED <<listed, proof, data, announced, submitterVars, raced>>

ListHash(w) ==
    /\ at[w] = "listHash"
    /\ listed' = TRUE
    /\ at' = [at EXCEPT ![w] = "announceMessage"]
    /\ UNCHANGED <<message, proof, data, announced, submitterVars, raced>>

AnnounceMessage(w) ==
    /\ at[w] = "announceMessage"
    /\ at' = [at EXCEPT ![w] = "idle"]
    /\ UNCHANGED <<redis, announced, submitterVars, raced>>

\* Mutant: a message that is not stored gets the flag all the same.
ReadMessageUnchecked(w) ==
    /\ at[w] = "readMessage"
    /\ at' = [at EXCEPT ![w] = "setPriority"]
    /\ UNCHANGED <<redis, announced, submitterVars, raced>>

\* setAMBMessagePriority: throws if the message is not stored.
ReadMessage(w) ==
    /\ at[w] = "readMessage"
    /\ at' = [at EXCEPT ![w] = IF message = "none" THEN "idle" ELSE "setPriority"]
    /\ UNCHANGED <<redis, announced, submitterVars, raced>>

SetPriority(w) ==
    /\ at[w] = "setPriority"
    /\ message' = "priority"
    /\ at' = [at EXCEPT ![w] = "idle"]
    /\ UNCHANGED <<listed, proof, data, announced, submitterVars, raced>>

\* Mutant: the proof found is not looked at.
CheckProofNever(w) ==
    /\ at[w] = "checkProof"
    /\ at' = [at EXCEPT ![w] = "setProof"]
    /\ raced' = (raced \/ \E v \in Workers : at[v] = "setProof")
    /\ UNCHANGED <<redis, announced, submitterVars>>

\* setAMBProof: nothing is done if there is a proof.
CheckProof(w) ==
    /\ at[w] = "checkProof"
    /\ at' = [at EXCEPT ![w] = IF proof THEN "idle" ELSE "setProof"]
    /\ raced' = (raced \/ \E v \in Workers : at[v] = "setProof")
    /\ UNCHANGED <<redis, announced, submitterVars>>

SetProof(w) ==
    /\ at[w] = "setProof"
    /\ proof' = TRUE
    /\ at' = [at EXCEPT ![w] = "announceProof"]
    /\ UNCHANGED <<message, listed, data, announced, submitterVars, raced>>

\* A publication reaches the subscriber of that moment only.
AnnounceProof(w) ==
    /\ at[w] = "announceProof"
    /\ announced' = announced + 1
    /\ lookups' = IF submitter = "listening" THEN lookups + 1 ELSE lookups
    /\ at' = [at EXCEPT ![w] = "idle"]
    /\ UNCHANGED <<redis, submitter, orders, raced>>

SetData(w) ==
    /\ at[w] = "setData"
    /\ data' = TRUE
    /\ at' = [at EXCEPT ![w] = "idle"]
    /\ UNCHANGED <<message, listed, proof, announced, submitterVars, raced>>

\* A command rejects and the call throws. A command that took effect all the
\* same is one that succeeds before the next one, or the caller, fails.
CommandFails(w) ==
    /\ at[w] \in Commands
    /\ at' = [at EXCEPT ![w] = "idle"]
    /\ UNCHANGED <<redis, announced, submitterVars, raced>>

Command(w) ==
    \/ SetMessage(w) \/ ListHash(w) \/ AnnounceMessage(w)
    \/ ReadMessage(w) \/ SetPriority(w)
    \/ CheckProof(w) \/ SetProof(w) \/ AnnounceProof(w)
    \/ SetData(w)

-----------------------------------------------------------------------------
\* The submitter.

ListenForOrders ==
    /\ submitter = "starting"
    /\ submitter' = "listening"
    /\ UNCHANGED <<redis, at, announced, lookups, orders, raced>>

\* getAMBMessage answers.
AddSubmitOrder ==
    /\ lookups > 0
    /\ lookups' = lookups - 1
    /\ orders' = [orders EXCEPT ![message] = @ + 1]
    /\ UNCHANGED <<redis, at, announced, submitter, raced>>

\* The promise of the lookup is floating: its rejection ends the submitter's
\* thread, which is not started again.
LookupFails ==
    /\ lookups > 0
    /\ lookups' = 0 /\ orders' = NoOrders /\ submitter' = "ended"
    /\ UNCHANGED <<redis, at, announced, raced>>

\* The process ends and starts again; redis keeps what it has.
Restart ==
    /\ at' = [w \in Workers |-> "idle"]
    /\ lookups' = 0 /\ orders' = NoOrders /\ submitter' = "starting"
    /\ UNCHANGED <<redis, announced, raced>>

Next ==
    \/ \E w \in Workers : Command(w) \/ CommandFails(w) \/ \E c \in Calls : Call(w, c)
    \/ ListenForOrders \/ AddSubmitOrder \/ LookupFails \/ Restart

Spec == Init /\ [][Next]_storeVars

-----------------------------------------------------------------------------
\* The type invariant of the store.
StoreTypeOK ==
    /\ message \in Values
    /\ listed \in BOOLEAN /\ proof \in BOOLEAN /\ data \in BOOLEAN
    /\ at \in [Workers -> Commands \cup {"idle"}]
    /\ announced \in Nat /\ raced \in BOOLEAN
    /\ submitter \in {"starting", "listening", "ended"} /\ lookups \in Nat /\ orders \in [Values -> Nat]

\* setAMBProof promises that a relay is not submitted twice: a proof is
\* published at most once, whoever calls and whatever restarts, unless two
\* calls had both checked before either stored.
AnnouncedOnceUnlessRaced == raced \/ announced <= 1

\* The same promise as the comments in setAMBProof and in the LayerZero
\* collector state it, without the exception.
AnnouncedOnce == announced <= 1

=============================================================================
