------------------------------ MODULE Collectors ------------------------------
(***************************************************************************)
(* The collectors of the four AMBs around one message in AMBStore, from    *)
(* the message's event on the source chain to the submitter's order. Each  *)
(* worker handles its events one after the other; a handler is a sequence  *)
(* of calls of the store. The process may be restarted, with a starting    *)
(* block before the message: the scanning workers then find it again.      *)
(***************************************************************************)
EXTENDS AMBStore, Sequences

CONSTANTS
    Bridges,        \* the AMBs explored
    MaxVerifications,   \* bound: PayloadVerified events until a LayerZero packet is verifiable
    MaxFailures, MaxRestarts    \* bounds: failed commands, restarts

ASSUME WorkersAssumption ==
    {"sniffer", "engine", "recovery", "mock", "polymer", "sent", "verified", "recovered", "operator"}
        \subseteq Workers
ASSUME CollectorsAssumption ==
    /\ Bridges \subseteq {"wormhole", "mock", "polymer", "layer-zero"}
    /\ MaxVerifications \in Nat \ {0} /\ MaxFailures \in Nat /\ MaxRestarts \in Nat

\* Awaits of the LayerZero worker besides the store's commands on the message
\* and the proof: getAdditionalAMBData, the calls of the receive library, and
\* the publication that a packet has been processed.
LocalCommands == {"readData", "enqueue", "verify", "announcePacket"}

VARIABLES
    bridge,     \* the AMB of the message
    supported,  \* its destination is in the configuration of the AMB
    needed,     \* the attestations that prove the message
    emitted,    \* the message's event is in a block that monitors have announced
    attested,   \* the attestations of the AMB: VAAs, PayloadVerified events
    found,      \* the events of the message each worker has taken up
    todo,       \* the calls that follow in the handler of each worker
    engine,     \* the Wormhole engine: starting, listening, skipping the VAA as
                \* an old one, or ended
    recovery,   \* the Wormhole recovery: starting, querying for a time range that
                \* covers the message or misses it, or done
    engineFirst,\* history: the engine had started when the recovery fixed its range
    pending,    \* pendingPayloadVerifiedEvents of the message: fresh or stale
    listening,  \* the LayerZero worker of the destination listens to packets
    timers,     \* timeouts after which a processed packet is recovered
    failures, restarts,
    forgotten,  \* history: a stored proof was published while nobody listened, or
                \* was already stored when the process ended
    prioritised \* history: setAMBMessagePriority has succeeded

chains == <<bridge, supported, needed, emitted, attested>>
threads == <<found, todo>>
wormhole == <<engine, recovery, engineFirst>>
layerZero == <<pending, listening, timers>>
history == <<forgotten, prioritised>>
vars == <<storeVars, chains, threads, wormhole, layerZero, failures, restarts, history>>

Fresh(value) == [w \in Workers |-> value]

CollectorsInit ==
    /\ Init
    /\ found = Fresh(0) /\ todo = Fresh(<<>>)
    /\ engine = "starting" /\ recovery = "starting" /\ engineFirst = FALSE
    /\ pending = <<>> /\ listening = FALSE /\ timers = 0
    /\ bridge \in Bridges /\ supported \in BOOLEAN
    /\ needed \in IF bridge = "layer-zero" THEN 1..MaxVerifications ELSE {1}
    /\ emitted \in BOOLEAN /\ attested \in 0..(IF emitted THEN needed ELSE 0)
    /\ failures = 0 /\ restarts = 0
    /\ forgotten = FALSE /\ prioritised = FALSE

-----------------------------------------------------------------------------
\* The chains and the AMB.

Emit ==
    /\ ~emitted
    /\ emitted' = TRUE
    /\ UNCHANGED <<storeVars, bridge, supported, needed, attested, threads, wormhole, layerZero,
                   failures, restarts, history>>

Attest ==
    /\ emitted /\ attested < needed
    /\ attested' = attested + 1
    /\ UNCHANGED <<storeVars, bridge, supported, needed, emitted, threads, wormhole, layerZero,
                   failures, restarts, history>>

-----------------------------------------------------------------------------
\* Worker w takes up its next event, of the n there are, and makes these calls.
Ready(w) == at[w] = "idle" /\ todo[w] = <<>>

Handle(w, n, calls) ==
    /\ Ready(w) /\ found[w] < n
    /\ found' = [found EXCEPT ![w] = @ + 1]
    /\ at' = [at EXCEPT ![w] = IF calls = <<>> THEN "idle" ELSE Head(calls)]
    /\ todo' = [todo EXCEPT ![w] = IF calls = <<>> THEN <<>> ELSE Tail(calls)]
    /\ UNCHANGED <<redis, announced, submitterVars, raced, chains, layerZero,
                   failures, restarts, history>>

\* The scan loops: every block once, an error of the handler caught.
MessageEvents == IF emitted THEN 1 ELSE 0
IfSupported(calls) == IF supported THEN calls ELSE <<>>

HandleLogMessagePublished ==
    /\ bridge = "wormhole"
    /\ Handle("sniffer", MessageEvents, IfSupported(<<"setMessage">>))
    /\ UNCHANGED wormhole

\* Mutant: the proof is stored before the message.
HandleMockMessageProofFirst ==
    /\ bridge = "mock"
    /\ Handle("mock", MessageEvents, <<"checkProof", "setMessage">>)
    /\ UNCHANGED wormhole

HandleMockMessage ==
    /\ bridge = "mock"
    /\ Handle("mock", MessageEvents, <<"setMessage", "checkProof">>)
    /\ UNCHANGED wormhole

\* Polymer's proofs are not collected.
HandleSendPacket ==
    /\ bridge = "polymer"
    /\ Handle("polymer", MessageEvents, IfSupported(<<"setMessage">>))
    /\ UNCHANGED wormhole

-----------------------------------------------------------------------------
\* Wormhole: the engine hears new VAAs, the recovery asks for old ones.

\* The VAA is an old one if it is there when the starting sequence is read.
SetStartingSequences ==
    /\ bridge = "wormhole" /\ engine = "starting"
    /\ engine' = IF attested > 0 THEN "skipping" ELSE "listening"
    /\ UNCHANGED <<storeVars, chains, threads, recovery, engineFirst, layerZero,
                   failures, restarts, history>>

EngineProcessVAA ==
    /\ engine = "listening"
    /\ Handle("engine", attested, IfSupported(<<"checkProof">>))
    /\ UNCHANGED wormhole

\* Mutant: the range ends at a block some way behind the latest one.
GetTimestampsDelayed ==
    /\ bridge = "wormhole" /\ recovery = "starting"
    /\ recovery' \in IF emitted THEN {"covers", "misses"} ELSE {"misses"}
    /\ engineFirst' = (engine # "starting")
    /\ UNCHANGED <<storeVars, chains, threads, engine, layerZero, failures, restarts, history>>

\* Messages later than the latest block are outside the range.
GetTimestampsFromBlockNumbers ==
    /\ bridge = "wormhole" /\ recovery = "starting"
    /\ recovery' = IF emitted THEN "covers" ELSE "misses"
    /\ engineFirst' = (engine # "starting")
    /\ UNCHANGED <<storeVars, chains, threads, engine, layerZero, failures, restarts, history>>

\* processVAA of the recovery: the message, then the proof.
RecoveryProcessVAA == Handle("recovery", 1, IfSupported(<<"setMessage", "checkProof">>))

\* The VAAs of the range that there are now are fetched.
RecoverVAAs ==
    /\ recovery \in {"covers", "misses"}
    /\ recovery' = "done"
    /\ UNCHANGED <<engine, engineFirst>>
    /\ \/ /\ recovery = "covers" /\ attested > 0
          /\ RecoveryProcessVAA
       \/ /\ recovery = "misses" \/ attested = 0
          /\ UNCHANGED <<storeVars, chains, threads, layerZero, failures, restarts, history>>

\* fetchVAAs gives up after its tries, or getBlock throws; the thread ends.
FetchVAAsFails ==
    /\ bridge = "wormhole" /\ failures < MaxFailures
    /\ failures' = failures + 1
    /\ \/ engine = "starting" /\ engine' = "ended" /\ UNCHANGED recovery
       \/ recovery \in {"starting", "covers", "misses"} /\ recovery' = "done" /\ UNCHANGED engine
    /\ UNCHANGED <<storeVars, chains, threads, engineFirst, layerZero, restarts, history>>

-----------------------------------------------------------------------------
\* LayerZero: "sent" is the worker of the source chain, "verified" that of the
\* destination, "recovered" the latter's handler of processed packets, which
\* runs beside its scan loop.

ListenForProcessedPackets ==
    /\ bridge = "layer-zero" /\ ~listening
    /\ listening' = TRUE
    /\ UNCHANGED <<storeVars, chains, threads, wormhole, pending, timers, failures, restarts, history>>

HandlePacketSent ==
    /\ bridge = "layer-zero"
    /\ Handle("sent", MessageEvents, IfSupported(<<"setMessage", "setData", "announcePacket">>))
    /\ UNCHANGED wormhole

HandlePayloadVerified ==
    /\ bridge = "layer-zero" /\ listening
    /\ Handle("verified", attested, IfSupported(<<"readData">>))
    /\ UNCHANGED wormhole

LayerZeroFrame ==
    UNCHANGED <<redis, announced, submitterVars, raced, chains, threads, wormhole, listening,
                failures, restarts, history>>

AnnouncePacket(w) ==
    /\ at[w] = "announcePacket"
    /\ timers' = IF listening THEN timers + 1 ELSE timers
    /\ at' = [at EXCEPT ![w] = "idle"]
    /\ LayerZeroFrame /\ UNCHANGED pending

ReadData(w) ==
    /\ at[w] = "readData"
    /\ at' = [at EXCEPT ![w] = IF data THEN "verify" ELSE "enqueue"]
    /\ LayerZeroFrame /\ UNCHANGED <<pending, timers>>

\* The answer that there is no data arrives. Stale events, the oldest, are
\* pruned; the callback that looks for the event among the pending ones returns
\* nothing, so it is always added.
QueuePendingPayloadVerifiedEvent(w) ==
    /\ at[w] = "enqueue"
    /\ at' = [at EXCEPT ![w] = "idle"]
    /\ pending' = Append(SelectSeq(pending, LAMBDA age : age = "fresh"), "fresh")
    /\ LayerZeroFrame /\ UNCHANGED timers

\* What the receive library of the destination answers now.
Verifiable == attested >= needed

\* Mutant: each event is taken for the proof of its packet.
VerifyAny(w) ==
    /\ at[w] = "verify"
    /\ at' = [at EXCEPT ![w] = "checkProof"]
    /\ LayerZeroFrame /\ UNCHANGED <<pending, timers>>

\* Mutant: the proof is stored without setAMBProof's check.
VerifyUnchecked(w) ==
    /\ at[w] = "verify"
    /\ at' = [at EXCEPT ![w] = IF Verifiable THEN "setProof" ELSE "idle"]
    /\ LayerZeroFrame /\ UNCHANGED <<pending, timers>>

\* verifiable() is asked of the chain as it is now.
CheckIfVerifiable(w) ==
    /\ at[w] = "verify"
    /\ at' = [at EXCEPT ![w] = IF Verifiable THEN "checkProof" ELSE "idle"]
    /\ LayerZeroFrame /\ UNCHANGED <<pending, timers>>

\* Mutant: without the delay.
OnProcessedPacketAtOnce ==
    /\ timers > 0 /\ Ready("recovered")
    /\ timers' = timers - 1
    /\ pending' = IF pending = <<>> THEN <<>> ELSE Tail(pending)
    /\ at' = IF pending = <<>> THEN at ELSE [at EXCEPT !["recovered"] = "readData"]
    /\ LayerZeroFrame

\* The delay lets the answer of a read that was under way arrive first.
OnProcessedPacket ==
    /\ timers > 0 /\ at["verified"] # "enqueue" /\ Ready("recovered")
    /\ timers' = timers - 1
    /\ pending' = IF pending = <<>> THEN <<>> ELSE Tail(pending)
    /\ at' = IF pending = <<>> THEN at ELSE [at EXCEPT !["recovered"] = "readData"]
    /\ LayerZeroFrame

PendingAges ==
    /\ \E j \in DOMAIN pending : pending[j] = "fresh"
    /\ pending' = [j \in DOMAIN pending |-> "stale"]
    /\ LayerZeroFrame /\ UNCHANGED <<at, timers>>

-----------------------------------------------------------------------------
\* An operator asks for priority (StoreController), once.
PrioritiseAMBMessage ==
    /\ Handle("operator", 1, <<"readMessage">>)
    /\ UNCHANGED wormhole

\* A command of a call.
StoreStep(w) ==
    /\ Command(w)
    /\ prioritised' = (prioritised \/ at[w] = "setPriority")
    /\ forgotten' = (forgotten \/ (at[w] = "announceProof" /\ submitter # "listening"))
    /\ UNCHANGED <<chains, threads, wormhole, layerZero, failures, restarts>>

\* The call has returned and the handler makes its next one.
NextCall(w) ==
    /\ at[w] = "idle" /\ todo[w] # <<>>
    /\ at' = [at EXCEPT ![w] = Head(todo[w])]
    /\ todo' = [todo EXCEPT ![w] = Tail(@)]
    /\ UNCHANGED <<redis, announced, submitterVars, raced, chains, found, wormhole, layerZero,
                   failures, restarts, history>>

\* A command, or a request that precedes it, fails: the handler's error is logged.
HandlerFails(w) ==
    /\ at[w] # "idle" /\ failures < MaxFailures
    /\ failures' = failures + 1
    /\ at' = [at EXCEPT ![w] = "idle"]
    /\ todo' = [todo EXCEPT ![w] = <<>>]
    /\ UNCHANGED <<redis, announced, submitterVars, raced, chains, found, wormhole, layerZero,
                   restarts, history>>

SubmitterStep ==
    /\ ListenForOrders \/ AddSubmitOrder
    /\ UNCHANGED <<chains, threads, wormhole, layerZero, failures, restarts, history>>

SubmitterFails ==
    /\ failures < MaxFailures
    /\ LookupFails
    /\ failures' = failures + 1
    /\ UNCHANGED <<chains, threads, wormhole, layerZero, restarts, history>>

RestartAll ==
    /\ restarts < MaxRestarts
    /\ restarts' = restarts + 1
    /\ Restart
    /\ found' = Fresh(0) /\ todo' = Fresh(<<>>)
    /\ engine' = "starting" /\ recovery' = "starting" /\ engineFirst' = FALSE
    /\ pending' = <<>> /\ listening' = FALSE /\ timers' = 0
    /\ forgotten' = (forgotten \/ proof)
    /\ UNCHANGED <<chains, failures, prioritised>>

Await(w) ==
    \/ StoreStep(w) \/ NextCall(w) \/ AnnouncePacket(w) \/ ReadData(w)
    \/ QueuePendingPayloadVerifiedEvent(w) \/ CheckIfVerifiable(w)

CollectorsNext ==
    \/ Emit \/ Attest
    \/ HandleLogMessagePublished \/ HandleMockMessage \/ HandleSendPacket
    \/ SetStartingSequences \/ EngineProcessVAA
    \/ GetTimestampsFromBlockNumbers \/ RecoverVAAs \/ FetchVAAsFails
    \/ ListenForProcessedPackets \/ HandlePacketSent \/ HandlePayloadVerified
    \/ OnProcessedPacket \/ PendingAges
    \/ PrioritiseAMBMessage
    \/ \E w \in Workers : Await(w) \/ HandlerFails(w)
    \/ SubmitterStep \/ SubmitterFails \/ RestartAll

CollectorsSpec == CollectorsInit /\ [][CollectorsNext]_vars

\* The loops go on, the listeners' callbacks run and redis answers. Nothing
\* makes the operator, the chain or the AMB act, nor a pending event age.
Fairness ==
    /\ WF_vars(HandleLogMessagePublished) /\ WF_vars(HandleMockMessage) /\ WF_vars(HandleSendPacket)
    /\ WF_vars(SetStartingSequences) /\ WF_vars(EngineProcessVAA)
    /\ WF_vars(GetTimestampsFromBlockNumbers) /\ WF_vars(RecoverVAAs)
    /\ WF_vars(ListenForProcessedPackets) /\ WF_vars(HandlePacketSent)
    /\ WF_vars(HandlePayloadVerified) /\ WF_vars(OnProcessedPacket)
    /\ \A w \in Workers : WF_vars(Await(w))
    /\ WF_vars(SubmitterStep)

FairSpec == CollectorsSpec /\ Fairness

-----------------------------------------------------------------------------
\* The type invariant of the collectors.
CollectorsTypeOK ==
    /\ bridge \in Bridges /\ supported \in BOOLEAN /\ emitted \in BOOLEAN
    /\ attested \in 0..needed /\ needed \in 1..MaxVerifications
    /\ at \in [Workers -> Commands \cup LocalCommands \cup {"idle"}]
    /\ found \in [Workers -> Nat] /\ todo \in [Workers -> Seq(Calls \cup LocalCommands)]
    /\ engine \in {"starting", "listening", "skipping", "ended"}
    /\ recovery \in {"starting", "covers", "misses", "done"}
    /\ pending \in Seq({"fresh", "stale"}) /\ timers \in 0..1

\* An order of a mock or LayerZero message carries what the message says, its
\* priority among it: there the message is stored before the proof can be
\* announced. (A Wormhole VAA may come before the sniffer has the message.)
OrdersKnowMessage == bridge \in {"mock", "layer-zero"} => orders["none"] = 0

\* A proof of a LayerZero packet is stored only once the receive library of the
\* destination holds it verifiable, however many events there were before.
ProofOnlyIfVerifiable == bridge = "layer-zero" /\ proof => attested >= needed

\* A priority that was set is kept, unless the message is collected again, by
\* the recovery after the sniffer or after a restart: setAMBMessage overwrites.
PriorityKept ==
    prioritised /\ restarts = 0 /\ found["sniffer"] + found["recovery"] <= 1 => message = "priority"

\* A VAA that is too old for the engine is left to the recovery, which has it
\* if the engine read its starting sequence before the recovery its range.
VAAMissedOnlyIfRecoveryFirst ==
    engine = "skipping" /\ recovery = "done" /\ engineFirst /\ failures = 0 => found["recovery"] = 1

\* The collectors use the store only through its calls: what is proved of
\* AMBStore for any workers holds of these.
Store == INSTANCE AMBStore WITH
    at <- [w \in Workers |-> IF at[w] \in LocalCommands THEN "idle" ELSE at[w]]
ImplementsStore == Store!Spec

Provable == emitted /\ attested >= needed /\ supported /\ bridge # "polymer"
VAAMissed == engine = "skipping" /\ ~engineFirst /\ recovery # "starting"

\* A message that can be proved becomes an order in the end, restarts included,
\* unless a command failed, the VAA fell between the engine and the recovery,
\* or its proof was stored but not heard: such a proof is not announced again.
ProvedBecomesOrder ==
    Provable ~> ((\E v \in Values : orders[v] > 0) \/ failures > 0 \/ forgotten \/ VAAMissed)
=============================================================================
