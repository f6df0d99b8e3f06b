---------------------------- MODULE CollectorsProofs ----------------------------
(***************************************************************************)
(* Proofs about AMBStore for any workers and any order of commands, and    *)
(* about the collectors that call it, for any bounds.                      *)
(***************************************************************************)
EXTENDS Collectors, TLAPS

-----------------------------------------------------------------------------
(***************************************************************************)
(* The store, whoever calls it.                                            *)
(***************************************************************************)

\* What a worker may await: a command of the store, one of its own, or nothing.
AnyPlace == Commands \cup LocalCommands \cup {"idle"}

\* setAMBProof is safe as long as no two calls are between check and set.
OneAnnouncer ==
    /\ \A v, w \in Workers :
          at[v] = at[w] /\ at[v] \in {"setProof", "announceProof"} => v = w
    /\ \A w \in Workers : at[w] = "setProof" => ~proof
    /\ \A w \in Workers : at[w] = "announceProof" => proof /\ announced = 0
    /\ ~proof => announced = 0
    /\ announced <= 1

StoreInv == StoreTypeOK /\ (raced \/ OneAnnouncer)

\* The state of the store keeps its types.
LEMMA StoreTypeInit == Init => StoreTypeOK
<1>1. NoOrders \in [Values -> Nat]  BY DEF NoOrders
<1>2. "none" \in Values  BY DEF Values
<1>3. [w \in Workers |-> "idle"] \in [Workers -> Commands \cup {"idle"}]  OBVIOUS
<1>4. SUFFICES ASSUME Init PROVE StoreTypeOK
  OBVIOUS
<1>5. orders \in [Values -> Nat] /\ message \in Values  BY <1>1, <1>2, <1>4 DEF Init
<1>6. at \in [Workers -> Commands \cup {"idle"}]  BY <1>3, <1>4 DEF Init
<1>7. announced \in Nat /\ lookups \in Nat  BY <1>4 DEF Init
<1>. QED  BY <1>4, <1>5, <1>6, <1>7, Zenon DEF Init, StoreTypeOK

LEMMA StoreTypeStep == StoreTypeOK /\ [Next]_storeVars => StoreTypeOK'
<1>. SUFFICES ASSUME StoreTypeOK, [Next]_storeVars PROVE StoreTypeOK'
  OBVIOUS
<1>1. NoOrders \in [Values -> Nat]  BY DEF NoOrders
<1>. USE DEF StoreTypeOK, Commands, Calls, redis, submitterVars
<1>2. ASSUME NEW w \in Workers, Command(w) PROVE StoreTypeOK'
  <2>1. CASE SetMessage(w)  BY <2>1 DEF SetMessage, Values
  <2>2. CASE ListHash(w)  BY <2>2 DEF ListHash
  <2>3. CASE AnnounceMessage(w)  BY <2>3 DEF AnnounceMessage
  <2>4. CASE ReadMessage(w)  BY <2>4 DEF ReadMessage
  <2>5. CASE SetPriority(w)  BY <2>5 DEF SetPriority, Values
  <2>6. CASE CheckProof(w)  BY <2>6, ZenonT(30) DEF CheckProof
  <2>7. CASE SetProof(w)  BY <2>7 DEF SetProof
  <2>8. CASE AnnounceProof(w)  BY <2>8 DEF AnnounceProof
  <2>9. CASE SetData(w)  BY <2>9 DEF SetData
  <2>. QED  BY <1>2, <2>1, <2>2, <2>3, <2>4, <2>5, <2>6, <2>7, <2>8, <2>9 DEF Command
<1>3. ASSUME NEW w \in Workers, CommandFails(w) PROVE StoreTypeOK'
  BY <1>3 DEF CommandFails
<1>4. ASSUME NEW w \in Workers, NEW c \in Calls, Call(w, c) PROVE StoreTypeOK'
  BY <1>4 DEF Call
<1>5. CASE ListenForOrders  BY <1>5 DEF ListenForOrders
<1>6. CASE AddSubmitOrder  BY <1>6 DEF AddSubmitOrder
<1>7. CASE LookupFails  BY <1>1, <1>7 DEF LookupFails
<1>8. CASE Restart  BY <1>1, <1>8 DEF Restart
<1>9. CASE UNCHANGED storeVars  BY <1>9 DEF storeVars
<1>. QED  BY <1>2, <1>3, <1>4, <1>5, <1>6, <1>7, <1>8, <1>9 DEF Next

\* A worker that does not come to set or announce a proof disturbs nothing.
LEMMA AnnouncerKept ==
    ASSUME OneAnnouncer, UNCHANGED <<proof, announced>>,
           \A w \in Workers : at'[w] = at[w] \/ at'[w] \notin {"setProof", "announceProof"}
    PROVE  OneAnnouncer'
BY DEF OneAnnouncer

LEMMA AnnouncerMoves ==
    ASSUME at \in [Workers -> AnyPlace], OneAnnouncer, UNCHANGED <<proof, announced>>,
           NEW w \in Workers, NEW c, c \notin {"setProof", "announceProof"},
           at' = [at EXCEPT ![w] = c]
    PROVE  OneAnnouncer'
<1>1. \A v \in Workers : at'[v] = at[v] \/ at'[v] \notin {"setProof", "announceProof"}  OBVIOUS
<1>. QED  BY <1>1, AnnouncerKept

LEMMA AnnouncerCommand ==
    ASSUME at \in [Workers -> AnyPlace], announced \in Nat, proof \in BOOLEAN,
           raced \/ OneAnnouncer, ~raced', NEW w \in Workers, Command(w)
    PROVE  OneAnnouncer'
<1>. USE DEF redis, submitterVars
<1>1. ~raced => OneAnnouncer  OBVIOUS
<1>2. CASE SetMessage(w)  BY <1>1, <1>2, AnnouncerMoves DEF SetMessage
<1>3. CASE ListHash(w)  BY <1>1, <1>3, AnnouncerMoves DEF ListHash
<1>4. CASE AnnounceMessage(w)  BY <1>1, <1>4, AnnouncerMoves DEF AnnounceMessage
<1>5. CASE ReadMessage(w)
  <2>1. (IF message = "none" THEN "idle" ELSE "setPriority") \notin {"setProof", "announceProof"}
    OBVIOUS
  <2>. QED  BY <1>1, <1>5, <2>1, AnnouncerMoves DEF ReadMessage
<1>6. CASE SetPriority(w)  BY <1>1, <1>6, AnnouncerMoves DEF SetPriority
<1>7. CASE CheckProof(w)
  <2>1. OneAnnouncer /\ \A v \in Workers : at[v] # "setProof"
    BY <1>1, <1>7 DEF CheckProof
  <2>2. CASE proof  BY <1>7, <2>1, <2>2, AnnouncerMoves DEF CheckProof
  <2>3. CASE ~proof  BY <1>7, <2>1, <2>3 DEF CheckProof, OneAnnouncer
  <2>. QED  BY <2>2, <2>3
<1>8. CASE SetProof(w)
  <2>1. OneAnnouncer /\ ~proof /\ \A v \in Workers : at[v] # "announceProof"
    BY <1>1, <1>8 DEF SetProof, OneAnnouncer
  <2>2. \A v \in Workers : v # w => at[v] # "setProof"
    BY <1>8, <2>1 DEF SetProof, OneAnnouncer
  <2>. QED  BY <1>8, <2>1, <2>2 DEF SetProof, OneAnnouncer
<1>9. CASE AnnounceProof(w)
  <2>1. OneAnnouncer /\ proof /\ announced = 0 /\ \A v \in Workers : v # w => at[v] # "announceProof"
    BY <1>1, <1>9 DEF AnnounceProof, OneAnnouncer
  <2>. QED  BY <1>9, <2>1 DEF AnnounceProof, OneAnnouncer
<1>10. CASE SetData(w)  BY <1>1, <1>10, AnnouncerMoves DEF SetData
<1>. QED  BY <1>2, <1>3, <1>4, <1>5, <1>6, <1>7, <1>8, <1>9, <1>10 DEF Command

LEMMA AnnouncerStep == StoreInv /\ [Next]_storeVars => (raced' \/ OneAnnouncer')
<1>. SUFFICES ASSUME StoreTypeOK, raced \/ OneAnnouncer, [Next]_storeVars, ~raced'
              PROVE  OneAnnouncer'
  BY DEF StoreInv
<1>. USE DEF redis, submitterVars
<1>1. ~raced => OneAnnouncer  OBVIOUS
<1>2. at \in [Workers -> AnyPlace] /\ announced \in Nat /\ proof \in BOOLEAN
  BY DEF StoreTypeOK, AnyPlace
<1>3. ASSUME NEW w \in Workers, Command(w) PROVE OneAnnouncer'
  BY <1>2, <1>3, AnnouncerCommand
<1>4. ASSUME NEW w \in Workers, CommandFails(w) PROVE OneAnnouncer'
  BY <1>1, <1>2, <1>4, AnnouncerMoves DEF CommandFails
<1>5. ASSUME NEW w \in Workers, NEW c \in Calls, Call(w, c) PROVE OneAnnouncer'
  BY <1>1, <1>2, <1>5, AnnouncerMoves DEF Call, Calls
<1>6. CASE ListenForOrders  BY <1>1, <1>6, AnnouncerKept DEF ListenForOrders
<1>7. CASE AddSubmitOrder  BY <1>1, <1>7, AnnouncerKept DEF AddSubmitOrder
<1>8. CASE LookupFails  BY <1>1, <1>8, AnnouncerKept DEF LookupFails
<1>9. CASE Restart  BY <1>1, <1>9, AnnouncerKept DEF Restart
<1>10. CASE UNCHANGED storeVars  BY <1>1, <1>10, AnnouncerKept DEF storeVars
<1>. QED  BY <1>3, <1>4, <1>5, <1>6, <1>7, <1>8, <1>9, <1>10 DEF Next

LEMMA StoreInductive == Spec => []StoreInv
<1>1. Init => StoreInv
  <2>1. Init => OneAnnouncer  BY DEF Init, OneAnnouncer
  <2>. QED  BY <2>1, StoreTypeInit DEF StoreInv
<1>2. StoreInv /\ [Next]_storeVars => StoreInv'  BY StoreTypeStep, AnnouncerStep DEF StoreInv
<1>. QED  BY <1>1, <1>2, PTL DEF Spec

\* The store keeps its types.
THEOREM StoreTypeCorrect == Spec => []StoreTypeOK
<1>1. StoreInv => StoreTypeOK  BY DEF StoreInv
<1>. QED  BY <1>1, StoreInductive, PTL

\* A relay's proof is announced to the submitter at most once, over restarts
\* and failures, unless two calls of setAMBProof were between their check and
\* their set at the same time.
THEOREM AnnouncedOnceSafe == Spec => []AnnouncedOnceUnlessRaced
<1>1. StoreInv => AnnouncedOnceUnlessRaced  BY DEF StoreInv, OneAnnouncer, AnnouncedOnceUnlessRaced
<1>. QED  BY <1>1, StoreInductive, PTL

-----------------------------------------------------------------------------
(***************************************************************************)
(* The handlers of the collectors. Each worker runs one program: the       *)
(* commands of its call, then those of the calls that follow.              *)
(***************************************************************************)

MessageCall == {"setMessage", "listHash", "announceMessage"}
ProofCall == {"checkProof", "setProof", "announceProof"}
DataCall == {"readData", "enqueue", "verify"}

\* The workers that collect the message, each from an event or a VAA of its own.
Collecting == {"sniffer", "recovery", "mock", "polymer", "sent"}
Handlers == Collecting \cup {"engine", "verified", "operator"}

\* The first call of each handler, and the calls that follow it.
First == [w \in Handlers |->
    CASE w \in Collecting -> "setMessage" [] w = "engine" -> "checkProof"
      [] w = "verified" -> "readData" [] OTHER -> "readMessage"]
Following == [w \in Handlers |->
    CASE w \in {"recovery", "mock"} -> <<"checkProof">>
      [] w = "sent" -> <<"setData", "announcePacket">> [] OTHER -> <<>>]
Rests == {<<>>, <<"checkProof">>, <<"announcePacket">>, <<"setData", "announcePacket">>}

\* The bridge each worker belongs to; an operator may act on any.
Owner == [w \in (Handlers \ {"operator"}) \cup {"recovered"} |->
    CASE w \in {"sniffer", "engine", "recovery"} -> "wormhole"
      [] w \in {"sent", "verified", "recovered"} -> "layer-zero" [] OTHER -> w]

\* The types of the collectors' state, but for the pending events.
ChainTypes ==
    /\ bridge \in Bridges /\ supported \in BOOLEAN /\ emitted \in BOOLEAN
    /\ needed \in 1..MaxVerifications /\ attested \in 0..needed
RedisTypes ==
    /\ message \in Values /\ listed \in BOOLEAN /\ proof \in BOOLEAN /\ data \in BOOLEAN
    /\ announced \in Nat /\ raced \in BOOLEAN
SubmitterTypes ==
    /\ submitter \in {"starting", "listening", "ended"} /\ lookups \in Nat /\ orders \in [Values -> Nat]
ThreadTypes ==
    at \in [Workers -> AnyPlace] /\ todo \in [Workers -> Rests] /\ found \in [Workers -> Nat]
WormholeTypes ==
    /\ engine \in {"starting", "listening", "skipping", "ended"}
    /\ recovery \in {"starting", "covers", "misses", "done"} /\ engineFirst \in BOOLEAN
LayerZeroTypes == listening \in BOOLEAN /\ timers \in Nat
HistoryTypes ==
    failures \in Nat /\ restarts \in Nat /\ forgotten \in BOOLEAN /\ prioritised \in BOOLEAN

CollectorsTypes ==
    /\ ChainTypes /\ RedisTypes /\ SubmitterTypes /\ ThreadTypes
    /\ WormholeTypes /\ LayerZeroTypes /\ HistoryTypes

\* The place of a worker in its program.
Resting(w) == at[w] = "idle" /\ todo[w] = <<>>
In(w, S, calls) == at[w] \in S \cup {"idle"} /\ todo[w] = calls

Placed(w) ==
    /\ w \in {"sniffer", "polymer"} => In(w, MessageCall, <<>>)
    /\ w = "engine" => In(w, ProofCall, <<>>)
    /\ w \in {"recovery", "mock"} => In(w, MessageCall, <<"checkProof">>) \/ In(w, ProofCall, <<>>)
    /\ w = "sent" =>
        \/ In(w, MessageCall, <<"setData", "announcePacket">>)
        \/ In(w, {"setData"}, <<"announcePacket">>)
        \/ In(w, {"announcePacket"}, <<>>)
    /\ w \in {"verified", "recovered"} => In(w, DataCall \cup ProofCall, <<>>)
    /\ w = "operator" => In(w, {"readMessage", "setPriority"}, <<>>)
    /\ w \notin Handlers \cup {"recovered"} => Resting(w)

\* Only the workers of the message's bridge act, and a message is collected
\* once by each worker in a life of the process.
Owned(w) == w \in DOMAIN Owner /\ bridge # Owner[w] => Resting(w) /\ found[w] = 0
Once(w) == w \in Collecting => found[w] <= 1 /\ (~Resting(w) => found[w] = 1)

WorkersInv == \A w \in Workers : Placed(w) /\ Owned(w) /\ Once(w)

\* Wormhole's threads and LayerZero's listeners run for their bridge only; a
\* packet is announced once.
BridgesInv ==
    /\ bridge # "wormhole" => engine = "starting" /\ recovery = "starting"
    /\ bridge # "layer-zero" => ~listening /\ timers = 0
    /\ timers <= 1 /\ (timers = 1 => found["sent"] = 1 /\ Resting("sent"))

\* Until the message is stored nobody of a mock or LayerZero bridge has come
\* further than storing it, or to a read that needs it.
KnownInv ==
    bridge \in {"mock", "layer-zero"} =>
        /\ orders["none"] = 0
        /\ message = "none" =>
            /\ lookups = 0 /\ ~data
            /\ \A w \in Workers :
                \/ at[w] = "setMessage"
                \/ at[w] \in {"idle", "readMessage", "readData", "enqueue"} /\ todo[w] = <<>>

\* Until it is verifiable nobody of LayerZero is about to store a proof.
VerifiedInv ==
    bridge = "layer-zero" /\ attested < needed =>
        ~proof /\ \A w \in Workers : at[w] \notin ProofCall

\* A priority is set on a stored message; a message that is stored has been
\* collected by a worker that will not store it again.
PriorityInv ==
    /\ prioritised \/ at["operator"] = "setPriority" => message # "none"
    /\ restarts = 0 /\ message # "none" =>
          \E w \in Collecting : found[w] = 1 /\ at[w] # "setMessage"
    /\ PriorityKept

\* The VAA that the engine skips was there when it read its starting sequence,
\* so a recovery that fixes its range later covers the message.
SkippedInv ==
    /\ engine = "skipping" => attested > 0
    /\ attested > 0 => emitted
    /\ engineFirst => engine # "starting" /\ recovery # "starting"
    /\ engine = "skipping" /\ engineFirst => recovery # "misses"
    /\ VAAMissedOnlyIfRecoveryFirst

CollectorsInv ==
    /\ CollectorsTypes /\ WorkersInv /\ BridgesInv /\ KnownInv /\ VerifiedInv /\ PriorityInv /\ SkippedInv
    /\ raced \/ OneAnnouncer

-----------------------------------------------------------------------------
(***************************************************************************)
(* What the steps do to the workers.                                       *)
(***************************************************************************)

\* Worker w takes up an event that its worker has not seen.
Started(w) ==
    /\ w \in Handlers /\ Resting(w) /\ (w \in Collecting => found[w] = 0)
    /\ w \in DOMAIN Owner => bridge = Owner[w]
    /\ found' = [found EXCEPT ![w] = @ + 1]
    /\ \/ at' = [at EXCEPT ![w] = First[w]] /\ todo' = [todo EXCEPT ![w] = Following[w]]
       \/ at' = [at EXCEPT ![w] = "idle"] /\ todo' = [todo EXCEPT ![w] = <<>>]
    /\ UNCHANGED <<redis, announced, submitterVars, raced, chains, layerZero,
                   failures, restarts, history>>

LEMMA NamesOfWorkers ==
    /\ Handlers \cup {"recovered"} \subseteq Workers
    /\ DOMAIN Owner \subseteq Workers
BY WorkersAssumption DEF Handlers, Collecting, Owner

\* The programs as the handlers give them.
LEMMA Programs ==
    /\ First["sniffer"] = "setMessage" /\ Following["sniffer"] = <<>>
    /\ First["mock"] = "setMessage" /\ Following["mock"] = <<"checkProof">>
    /\ First["polymer"] = "setMessage" /\ Following["polymer"] = <<>>
    /\ First["engine"] = "checkProof" /\ Following["engine"] = <<>>
    /\ First["recovery"] = "setMessage" /\ Following["recovery"] = <<"checkProof">>
    /\ First["sent"] = "setMessage" /\ Following["sent"] = <<"setData", "announcePacket">>
    /\ First["verified"] = "readData" /\ Following["verified"] = <<>>
    /\ First["operator"] = "readMessage" /\ Following["operator"] = <<>>
BY DEF First, Following, Handlers, Collecting

LEMMA Owners ==
    /\ \A w \in {"sniffer", "engine", "recovery"} : w \in DOMAIN Owner /\ Owner[w] = "wormhole"
    /\ \A w \in {"sent", "verified", "recovered"} : w \in DOMAIN Owner /\ Owner[w] = "layer-zero"
    /\ \A w \in {"mock", "polymer"} : w \in DOMAIN Owner /\ Owner[w] = w
    /\ DOMAIN Owner = (Handlers \ {"operator"}) \cup {"recovered"}
BY DEF Owner, Handlers, Collecting

\* What follows a call in a program.
LEMMA Sequels ==
    /\ Head(<<"checkProof">>) = "checkProof" /\ Tail(<<"checkProof">>) = <<>>
    /\ Head(<<"announcePacket">>) = "announcePacket" /\ Tail(<<"announcePacket">>) = <<>>
    /\ Head(<<"setData", "announcePacket">>) = "setData"
    /\ Tail(<<"setData", "announcePacket">>) = <<"announcePacket">>
    /\ Head(<<"setMessage">>) = "setMessage" /\ Tail(<<"setMessage">>) = <<>>
    /\ Head(<<"readData">>) = "readData" /\ Tail(<<"readData">>) = <<>>
    /\ Head(<<"readMessage">>) = "readMessage" /\ Tail(<<"readMessage">>) = <<>>
    /\ Head(<<"setMessage", "checkProof">>) = "setMessage"
    /\ Tail(<<"setMessage", "checkProof">>) = <<"checkProof">>
    /\ Head(<<"setMessage", "setData", "announcePacket">>) = "setMessage"
    /\ Tail(<<"setMessage", "setData", "announcePacket">>) = <<"setData", "announcePacket">>
OBVIOUS

LEMMA Starting ==
    ASSUME NEW w \in Handlers, NEW n, NEW calls, Handle(w, n, calls), found[w] \in Nat,
           w \in DOMAIN Owner => bridge = Owner[w],
           w \in Collecting => n \in 0..1,
           calls = <<>> \/ (calls # <<>> /\ Head(calls) = First[w] /\ Tail(calls) = Following[w])
    PROVE  Started(w)
<1>1. at[w] = "idle" /\ todo[w] = <<>> /\ found[w] < n  BY DEF Handle, Ready
<1>2. w \in Collecting => found[w] = 0  BY <1>1
<1>3. CASE calls = <<>>  BY <1>1, <1>2, <1>3 DEF Handle, Started, Resting
<1>4. CASE calls # <<>>  BY <1>1, <1>2, <1>4 DEF Handle, Started, Resting
<1>. QED  BY <1>3, <1>4

\* Each handler starts its program.
TakesUp ==
    \/ HandleLogMessagePublished \/ HandleMockMessage \/ HandleSendPacket
    \/ EngineProcessVAA \/ (RecoverVAAs /\ RecoveryProcessVAA)
    \/ HandlePacketSent \/ HandlePayloadVerified \/ PrioritiseAMBMessage

LEMMA HandlersStart ==
    ASSUME CollectorsTypes, BridgesInv, TakesUp
    PROVE  \E w \in Handlers : Started(w)
<1>1. \A w \in Handlers : found[w] \in Nat  BY NamesOfWorkers DEF CollectorsTypes, ThreadTypes
<1>2. MessageEvents \in 0..1  BY DEF MessageEvents
<1>3. \A w \in {"sniffer", "engine", "recovery", "mock", "polymer", "sent", "verified", "operator"} :
        w \in Handlers
  BY DEF Handlers, Collecting
<1>4. \A calls : IfSupported(calls) = calls \/ IfSupported(calls) = <<>>  BY DEF IfSupported
<1>5. CASE HandleLogMessagePublished
  <2>1. IfSupported(<<"setMessage">>) = <<"setMessage">> \/ IfSupported(<<"setMessage">>) = <<>>  BY <1>4
  <2>. QED  BY <1>1, <1>2, <1>3, <1>5, <2>1, Starting, Programs, Owners, Sequels DEF HandleLogMessagePublished
<1>6. CASE HandleMockMessage
  BY <1>1, <1>2, <1>3, <1>6, Starting, Programs, Owners, Sequels DEF HandleMockMessage
<1>7. CASE HandleSendPacket
  <2>1. IfSupported(<<"setMessage">>) = <<"setMessage">> \/ IfSupported(<<"setMessage">>) = <<>>  BY <1>4
  <2>. QED  BY <1>1, <1>2, <1>3, <1>7, <2>1, Starting, Programs, Owners, Sequels DEF HandleSendPacket
<1>8. CASE EngineProcessVAA
  <2>1. IfSupported(<<"checkProof">>) = <<"checkProof">> \/ IfSupported(<<"checkProof">>) = <<>>  BY <1>4
  <2>2. bridge = "wormhole"  BY <1>8 DEF EngineProcessVAA, BridgesInv
  <2>3. "engine" \notin Collecting  BY DEF Collecting
  <2>. QED  BY <1>1, <1>3, <1>8, <2>1, <2>2, <2>3, Starting, Programs, Owners, Sequels DEF EngineProcessVAA
<1>9. CASE RecoverVAAs /\ RecoveryProcessVAA
  <2>1. \/ IfSupported(<<"setMessage", "checkProof">>) = <<"setMessage", "checkProof">>
        \/ IfSupported(<<"setMessage", "checkProof">>) = <<>>
    BY <1>4
  <2>2. bridge = "wormhole"  BY <1>9 DEF RecoverVAAs, BridgesInv
  <2>3. 1 \in 0..1  OBVIOUS
  <2>4. "recovery" \in Handlers /\ found["recovery"] \in Nat  BY <1>1, <1>3
  <2>5. Owner["recovery"] = "wormhole"  BY Owners
  <2>6. Handle("recovery", 1, IfSupported(<<"setMessage", "checkProof">>))
    BY <1>9 DEF RecoveryProcessVAA
  <2>. QED  BY <2>1, <2>2, <2>3, <2>4, <2>5, <2>6, Starting, Programs, Sequels
<1>10. CASE HandlePacketSent
  <2>1. \/ IfSupported(<<"setMessage", "setData", "announcePacket">>) = <<"setMessage", "setData", "announcePacket">>
        \/ IfSupported(<<"setMessage", "setData", "announcePacket">>) = <<>>
    BY <1>4
  <2>. QED  BY <1>1, <1>2, <1>3, <1>10, <2>1, Starting, Programs, Owners, Sequels DEF HandlePacketSent
<1>11. CASE HandlePayloadVerified
  <2>1. IfSupported(<<"readData">>) = <<"readData">> \/ IfSupported(<<"readData">>) = <<>>  BY <1>4
  <2>2. "verified" \notin Collecting  BY DEF Collecting
  <2>. QED  BY <1>1, <1>3, <1>11, <2>1, <2>2, Starting, Programs, Owners, Sequels DEF HandlePayloadVerified
<1>12. CASE PrioritiseAMBMessage
  <2>1. "operator" \notin Collecting /\ "operator" \notin DOMAIN Owner
    BY Owners DEF Collecting
  <2>. QED  BY <1>1, <1>3, <1>12, <2>1, Starting, Programs, Sequels DEF PrioritiseAMBMessage
<1>. QED  BY <1>5, <1>6, <1>7, <1>8, <1>9, <1>10, <1>11, <1>12 DEF TakesUp

\* The worker moves on in its program, or breaks it off.
Moved(w, place, rest) ==
    at' = [at EXCEPT ![w] = place] /\ todo' = [todo EXCEPT ![w] = rest] /\ UNCHANGED found

LEMMA MovedTyped ==
    ASSUME ThreadTypes, NEW w \in Workers, NEW place \in AnyPlace, NEW rest \in Rests,
           Moved(w, place, rest)
    PROVE  ThreadTypes'
BY DEF ThreadTypes, Moved

\* What the next call of a handler is.
LEMMA NextCallMoves ==
    ASSUME ThreadTypes, NEW w \in Workers, NextCall(w)
    PROVE  \/ todo[w] = <<"checkProof">> /\ Moved(w, "checkProof", <<>>)
           \/ todo[w] = <<"announcePacket">> /\ Moved(w, "announcePacket", <<>>)
           \/ todo[w] = <<"setData", "announcePacket">> /\ Moved(w, "setData", <<"announcePacket">>)
<1>1. todo[w] \in Rests \ {<<>>}  BY DEF ThreadTypes, NextCall
<1>2. todo' = [todo EXCEPT ![w] = Tail(todo[w])] /\ at' = [at EXCEPT ![w] = Head(todo[w])] /\ UNCHANGED found
  BY DEF NextCall, ThreadTypes
<1>3. CASE todo[w] = <<"checkProof">>
  <2>1. Head(todo[w]) = "checkProof" /\ Tail(todo[w]) = <<>>  BY ONLY <1>3, Sequels
  <2>. QED  BY <1>2, <1>3, <2>1 DEF Moved
<1>4. CASE todo[w] = <<"announcePacket">>
  <2>1. Head(todo[w]) = "announcePacket" /\ Tail(todo[w]) = <<>>  BY ONLY <1>4, Sequels
  <2>. QED  BY <1>2, <1>4, <2>1 DEF Moved
<1>5. CASE todo[w] = <<"setData", "announcePacket">>
  <2>1. Head(todo[w]) = "setData" /\ Tail(todo[w]) = <<"announcePacket">>  BY ONLY <1>5, Sequels
  <2>. QED  BY <1>2, <1>5, <2>1 DEF Moved
<1>. QED  BY <1>1, <1>3, <1>4, <1>5 DEF Rests

\* A step of a worker, but for a new event: it moves one worker.
Goes(w, place) ==
    /\ Moved(w, place, todo[w])
    /\ \/ at[w] = "setMessage" /\ place = "listHash"
       \/ at[w] = "listHash" /\ place = "announceMessage"
       \/ at[w] = "announceMessage" /\ place = "idle"
       \/ at[w] = "readMessage" /\ place \in {"idle", "setPriority"}
       \/ at[w] = "setPriority" /\ place = "idle"
       \/ at[w] = "checkProof" /\ place \in {"idle", "setProof"}
       \/ at[w] = "setProof" /\ place = "announceProof"
       \/ at[w] = "announceProof" /\ place = "idle"
       \/ at[w] = "setData" /\ place = "idle"
       \/ at[w] = "announcePacket" /\ place = "idle"
       \/ at[w] = "readData" /\ place \in {"verify", "enqueue"}
       \/ at[w] = "enqueue" /\ place = "idle"
       \/ at[w] = "verify" /\ place \in {"idle", "checkProof"}

LEMMA AwaitMoves ==
    ASSUME CollectorsTypes, NEW w \in Workers, Await(w)
    PROVE  NextCall(w) \/ \E place \in AnyPlace : Goes(w, place)
<1>1. todo' = [todo EXCEPT ![w] = todo[w]] <=> todo' = todo
  BY DEF CollectorsTypes, ThreadTypes
<1>. USE <1>1 DEF Goes, Moved, AnyPlace, Commands, Calls, LocalCommands
<1>2. CASE StoreStep(w)
  <2>. USE DEF StoreStep, threads
  <2>1. CASE SetMessage(w)  BY <1>2, <2>1 DEF SetMessage
  <2>2. CASE ListHash(w)  BY <1>2, <2>2 DEF ListHash
  <2>3. CASE AnnounceMessage(w)  BY <1>2, <2>3 DEF AnnounceMessage
  <2>4. CASE ReadMessage(w)  BY <1>2, <2>4 DEF ReadMessage
  <2>5. CASE SetPriority(w)  BY <1>2, <2>5 DEF SetPriority
  <2>6. CASE CheckProof(w)  BY <1>2, <2>6 DEF CheckProof
  <2>7. CASE SetProof(w)  BY <1>2, <2>7 DEF SetProof
  <2>8. CASE AnnounceProof(w)  BY <1>2, <2>8 DEF AnnounceProof
  <2>9. CASE SetData(w)  BY <1>2, <2>9 DEF SetData
  <2>. QED  BY <1>2, <2>1, <2>2, <2>3, <2>4, <2>5, <2>6, <2>7, <2>8, <2>9 DEF Command
<1>. USE DEF LayerZeroFrame, threads
<1>3. CASE AnnouncePacket(w)  BY <1>3 DEF AnnouncePacket
<1>4. CASE ReadData(w)  BY <1>4 DEF ReadData
<1>5. CASE QueuePendingPayloadVerifiedEvent(w)  BY <1>5 DEF QueuePendingPayloadVerifiedEvent
<1>6. CASE CheckIfVerifiable(w)  BY <1>6 DEF CheckIfVerifiable
<1>. QED  BY <1>2, <1>3, <1>4, <1>5, <1>6 DEF Await

\* The steps that move no worker.
Calm ==
    \/ Emit \/ Attest \/ SetStartingSequences \/ GetTimestampsFromBlockNumbers \/ FetchVAAsFails
    \/ (RecoverVAAs /\ UNCHANGED threads) \/ ListenForProcessedPackets \/ PendingAges
    \/ SubmitterStep \/ SubmitterFails \/ UNCHANGED vars

LEMMA CalmMovesNobody ==
    ASSUME CollectorsTypes, Calm
    PROVE  UNCHANGED <<bridge, supported, needed, redis, at, announced, raced, found, todo>>
<1>. USE DEF storeVars, redis, chains, threads
<1>1. CASE Emit \/ Attest  BY <1>1 DEF Emit, Attest
<1>2. CASE SetStartingSequences \/ GetTimestampsFromBlockNumbers \/ FetchVAAsFails
  BY <1>2 DEF SetStartingSequences, GetTimestampsFromBlockNumbers, FetchVAAsFails
<1>3. CASE RecoverVAAs /\ UNCHANGED threads
  <2>1. CASE RecoveryProcessVAA
    <3>1. "recovery" \in Workers  BY WorkersAssumption
    <3>2. found' = [found EXCEPT !["recovery"] = @ + 1]  BY <2>1 DEF RecoveryProcessVAA, Handle
    <3>3. found["recovery"] \in Nat /\ found'["recovery"] = found["recovery"] + 1
      BY <3>1, <3>2 DEF CollectorsTypes, ThreadTypes
    <3>. QED  BY <1>3, <3>3
  <2>. QED  BY <1>3, <2>1 DEF RecoverVAAs
<1>4. CASE ListenForProcessedPackets \/ PendingAges
  BY <1>4 DEF ListenForProcessedPackets, PendingAges, LayerZeroFrame
<1>5. CASE SubmitterStep \/ SubmitterFails
  BY <1>5 DEF SubmitterStep, SubmitterFails, ListenForOrders, AddSubmitOrder, LookupFails
<1>6. CASE UNCHANGED vars  BY <1>6 DEF vars
<1>. QED  BY <1>1, <1>2, <1>3, <1>4, <1>5, <1>6 DEF Calm

\* Every step takes up an event, moves a worker, restarts all, or does neither.
LEMMA StepKinds ==
    ASSUME [CollectorsNext]_vars
    PROVE  \/ TakesUp \/ OnProcessedPacket \/ RestartAll \/ Calm
           \/ \E w \in Workers : Await(w) \/ HandlerFails(w)
<1>1. RecoverVAAs => RecoveryProcessVAA \/ UNCHANGED threads  BY DEF RecoverVAAs
<1>. QED  BY <1>1 DEF CollectorsNext, TakesUp, Calm

-----------------------------------------------------------------------------
(***************************************************************************)
(* The types.                                                              *)
(***************************************************************************)

LEMMA ProgramTypes == \A w \in Handlers : First[w] \in AnyPlace /\ Following[w] \in Rests
<1>. SUFFICES ASSUME NEW w \in Handlers PROVE First[w] \in AnyPlace /\ Following[w] \in Rests
  OBVIOUS
<1>1. w \in {"sniffer", "recovery", "mock", "polymer", "sent", "engine", "verified", "operator"}
  BY DEF Handlers, Collecting
<1>2. {"setMessage", "checkProof", "readData", "readMessage"} \subseteq AnyPlace
  BY DEF AnyPlace, Commands, Calls, LocalCommands
<1>. QED  BY <1>1, <1>2, Programs DEF Rests

LEMMA StartedTyped ==
    ASSUME ThreadTypes, NEW w \in Handlers, Started(w)
    PROVE  ThreadTypes'
<1>1. First[w] \in AnyPlace /\ Following[w] \in Rests  BY ProgramTypes
<1>2. "idle" \in AnyPlace /\ <<>> \in Rests  BY DEF AnyPlace, Rests
<1>3. w \in Workers  BY NamesOfWorkers
<1>4. found' \in [Workers -> Nat]  BY <1>3 DEF Started, ThreadTypes
<1>5. at' \in [Workers -> AnyPlace] /\ todo' \in [Workers -> Rests]
  BY <1>1, <1>2, <1>3 DEF Started, ThreadTypes
<1>. QED  BY <1>4, <1>5 DEF ThreadTypes

LEMMA ThreadStep ==
    ASSUME CollectorsTypes, BridgesInv, [CollectorsNext]_vars
    PROVE  ThreadTypes'
<1>0. ThreadTypes  BY DEF CollectorsTypes
<1>1. CASE TakesUp  BY <1>0, <1>1, HandlersStart, StartedTyped
<1>2. CASE OnProcessedPacket
  <2>1. "readData" \in AnyPlace /\ "recovered" \in Workers
    BY NamesOfWorkers DEF AnyPlace, LocalCommands
  <2>. QED  BY <1>0, <1>2, <2>1 DEF OnProcessedPacket, LayerZeroFrame, threads, ThreadTypes
<1>3. CASE RestartAll
  <2>1. "idle" \in AnyPlace /\ <<>> \in Rests  BY DEF AnyPlace, Rests
  <2>. QED  BY <1>3, <2>1 DEF RestartAll, Restart, Fresh, ThreadTypes
<1>4. CASE Calm  BY <1>0, <1>4, CalmMovesNobody DEF ThreadTypes
<1>5. ASSUME NEW w \in Workers, Await(w) PROVE ThreadTypes'
  <2>1. {"checkProof", "announcePacket", "setData"} \subseteq AnyPlace
    BY DEF AnyPlace, LocalCommands, Commands, Calls
  <2>2. <<>> \in Rests /\ <<"announcePacket">> \in Rests  BY DEF Rests
  <2>3. CASE NextCall(w)  BY <1>0, <2>1, <2>2, <2>3, NextCallMoves, MovedTyped
  <2>4. CASE \E place \in AnyPlace : Goes(w, place)
    <3>1. todo[w] \in Rests  BY <1>0 DEF ThreadTypes
    <3>. QED  BY <1>0, <2>4, <3>1, MovedTyped DEF Goes
  <2>. QED  BY <1>5, <2>3, <2>4, AwaitMoves
<1>6. ASSUME NEW w \in Workers, HandlerFails(w) PROVE ThreadTypes'
  <2>1. "idle" \in AnyPlace /\ <<>> \in Rests  BY DEF AnyPlace, Rests
  <2>2. Moved(w, "idle", <<>>)  BY <1>6 DEF HandlerFails, Moved
  <2>. QED  BY <1>0, <2>1, <2>2, MovedTyped
<1>. QED  BY <1>1, <1>2, <1>3, <1>4, <1>5, <1>6, StepKinds

LEMMA CommandTyped ==
    ASSUME RedisTypes, SubmitterTypes, NEW w, Command(w)
    PROVE  RedisTypes' /\ SubmitterTypes'
<1>. USE DEF RedisTypes, SubmitterTypes, redis, submitterVars
<1>1. CASE SetMessage(w)  BY <1>1 DEF SetMessage, Values
<1>2. CASE ListHash(w)  BY <1>2 DEF ListHash
<1>3. CASE AnnounceMessage(w)  BY <1>3 DEF AnnounceMessage
<1>4. CASE ReadMessage(w)  BY <1>4 DEF ReadMessage
<1>5. CASE SetPriority(w)  BY <1>5 DEF SetPriority, Values
<1>6. CASE CheckProof(w)
  <2>1. (raced \/ \E v \in Workers : at[v] = "setProof") \in BOOLEAN  BY Zenon
  <2>2. raced' \in BOOLEAN  BY <1>6, <2>1 DEF CheckProof
  <2>. QED  BY <1>6, <2>2, Zenon DEF CheckProof
<1>7. CASE SetProof(w)  BY <1>7 DEF SetProof
<1>8. CASE AnnounceProof(w)  BY <1>8 DEF AnnounceProof
<1>9. CASE SetData(w)  BY <1>9 DEF SetData
<1>. QED  BY <1>1, <1>2, <1>3, <1>4, <1>5, <1>6, <1>7, <1>8, <1>9 DEF Command

\* What the steps of workers leave alone.
LEMMA WorkerFrame ==
    ASSUME NEW w, Await(w) \/ HandlerFails(w)
    PROVE  /\ UNCHANGED <<chains, wormhole, listening, restarts>>
           /\ StoreStep(w) \/ UNCHANGED <<redis, announced, submitterVars, raced, history>>
BY DEF Await, StoreStep, NextCall, AnnouncePacket, ReadData, QueuePendingPayloadVerifiedEvent,
       CheckIfVerifiable, HandlerFails, LayerZeroFrame, layerZero

LEMMA TakesUpFrame ==
    ASSUME TakesUp
    PROVE  /\ UNCHANGED <<redis, announced, submitterVars, raced, chains, layerZero, failures,
                          restarts, history, engine, engineFirst>>
           /\ UNCHANGED recovery \/ (RecoverVAAs /\ recovery' = "done")
BY DEF TakesUp, HandleLogMessagePublished, HandleMockMessage, HandleSendPacket, EngineProcessVAA,
       RecoverVAAs, RecoveryProcessVAA, HandlePacketSent, HandlePayloadVerified,
       PrioritiseAMBMessage, Handle, wormhole

LEMMA TypeStep ==
    ASSUME CollectorsTypes, BridgesInv, [CollectorsNext]_vars
    PROVE  CollectorsTypes'
<1>1. ThreadTypes'  BY ThreadStep
<1>2. ChainTypes /\ RedisTypes /\ SubmitterTypes /\ WormholeTypes /\ LayerZeroTypes /\ HistoryTypes
  BY DEF CollectorsTypes
<1>. DEFINE Rest == /\ ChainTypes /\ RedisTypes /\ SubmitterTypes
                    /\ WormholeTypes /\ LayerZeroTypes /\ HistoryTypes
<1>. SUFFICES Rest'
  BY <1>1 DEF CollectorsTypes
<1>. USE DEF ChainTypes, RedisTypes, SubmitterTypes, WormholeTypes, LayerZeroTypes, HistoryTypes,
             redis, submitterVars, chains, wormhole, layerZero, history
<1>3. CASE TakesUp  BY <1>2, <1>3, TakesUpFrame
<1>4. CASE OnProcessedPacket
  BY <1>2, <1>4 DEF OnProcessedPacket, LayerZeroFrame
<1>5. CASE RestartAll
  <2>1. NoOrders \in [Values -> Nat]  BY DEF NoOrders
  <2>2. forgotten' = (forgotten \/ proof) /\ UNCHANGED <<chains, failures, prioritised>>
    BY <1>5 DEF RestartAll
  <2>3. (forgotten \/ proof) \in BOOLEAN  BY Zenon
  <2>4. forgotten' \in BOOLEAN  BY <2>2, <2>3
  <2>5. restarts' \in Nat /\ UNCHANGED <<redis, announced, raced>> /\ lookups' = 0 /\ orders' = NoOrders
        /\ submitter' = "starting"
    BY <1>2, <1>5 DEF RestartAll, Restart
  <2>6. engine' = "starting" /\ recovery' = "starting" /\ engineFirst' = FALSE /\ listening' = FALSE /\ timers' = 0
    BY <1>5 DEF RestartAll
  <2>. QED  BY <1>2, <2>1, <2>2, <2>4, <2>5, <2>6
<1>6. ASSUME NEW w \in Workers, Await(w) \/ HandlerFails(w) PROVE Rest'
  <2>1. UNCHANGED <<chains, wormhole, listening, restarts>>  BY <1>6, WorkerFrame
  <2>2. RedisTypes' /\ SubmitterTypes'
    <3>1. CASE StoreStep(w)  BY <1>2, <3>1, CommandTyped DEF StoreStep
    <3>2. CASE UNCHANGED <<redis, announced, submitterVars, raced>>  BY <1>2, <3>2
    <3>. QED  BY <1>6, <3>1, <3>2, WorkerFrame
  <2>3. forgotten' \in BOOLEAN /\ prioritised' \in BOOLEAN
    <3>1. CASE StoreStep(w)
      <4>1. prioritised' = (prioritised \/ at[w] = "setPriority")  BY <3>1 DEF StoreStep
      <4>2. forgotten' = (forgotten \/ (at[w] = "announceProof" /\ submitter # "listening"))
        BY <3>1 DEF StoreStep
      <4>. QED  BY ONLY <4>1, <4>2, Zenon
    <3>2. CASE UNCHANGED history  BY <1>2, <3>2
    <3>. QED  BY <1>6, <3>1, <3>2, WorkerFrame
  <2>4. timers' \in Nat /\ failures' \in Nat
    <3>1. CASE HandlerFails(w)  BY <1>2, <3>1 DEF HandlerFails
    <3>2. CASE Await(w)
      BY <1>2, <3>2 DEF Await, StoreStep, NextCall, AnnouncePacket, ReadData,
         QueuePendingPayloadVerifiedEvent, CheckIfVerifiable, LayerZeroFrame
    <3>. QED  BY <1>6, <3>1, <3>2
  <2>. HIDE DEF RedisTypes, SubmitterTypes
  <2>. QED  BY <1>2, <2>1, <2>2, <2>3, <2>4
<1>7. CASE Calm
  <2>1. CASE Emit \/ Attest
    <3>1. UNCHANGED <<redis, announced, submitterVars, raced, wormhole, layerZero, failures, restarts, history>>
      BY <2>1 DEF Emit, Attest, storeVars
    <3>2. emitted' \in BOOLEAN /\ UNCHANGED <<bridge, supported, needed>>  BY <1>2, <2>1 DEF Emit, Attest
    <3>3. needed \in Nat /\ attested \in 0..needed  BY <1>2
    <3>4. attested' \in 0..needed  BY <2>1, <3>3 DEF Emit, Attest
    <3>. QED  BY <1>2, <3>1, <3>2, <3>4
  <2>2. CASE SetStartingSequences \/ GetTimestampsFromBlockNumbers \/ FetchVAAsFails
    <3>1. CASE SetStartingSequences  BY <1>2, <3>1 DEF SetStartingSequences, storeVars
    <3>2. CASE GetTimestampsFromBlockNumbers
      <4>1. (engine # "starting") \in BOOLEAN  BY Zenon
      <4>2. engineFirst' \in BOOLEAN  BY <3>2, <4>1 DEF GetTimestampsFromBlockNumbers
      <4>3. recovery' \in {"covers", "misses"}  BY <3>2 DEF GetTimestampsFromBlockNumbers
      <4>4. UNCHANGED <<redis, announced, submitterVars, raced, chains, engine, layerZero, failures, restarts, history>>
        BY <3>2 DEF GetTimestampsFromBlockNumbers, storeVars
      <4>. QED  BY <1>2, <4>2, <4>3, <4>4
    <3>3. CASE FetchVAAsFails  BY <1>2, <3>3 DEF FetchVAAsFails, storeVars
    <3>. QED  BY <2>2, <3>1, <3>2, <3>3
  <2>3. CASE RecoverVAAs /\ UNCHANGED threads
    <3>1. UNCHANGED <<redis, announced, submitterVars, raced, chains, layerZero, failures, restarts, history>>
      BY <2>3 DEF RecoverVAAs, RecoveryProcessVAA, Handle, storeVars
    <3>2. recovery' = "done" /\ UNCHANGED <<engine, engineFirst>>  BY <2>3 DEF RecoverVAAs
    <3>. QED  BY <1>2, <3>1, <3>2
  <2>4. CASE ListenForProcessedPackets \/ PendingAges
    <3>1. UNCHANGED <<redis, announced, submitterVars, raced, chains, wormhole, timers, failures, restarts, history>>
      BY <2>4 DEF ListenForProcessedPackets, PendingAges, LayerZeroFrame, storeVars
    <3>2. listening' \in BOOLEAN
      BY <1>2, <2>4 DEF ListenForProcessedPackets, PendingAges, LayerZeroFrame
    <3>. QED  BY <1>2, <3>1, <3>2
  <2>5. CASE SubmitterStep \/ SubmitterFails
    <3>1. NoOrders \in [Values -> Nat]  BY DEF NoOrders
    <3>2. CASE SubmitterStep  BY <1>2, <2>5, <3>2 DEF SubmitterStep, ListenForOrders, AddSubmitOrder
    <3>3. CASE SubmitterFails  BY <1>2, <2>5, <3>1, <3>3 DEF SubmitterFails, LookupFails
    <3>. QED  BY <2>5, <3>2, <3>3
  <2>6. CASE UNCHANGED vars  BY <1>2, <2>6 DEF vars, storeVars
  <2>. QED  BY <1>7, <2>1, <2>2, <2>3, <2>4, <2>5, <2>6 DEF Calm
<1>. HIDE DEF Rest
<1>. QED  BY <1>3, <1>4, <1>5, <1>6, <1>7, StepKinds

-----------------------------------------------------------------------------
(***************************************************************************)
(* The places of the workers.                                              *)
(***************************************************************************)

LEMMA RestingPlaced == ASSUME NEW w, Resting(w) PROVE Placed(w)
BY DEF Resting, Placed, In

LEMMA Undisturbed ==
    ASSUME NEW v, at'[v] = at[v], todo'[v] = todo[v], found'[v] = found[v], bridge' = bridge,
           Placed(v), Owned(v), Once(v)
    PROVE  Placed(v)' /\ Owned(v)' /\ Once(v)'
<1>1. Placed(v)'  BY DEF Placed, In, Resting
<1>2. Owned(v)' /\ Once(v)'  BY DEF Owned, Once, Resting
<1>. QED  BY <1>1, <1>2

LEMMA OneMoved ==
    ASSUME ThreadTypes, WorkersInv, bridge' = bridge, NEW w \in Workers,
           NEW place, NEW rest, at' = [at EXCEPT ![w] = place], todo' = [todo EXCEPT ![w] = rest],
           found' = found \/ found' = [found EXCEPT ![w] = @ + 1],
           Placed(w)' /\ Owned(w)' /\ Once(w)'
    PROVE  WorkersInv'
<1>1. SUFFICES ASSUME NEW v \in Workers, v # w PROVE Placed(v)' /\ Owned(v)' /\ Once(v)'
  BY DEF WorkersInv
<1>2. at'[v] = at[v] /\ todo'[v] = todo[v] /\ found'[v] = found[v]
  BY <1>1 DEF ThreadTypes
<1>3. Placed(v) /\ Owned(v) /\ Once(v)  BY DEF WorkersInv
<1>. QED  BY <1>2, <1>3, Undisturbed

LEMMA StartedPlaced ==
    ASSUME ThreadTypes, WorkersInv, NEW w \in Handlers, Started(w)
    PROVE  WorkersInv'
<1>1. w \in Workers  BY NamesOfWorkers
<1>2. bridge' = bridge  BY DEF Started, chains
<1>3. found[w] \in Nat /\ found'[w] = found[w] + 1  BY <1>1 DEF Started, ThreadTypes
<1>4. Owned(w)'
  <2>1. ~(w \in DOMAIN Owner /\ bridge # Owner[w])  BY DEF Started
  <2>. QED  BY <1>2, <2>1 DEF Owned
<1>5. Once(w)'  BY <1>3 DEF Once, Started
<1>6. Placed(w)'
  <2>1. CASE at' = [at EXCEPT ![w] = "idle"] /\ todo' = [todo EXCEPT ![w] = <<>>]
    <3>1. at'[w] = "idle" /\ todo'[w] = <<>>  BY <1>1, <2>1 DEF ThreadTypes
    <3>2. Resting(w)'  BY <3>1 DEF Resting
    <3>. QED  BY <3>2 DEF Resting, Placed, In
  <2>2. CASE at' = [at EXCEPT ![w] = First[w]] /\ todo' = [todo EXCEPT ![w] = Following[w]]
    <3>1. at'[w] = First[w] /\ todo'[w] = Following[w]  BY <1>1, <2>2 DEF ThreadTypes
    <3>2. w \in {"sniffer", "recovery", "mock", "polymer", "sent", "engine", "verified", "operator"}
      BY DEF Handlers, Collecting
    <3>3. CASE w \in {"sniffer", "recovery", "mock", "polymer", "sent"}
      <4>1. First[w] \in MessageCall  BY <3>3, Programs DEF MessageCall
      <4>2. w \in {"sniffer", "polymer"} => Following[w] = <<>>  BY Programs
      <4>3. w \in {"recovery", "mock"} => Following[w] = <<"checkProof">>  BY Programs
      <4>4. w = "sent" => Following[w] = <<"setData", "announcePacket">>  BY Programs
      <4>. QED  BY <3>1, <3>3, <4>1, <4>2, <4>3, <4>4 DEF Placed, In, Handlers, Collecting
    <3>4. CASE w \in {"engine", "verified", "operator"}
      <4>1. Following[w] = <<>>  BY <3>4, Programs
      <4>2. w = "engine" => First[w] \in ProofCall  BY Programs DEF ProofCall
      <4>3. w = "verified" => First[w] \in DataCall  BY Programs DEF DataCall
      <4>4. w = "operator" => First[w] = "readMessage"  BY Programs
      <4>. QED  BY <3>1, <3>4, <4>1, <4>2, <4>3, <4>4 DEF Placed, In, Handlers, Collecting
    <3>. QED  BY <3>2, <3>3, <3>4
  <2>. QED  BY <2>1, <2>2 DEF Started
<1>. QED
  <2>1. PICK place, rest : at' = [at EXCEPT ![w] = place] /\ todo' = [todo EXCEPT ![w] = rest]
    BY DEF Started
  <2>2. found' = [found EXCEPT ![w] = @ + 1]  BY DEF Started
  <2>. QED  BY <1>1, <1>2, <1>4, <1>5, <1>6, <2>1, <2>2, OneMoved

LEMMA MovedPlaced ==
    ASSUME ThreadTypes, WorkersInv, bridge' = bridge, NEW w \in Workers, ~Resting(w),
           NEW place, NEW rest, Moved(w, place, rest), Placed(w)'
    PROVE  WorkersInv'
<1>1. Owned(w) /\ Once(w)  BY DEF WorkersInv
<1>2. found' = found  BY DEF Moved
<1>3. Owned(w)' /\ Once(w)'  BY <1>1, <1>2 DEF Owned, Once
<1>. QED  BY <1>2, <1>3, OneMoved DEF Moved

LEMMA GoesPlaced ==
    ASSUME ThreadTypes, WorkersInv, bridge' = bridge, NEW w \in Workers, NEW place, Goes(w, place)
    PROVE  WorkersInv'
<1>1. Placed(w)  BY DEF WorkersInv
<1>2. at'[w] = place /\ todo'[w] = todo[w]  BY DEF Goes, Moved, ThreadTypes
<1>3. at[w] # "idle" /\ ~Resting(w)  BY DEF Goes, Resting
<1>4. Placed(w)'
  <2>1. place \in MessageCall \cup {"idle"} \/ at[w] \notin MessageCall
    BY DEF Goes, MessageCall
  <2>2. place \in ProofCall \cup {"idle"} \/ at[w] \notin ProofCall
    BY DEF Goes, ProofCall
  <2>3. place \in DataCall \cup ProofCall \cup {"idle"} \/ at[w] \notin DataCall \cup ProofCall
    BY DEF Goes, DataCall, ProofCall
  <2>4. place = "idle" \/ at[w] \notin {"setData", "announcePacket", "setPriority"}
    BY DEF Goes
  <2>5. place \in {"idle", "setPriority"} \/ at[w] # "readMessage"
    BY DEF Goes
  <2>. QED  BY <1>1, <1>2, <1>3, <2>1, <2>2, <2>3, <2>4, <2>5 DEF Placed, In, Resting
<1>. QED  BY <1>3, <1>4, MovedPlaced DEF Goes

LEMMA NextCallPlaced ==
    ASSUME ThreadTypes, WorkersInv, bridge' = bridge, NEW w \in Workers, NextCall(w)
    PROVE  WorkersInv'
<1>1. Placed(w)  BY DEF WorkersInv
<1>2. ~Resting(w)  BY DEF NextCall, Resting
<1>3. \A place, rest : Moved(w, place, rest) => at'[w] = place /\ todo'[w] = rest
  BY DEF Moved, ThreadTypes
<1>4. CASE todo[w] = <<"checkProof">> /\ Moved(w, "checkProof", <<>>)
  <2>1. at'[w] = "checkProof" /\ todo'[w] = <<>>  BY <1>3, <1>4
  <2>2. w \in {"recovery", "mock"}
    BY <1>1, <1>2, <1>4 DEF Placed, In, Resting, Handlers, Collecting
  <2>3. Placed(w)'
    BY <2>1, <2>2 DEF Placed, In, ProofCall, Handlers, Collecting
  <2>. QED  BY <1>2, <1>4, <2>3, MovedPlaced
<1>5. CASE todo[w] = <<"announcePacket">> /\ Moved(w, "announcePacket", <<>>)
  <2>1. at'[w] = "announcePacket" /\ todo'[w] = <<>>  BY <1>3, <1>5
  <2>2. w = "sent"
    BY <1>1, <1>2, <1>5 DEF Placed, In, Resting, Handlers, Collecting
  <2>3. Placed(w)'
    BY <2>1, <2>2 DEF Placed, In, Handlers, Collecting
  <2>. QED  BY <1>2, <1>5, <2>3, MovedPlaced
<1>6. CASE todo[w] = <<"setData", "announcePacket">> /\ Moved(w, "setData", <<"announcePacket">>)
  <2>1. at'[w] = "setData" /\ todo'[w] = <<"announcePacket">>  BY <1>3, <1>6
  <2>2. w = "sent"
    BY <1>1, <1>2, <1>6 DEF Placed, In, Resting, Handlers, Collecting
  <2>3. Placed(w)'
    BY <2>1, <2>2 DEF Placed, In, Handlers, Collecting
  <2>. QED  BY <1>2, <1>6, <2>3, MovedPlaced
<1>. QED  BY <1>4, <1>5, <1>6, NextCallMoves

LEMMA WorkersStep ==
    ASSUME CollectorsTypes, WorkersInv, BridgesInv, [CollectorsNext]_vars
    PROVE  WorkersInv'
<1>0. ThreadTypes  BY DEF CollectorsTypes
<1>1. CASE TakesUp  BY <1>0, <1>1, HandlersStart, StartedPlaced
<1>2. CASE OnProcessedPacket
  <2>1. "recovered" \in Workers  BY NamesOfWorkers
  <2>2. bridge = "layer-zero"  BY <1>2 DEF OnProcessedPacket, BridgesInv
  <2>3. bridge' = bridge /\ UNCHANGED <<found, todo>>
    BY <1>2 DEF OnProcessedPacket, LayerZeroFrame, chains, threads
  <2>4. todo["recovered"] = <<>> /\ at["recovered"] = "idle"  BY <1>2 DEF OnProcessedPacket, Ready
  <2>5. CASE at' = at  BY <2>3, <2>5, Undisturbed DEF WorkersInv
  <2>6. CASE at' = [at EXCEPT !["recovered"] = "readData"]
    <3>1. at'["recovered"] = "readData" /\ todo'["recovered"] = <<>>
      BY <1>0, <2>1, <2>3, <2>4, <2>6 DEF ThreadTypes
    <3>2. Placed("recovered")'  BY <3>1 DEF Placed, In, DataCall, Handlers, Collecting
    <3>3. Owned("recovered")' /\ Once("recovered")'
      BY <2>2, <2>3, Owners DEF Owned, Once, Collecting
    <3>4. todo' = [todo EXCEPT !["recovered"] = <<>>]
      BY <1>0, <2>1, <2>3, <2>4 DEF ThreadTypes
    <3>. QED  BY <1>0, <2>1, <2>3, <2>6, <3>2, <3>3, <3>4, OneMoved
  <2>. QED  BY <1>2, <2>5, <2>6 DEF OnProcessedPacket
<1>3. CASE RestartAll
  <2>1. SUFFICES ASSUME NEW w \in Workers PROVE Placed(w)' /\ Owned(w)' /\ Once(w)'
    BY DEF WorkersInv
  <2>2. at'[w] = "idle" /\ todo'[w] = <<>> /\ found'[w] = 0
    BY <1>3 DEF RestartAll, Restart, Fresh
  <2>3. Placed(w)'  BY <2>2 DEF Placed, In, Resting
  <2>. QED  BY <2>2, <2>3 DEF Owned, Once, Resting
<1>4. CASE Calm
  <2>1. UNCHANGED <<bridge, at, found, todo>>  BY <1>4, CalmMovesNobody
  <2>. QED  BY <2>1, Undisturbed DEF WorkersInv
<1>5. ASSUME NEW w \in Workers, Await(w) PROVE WorkersInv'
  <2>1. bridge' = bridge  BY <1>5, WorkerFrame DEF chains
  <2>. QED  BY <1>0, <1>5, <2>1, AwaitMoves, NextCallPlaced, GoesPlaced
<1>6. ASSUME NEW w \in Workers, HandlerFails(w) PROVE WorkersInv'
  <2>1. bridge' = bridge  BY <1>6, WorkerFrame DEF chains
  <2>2. Moved(w, "idle", <<>>) /\ ~Resting(w)  BY <1>6 DEF HandlerFails, Moved, Resting
  <2>3. at'[w] = "idle" /\ todo'[w] = <<>>  BY <1>0, <2>2 DEF Moved, ThreadTypes
  <2>4. Placed(w)'  BY <2>3 DEF Placed, In, Resting
  <2>. QED  BY <1>0, <2>1, <2>2, <2>4, MovedPlaced
<1>. QED  BY <1>1, <1>2, <1>3, <1>4, <1>5, <1>6, StepKinds

-----------------------------------------------------------------------------
(***************************************************************************)
(* The threads of the bridges.                                             *)
(***************************************************************************)

\* Only the LayerZero worker of the source chain announces packets.
LEMMA AnnouncingIsSent ==
    ASSUME WorkersInv, NEW w \in Workers, at[w] = "announcePacket"
    PROVE  w = "sent" /\ todo[w] = <<>> /\ bridge = "layer-zero" /\ found[w] = 1
<1>1. Placed(w) /\ Owned(w) /\ Once(w)  BY DEF WorkersInv
<1>2. w = "sent" /\ todo[w] = <<>>
  BY <1>1 DEF Placed, In, MessageCall, ProofCall, DataCall, Resting, Handlers, Collecting
<1>3. bridge = "layer-zero"  BY <1>1, <1>2, Owners DEF Owned, Resting
<1>4. found[w] = 1  BY <1>1, <1>2 DEF Once, Resting, Collecting
<1>. QED  BY <1>2, <1>3, <1>4

LEMMA SentAtRest ==
    ASSUME at'["sent"] = at["sent"], todo'["sent"] = todo["sent"], found'["sent"] = found["sent"],
           timers' = timers, BridgesInv
    PROVE  timers' <= 1 /\ (timers' = 1 => found'["sent"] = 1 /\ Resting("sent")')
BY DEF BridgesInv, Resting

LEMMA SentMoves ==
    ASSUME ThreadTypes, BridgesInv, timers' = timers, NEW w \in Workers, ~Resting(w),
           NEW place, NEW rest, Moved(w, place, rest)
    PROVE  timers' <= 1 /\ (timers' = 1 => found'["sent"] = 1 /\ Resting("sent")')
<1>1. CASE timers = 1
  <2>1. w # "sent" /\ "sent" \in Workers  BY <1>1, NamesOfWorkers DEF BridgesInv, Handlers, Collecting
  <2>. QED  BY <2>1, SentAtRest DEF Moved, ThreadTypes
<1>2. CASE timers # 1  BY <1>2 DEF BridgesInv
<1>. QED  BY <1>1, <1>2

LEMMA BridgesStep ==
    ASSUME CollectorsTypes, WorkersInv, BridgesInv, [CollectorsNext]_vars
    PROVE  BridgesInv'
<1>0. ThreadTypes /\ timers \in Nat /\ "sent" \in Workers
  BY NamesOfWorkers DEF CollectorsTypes, LayerZeroTypes, Handlers, Collecting
<1>. USE DEF chains, threads, wormhole, layerZero
<1>1. CASE TakesUp
  <2>1. UNCHANGED <<bridge, listening, timers, engine>> /\ (UNCHANGED recovery \/ RecoverVAAs)
    BY <1>1, TakesUpFrame
  <2>2. PICK w \in Handlers : Started(w)  BY <1>1, HandlersStart
  <2>3. timers' <= 1 /\ (timers' = 1 => found'["sent"] = 1 /\ Resting("sent")')
    <3>1. CASE timers = 1
      <4>1. w # "sent"  BY <2>2, <3>1 DEF BridgesInv, Started, Collecting
      <4>2. w \in Workers  BY NamesOfWorkers
      <4>3. at'["sent"] = at["sent"] /\ todo'["sent"] = todo["sent"] /\ found'["sent"] = found["sent"]
        BY <1>0, <2>2, <4>1, <4>2 DEF Started, ThreadTypes
      <4>. QED  BY <2>1, <4>3, SentAtRest
    <3>2. CASE timers # 1  BY <2>1, <3>2 DEF BridgesInv
    <3>. QED  BY <3>1, <3>2
  <2>4. RecoverVAAs => bridge = "wormhole"  BY DEF RecoverVAAs, BridgesInv
  <2>. QED  BY <2>1, <2>3, <2>4 DEF BridgesInv
<1>2. CASE OnProcessedPacket
  <2>1. bridge = "layer-zero" /\ UNCHANGED <<bridge, engine, recovery, listening, found, todo>>
    BY <1>2 DEF OnProcessedPacket, LayerZeroFrame, BridgesInv
  <2>2. timers = 1 /\ timers' = 0  BY <1>0, <1>2 DEF OnProcessedPacket, BridgesInv
  <2>. QED  BY <2>1, <2>2 DEF BridgesInv
<1>3. CASE RestartAll  BY <1>3 DEF RestartAll, BridgesInv
<1>4. CASE Calm
  <2>1. UNCHANGED <<bridge, at, found, todo>>  BY <1>4, CalmMovesNobody
  <2>2. UNCHANGED timers
    BY <1>4 DEF Calm, Emit, Attest, SetStartingSequences, GetTimestampsFromBlockNumbers,
       FetchVAAsFails, RecoverVAAs, RecoveryProcessVAA, Handle, ListenForProcessedPackets,
       PendingAges, LayerZeroFrame, SubmitterStep, SubmitterFails, vars
  <2>3. timers' <= 1 /\ (timers' = 1 => found'["sent"] = 1 /\ Resting("sent")')
    BY <2>1, <2>2, SentAtRest
  <2>4. bridge # "wormhole" => UNCHANGED <<engine, recovery>>
    BY <1>4 DEF Calm, Emit, Attest, SetStartingSequences, GetTimestampsFromBlockNumbers,
       FetchVAAsFails, RecoverVAAs, ListenForProcessedPackets, PendingAges, LayerZeroFrame,
       SubmitterStep, SubmitterFails, vars, BridgesInv
  <2>5. bridge # "layer-zero" => UNCHANGED listening
    BY <1>4 DEF Calm, Emit, Attest, SetStartingSequences, GetTimestampsFromBlockNumbers,
       FetchVAAsFails, RecoverVAAs, RecoveryProcessVAA, Handle, ListenForProcessedPackets,
       PendingAges, LayerZeroFrame, SubmitterStep, SubmitterFails, vars
  <2>. QED  BY <2>1, <2>2, <2>3, <2>4, <2>5 DEF BridgesInv
<1>5. ASSUME NEW w \in Workers, Await(w) \/ HandlerFails(w) PROVE BridgesInv'
  <2>1. UNCHANGED <<bridge, engine, recovery, listening>>  BY <1>5, WorkerFrame
  <2>2. CASE AnnouncePacket(w)
    <3>1. w = "sent" /\ todo[w] = <<>> /\ bridge = "layer-zero" /\ found[w] = 1
      BY <2>2, AnnouncingIsSent DEF AnnouncePacket
    <3>2. timers = 0  BY <1>0, <2>2, <3>1 DEF AnnouncePacket, BridgesInv, Resting
    <3>3. timers' \in {0, 1}  BY <2>2, <3>2 DEF AnnouncePacket
    <3>4. at'["sent"] = "idle" /\ todo'["sent"] = <<>> /\ found'["sent"] = 1
      BY <1>0, <2>2, <3>1 DEF AnnouncePacket, LayerZeroFrame, ThreadTypes
    <3>. QED  BY <2>1, <3>1, <3>3, <3>4 DEF BridgesInv, Resting
  <2>3. CASE ~AnnouncePacket(w)
    <3>1. UNCHANGED timers
      BY <1>5, <2>3 DEF Await, StoreStep, NextCall, ReadData, QueuePendingPayloadVerifiedEvent,
         CheckIfVerifiable, LayerZeroFrame, HandlerFails
    <3>2. ~Resting(w) /\ \E place, rest : Moved(w, place, rest)
      <4>1. CASE HandlerFails(w)
        BY <4>1 DEF HandlerFails, Moved, Resting
      <4>2. CASE NextCall(w)
        BY <1>0, <4>2, NextCallMoves DEF NextCall, Resting
      <4>3. CASE \E place \in AnyPlace : Goes(w, place)
        BY <4>3 DEF Goes, Resting
      <4>. QED  BY <1>5, <4>1, <4>2, <4>3, AwaitMoves
    <3>3. timers' <= 1 /\ (timers' = 1 => found'["sent"] = 1 /\ Resting("sent")')
      BY <1>0, <3>1, <3>2, SentMoves
    <3>. QED  BY <2>1, <3>1, <3>3 DEF BridgesInv
  <2>. QED  BY <2>2, <2>3
<1>. QED  BY <1>1, <1>2, <1>3, <1>4, <1>5, StepKinds

-----------------------------------------------------------------------------
(***************************************************************************)
(* The message is known before its proof.                                  *)
(***************************************************************************)

\* A message once stored stays stored.
LEMMA MessageStays ==
    ASSUME [CollectorsNext]_vars
    PROVE  message' = message \/ message' # "none"
<1>. USE DEF redis
<1>1. CASE TakesUp  BY <1>1, TakesUpFrame
<1>2. CASE OnProcessedPacket  BY <1>2 DEF OnProcessedPacket, LayerZeroFrame
<1>3. CASE RestartAll  BY <1>3 DEF RestartAll, Restart
<1>4. CASE Calm
  BY <1>4 DEF Calm, Emit, Attest, SetStartingSequences, GetTimestampsFromBlockNumbers,
     FetchVAAsFails, RecoverVAAs, RecoveryProcessVAA, Handle, ListenForProcessedPackets,
     PendingAges, LayerZeroFrame, SubmitterStep, SubmitterFails, ListenForOrders, AddSubmitOrder,
     LookupFails, vars, storeVars
<1>5. ASSUME NEW w \in Workers, Await(w) \/ HandlerFails(w) PROVE message' = message \/ message' # "none"
  <2>1. CASE StoreStep(w)
    BY <2>1 DEF StoreStep, Command, SetMessage, ListHash, AnnounceMessage, ReadMessage, SetPriority,
       CheckProof, SetProof, AnnounceProof, SetData
  <2>. QED  BY <1>5, <2>1, WorkerFrame
<1>. QED  BY <1>1, <1>2, <1>3, <1>4, <1>5, StepKinds

\* A worker that has not come further than storing the message.
Early(w) ==
    \/ at[w] = "setMessage"
    \/ at[w] \in {"idle", "readMessage", "readData", "enqueue"} /\ todo[w] = <<>>

LEMMA EarlyOthers ==
    ASSUME ThreadTypes, \A v \in Workers : Early(v), NEW w \in Workers, NEW place, NEW rest,
           at' = [at EXCEPT ![w] = place], todo' = [todo EXCEPT ![w] = rest], Early(w)'
    PROVE  \A v \in Workers : Early(v)'
<1>1. SUFFICES ASSUME NEW v \in Workers, v # w PROVE Early(v)'
  OBVIOUS
<1>2. at'[v] = at[v] /\ todo'[v] = todo[v]  BY <1>1 DEF ThreadTypes
<1>. QED  BY <1>2 DEF Early

LEMMA KnownStep ==
    ASSUME CollectorsTypes, WorkersInv, BridgesInv, KnownInv, [CollectorsNext]_vars
    PROVE  KnownInv'
<1>0. ThreadTypes /\ lookups \in Nat /\ orders \in [Values -> Nat] /\ data \in BOOLEAN /\ message \in Values
  BY DEF CollectorsTypes, SubmitterTypes, RedisTypes
<1>. USE DEF chains, threads, redis, submitterVars
<1>1. bridge' = bridge
  <2>1. TakesUp => bridge' = bridge  BY TakesUpFrame
  <2>2. OnProcessedPacket => bridge' = bridge  BY DEF OnProcessedPacket, LayerZeroFrame
  <2>3. RestartAll => bridge' = bridge  BY DEF RestartAll
  <2>4. Calm => bridge' = bridge  BY CalmMovesNobody
  <2>5. \A w \in Workers : Await(w) \/ HandlerFails(w) => bridge' = bridge  BY WorkerFrame
  <2>. QED  BY <2>1, <2>2, <2>3, <2>4, <2>5, StepKinds
<1>. SUFFICES ASSUME bridge \in {"mock", "layer-zero"}
              PROVE  /\ orders'["none"] = 0
                     /\ message' = "none" => lookups' = 0 /\ ~data' /\ \A w \in Workers : Early(w)'
  BY <1>1 DEF KnownInv, Early
<1>2. /\ orders["none"] = 0
      /\ message = "none" => lookups = 0 /\ ~data /\ \A w \in Workers : Early(w)
  BY DEF KnownInv, Early
<1>3. message' = "none" => message = "none"  BY MessageStays
<1>4. NoOrders["none"] = 0  BY DEF NoOrders, Values
<1>5. CASE TakesUp
  <2>1. UNCHANGED <<lookups, orders, data, message>>  BY <1>5, TakesUpFrame
  <2>2. PICK w \in Handlers : Started(w)  BY <1>5, HandlersStart
  <2>3. w \in Workers  BY NamesOfWorkers
  <2>4. ASSUME \A v \in Workers : Early(v) PROVE \A v \in Workers : Early(v)'
    <3>1. CASE at' = [at EXCEPT ![w] = First[w]] /\ todo' = [todo EXCEPT ![w] = Following[w]]
      <4>1. at'[w] = First[w] /\ todo'[w] = Following[w]  BY <1>0, <2>3, <3>1 DEF ThreadTypes
      <4>2. w \in {"sniffer", "recovery", "mock", "polymer", "sent", "verified", "operator"}
        BY <2>2, Owners DEF Handlers, Collecting, Started
      <4>3. First[w] = "setMessage" \/ (First[w] \in {"readData", "readMessage"} /\ Following[w] = <<>>)
        BY <4>2, Programs
      <4>4. Early(w)'  BY <4>1, <4>3 DEF Early
      <4>. QED  BY <1>0, <2>3, <2>4, <3>1, <4>4, EarlyOthers
    <3>2. CASE at' = [at EXCEPT ![w] = "idle"] /\ todo' = [todo EXCEPT ![w] = <<>>]
      <4>1. Early(w)'  BY <1>0, <2>3, <3>2 DEF Early, ThreadTypes
      <4>. QED  BY <1>0, <2>3, <2>4, <3>2, <4>1, EarlyOthers
    <3>. QED  BY <2>2, <3>1, <3>2 DEF Started
  <2>. QED  BY <1>2, <2>1, <2>4
<1>6. CASE OnProcessedPacket
  <2>1. UNCHANGED <<lookups, orders, data, message, todo>>  BY <1>6 DEF OnProcessedPacket, LayerZeroFrame
  <2>2. ASSUME \A v \in Workers : Early(v) PROVE \A v \in Workers : Early(v)'
    <3>1. CASE at' = at  BY <2>1, <2>2, <3>1 DEF Early
    <3>2. CASE at' = [at EXCEPT !["recovered"] = "readData"]
      <4>1. "recovered" \in Workers /\ todo["recovered"] = <<>>
        BY <1>6, NamesOfWorkers DEF OnProcessedPacket, Ready
      <4>2. todo' = [todo EXCEPT !["recovered"] = <<>>]  BY <1>0, <2>1, <4>1 DEF ThreadTypes
      <4>3. Early("recovered")'  BY <1>0, <2>1, <3>2, <4>1 DEF Early, ThreadTypes
      <4>. QED  BY <1>0, <2>2, <3>2, <4>1, <4>2, <4>3, EarlyOthers
    <3>. QED  BY <1>6, <3>1, <3>2 DEF OnProcessedPacket
  <2>. QED  BY <1>2, <2>1, <2>2
<1>7. CASE RestartAll
  <2>1. lookups' = 0 /\ orders' = NoOrders /\ UNCHANGED <<data, message>>
    BY <1>7 DEF RestartAll, Restart
  <2>2. \A v \in Workers : Early(v)'  BY <1>7 DEF RestartAll, Restart, Fresh, Early
  <2>. QED  BY <1>2, <1>4, <2>1, <2>2
<1>8. CASE Calm
  <2>1. UNCHANGED <<data, message, at, todo>>  BY <1>8, CalmMovesNobody
  <2>2. \/ UNCHANGED <<lookups, orders>> \/ (lookups' = 0 /\ orders' = NoOrders) \/ AddSubmitOrder
    BY <1>8 DEF Calm, Emit, Attest, SetStartingSequences, GetTimestampsFromBlockNumbers,
       FetchVAAsFails, RecoverVAAs, RecoveryProcessVAA, Handle, ListenForProcessedPackets,
       PendingAges, LayerZeroFrame, SubmitterStep, SubmitterFails, ListenForOrders, LookupFails,
       vars, storeVars
  <2>3. AddSubmitOrder => message # "none" /\ orders'["none"] = orders["none"]
    <3>1. AddSubmitOrder => message # "none"  BY <1>0, <1>2 DEF AddSubmitOrder
    <3>. QED  BY <1>0, <3>1 DEF AddSubmitOrder, Values
  <2>4. (\A v \in Workers : Early(v)) => \A v \in Workers : Early(v)'  BY <2>1 DEF Early
  <2>. QED  BY <1>2, <1>4, <2>1, <2>2, <2>3, <2>4
<1>9. ASSUME NEW w \in Workers, HandlerFails(w)
      PROVE  /\ orders'["none"] = 0
             /\ message' = "none" => lookups' = 0 /\ ~data' /\ \A v \in Workers : Early(v)'
  <2>1. UNCHANGED <<lookups, orders, data, message>>  BY <1>9 DEF HandlerFails
  <2>2. at' = [at EXCEPT ![w] = "idle"] /\ todo' = [todo EXCEPT ![w] = <<>>]  BY <1>9 DEF HandlerFails
  <2>3. Early(w)'  BY <1>0, <2>2 DEF Early, ThreadTypes
  <2>. QED  BY <1>0, <1>2, <2>1, <2>2, <2>3, EarlyOthers
<1>10. ASSUME NEW w \in Workers, Await(w)
       PROVE  /\ orders'["none"] = 0
              /\ message' = "none" => lookups' = 0 /\ ~data' /\ \A v \in Workers : Early(v)'
  <2>1. UNCHANGED orders
    <3>1. CASE StoreStep(w)
      BY <3>1 DEF StoreStep, Command, SetMessage, ListHash, AnnounceMessage, ReadMessage, SetPriority,
         CheckProof, SetProof, AnnounceProof, SetData
    <3>. QED  BY <1>10, <3>1, WorkerFrame
  <2>. SUFFICES ASSUME message' = "none" PROVE lookups' = 0 /\ ~data' /\ \A v \in Workers : Early(v)'
    BY <1>2, <2>1
  <2>2. message = "none" /\ lookups = 0 /\ ~data /\ \A v \in Workers : Early(v)  BY <1>2, <1>3
  <2>3. ~NextCall(w)  BY <2>2 DEF NextCall, Early
  <2>4. at[w] # "announcePacket" /\ at[w] # "verify"  BY <2>2 DEF Early
  <2>5. CASE StoreStep(w)
    <3>1. ~SetMessage(w) /\ ~SetPriority(w)  BY DEF SetMessage, SetPriority
    <3>2. ReadMessage(w)
      BY <2>2, <2>5, <3>1 DEF Early, StoreStep, Command, ListHash, AnnounceMessage,
         CheckProof, SetProof, AnnounceProof, SetData
    <3>3. at' = [at EXCEPT ![w] = "idle"] /\ UNCHANGED <<lookups, data>> /\ at[w] = "readMessage"
      BY <2>2, <3>2 DEF ReadMessage
    <3>4. todo' = todo  BY <2>5 DEF StoreStep
    <3>5. todo[w] = <<>>  BY <2>2, <3>3 DEF Early
    <3>6. \A v \in Workers : Early(v)'  BY <1>0, <2>2, <3>3, <3>4, <3>5 DEF Early, ThreadTypes
    <3>. QED  BY <2>2, <3>3, <3>6
  <2>6. CASE ReadData(w) \/ QueuePendingPayloadVerifiedEvent(w)
    <3>1. at[w] \in {"readData", "enqueue"} /\ UNCHANGED <<lookups, data, todo>>
      BY <2>6 DEF ReadData, QueuePendingPayloadVerifiedEvent, LayerZeroFrame
    <3>2. todo[w] = <<>>  BY <2>2, <3>1 DEF Early
    <3>3. at' = [at EXCEPT ![w] = "enqueue"] \/ at' = [at EXCEPT ![w] = "idle"]
      BY <2>2, <2>6 DEF ReadData, QueuePendingPayloadVerifiedEvent
    <3>4. \A v \in Workers : Early(v)'  BY <1>0, <2>2, <3>1, <3>2, <3>3 DEF Early, ThreadTypes
    <3>. QED  BY <2>2, <3>1, <3>4
  <2>. QED  BY <1>10, <2>3, <2>4, <2>5, <2>6 DEF Await, AnnouncePacket, CheckIfVerifiable
<1>. QED  BY <1>5, <1>6, <1>7, <1>8, <1>9, <1>10, StepKinds

-----------------------------------------------------------------------------
(***************************************************************************)
(* A proof of LayerZero is stored when it is verifiable.                   *)
(***************************************************************************)

\* Attestations are not taken back.
LEMMA AttestedStays ==
    ASSUME CollectorsTypes, [CollectorsNext]_vars
    PROVE  /\ UNCHANGED <<bridge, needed>> /\ attested' >= attested
           /\ emitted => emitted'
<1>0. attested \in Nat  BY DEF CollectorsTypes, ChainTypes
<1>. USE DEF chains, redis
<1>1. CASE TakesUp  BY <1>0, <1>1, TakesUpFrame
<1>2. CASE OnProcessedPacket  BY <1>0, <1>2 DEF OnProcessedPacket, LayerZeroFrame
<1>3. CASE RestartAll  BY <1>0, <1>3 DEF RestartAll
<1>4. CASE Calm
  <2>1. CASE Emit  BY <1>0, <2>1 DEF Emit
  <2>2. CASE Attest  BY <1>0, <2>2 DEF Attest
  <2>3. CASE ~Emit /\ ~Attest
    <3>1. UNCHANGED <<bridge, needed, attested, emitted>>
      BY <1>4, <2>3 DEF Calm, SetStartingSequences, GetTimestampsFromBlockNumbers,
         FetchVAAsFails, RecoverVAAs, RecoveryProcessVAA, Handle, ListenForProcessedPackets,
         PendingAges, LayerZeroFrame, SubmitterStep, SubmitterFails, vars
    <3>. QED  BY <1>0, <3>1
  <2>. QED  BY <2>1, <2>2, <2>3
<1>5. ASSUME NEW w \in Workers, Await(w) \/ HandlerFails(w)
      PROVE  UNCHANGED <<bridge, needed, attested, emitted>>
  BY <1>5, WorkerFrame
<1>. QED  BY <1>0, <1>1, <1>2, <1>3, <1>4, <1>5, StepKinds

LEMMA VerifiedStep ==
    ASSUME CollectorsTypes, WorkersInv, BridgesInv, VerifiedInv, [CollectorsNext]_vars
    PROVE  VerifiedInv'
<1>0. ThreadTypes /\ attested \in Nat /\ attested' \in Nat /\ needed \in Nat
  BY TypeStep DEF CollectorsTypes, ChainTypes
<1>1. UNCHANGED <<bridge, needed>> /\ attested' >= attested  BY AttestedStays
<1>. DEFINE NoProof == ~proof /\ \A w \in Workers : at[w] \notin ProofCall
<1>2. SUFFICES ASSUME bridge = "layer-zero", attested' < needed PROVE NoProof'
  BY <1>1 DEF VerifiedInv
<1>3. attested < needed  BY <1>0, <1>1, <1>2
<1>4. NoProof  BY <1>2, <1>3 DEF VerifiedInv
<1>5. ASSUME ~proof', NEW w \in Workers, NEW place, place \notin ProofCall, at' = [at EXCEPT ![w] = place]
      PROVE  NoProof'
  BY <1>0, <1>4, <1>5 DEF ThreadTypes
<1>. HIDE DEF NoProof
<1>6. ~proof /\ \A w \in Workers : at[w] \notin ProofCall  BY <1>4 DEF NoProof
<1>. USE DEF redis, chains, threads
<1>7. CASE TakesUp
  <2>1. ~proof'  BY <1>6, <1>7, TakesUpFrame
  <2>2. PICK w \in Handlers : Started(w)  BY <1>7, HandlersStart
  <2>3. w \in Workers  BY NamesOfWorkers
  <2>4. w # "engine"  BY <1>2, <2>2, Owners DEF Started
  <2>5. First[w] \notin ProofCall
    BY <2>4, Programs DEF Handlers, Collecting, ProofCall
  <2>6. "idle" \notin ProofCall  BY DEF ProofCall
  <2>. QED  BY <1>5, <2>1, <2>2, <2>3, <2>5, <2>6 DEF Started
<1>8. CASE OnProcessedPacket
  <2>1. ~proof' /\ "recovered" \in Workers  BY <1>6, <1>8, NamesOfWorkers DEF OnProcessedPacket, LayerZeroFrame
  <2>2. "readData" \notin ProofCall  BY DEF ProofCall
  <2>3. CASE at' = at  BY <1>6, <2>1, <2>3 DEF NoProof
  <2>4. CASE at' = [at EXCEPT !["recovered"] = "readData"]  BY <1>5, <2>1, <2>2, <2>4
  <2>. QED  BY <1>8, <2>3, <2>4 DEF OnProcessedPacket
<1>9. CASE RestartAll
  BY <1>6, <1>9 DEF RestartAll, Restart, NoProof, ProofCall
<1>10. CASE Calm
  <2>1. UNCHANGED <<proof, at>>  BY <1>10, CalmMovesNobody
  <2>. QED  BY <1>6, <2>1 DEF NoProof
<1>11. ASSUME NEW w \in Workers, HandlerFails(w) PROVE NoProof'
  <2>1. ~proof' /\ at' = [at EXCEPT ![w] = "idle"] /\ "idle" \notin ProofCall
    BY <1>6, <1>11 DEF HandlerFails, ProofCall
  <2>. QED  BY <1>5, <2>1
<1>12. ASSUME NEW w \in Workers, Await(w) PROVE NoProof'
  <2>1. at[w] \notin ProofCall  BY <1>6
  <2>2. ~proof'
    <3>1. CASE StoreStep(w)
      BY <1>6, <2>1, <3>1 DEF StoreStep, Command, SetMessage, ListHash, AnnounceMessage, ReadMessage,
         SetPriority, CheckProof, SetProof, AnnounceProof, SetData, ProofCall
    <3>. QED  BY <1>6, <1>12, <3>1, WorkerFrame
  <2>3. CASE NextCall(w)
    <3>1. Placed(w) /\ Owned(w)  BY DEF WorkersInv
    <3>2. w \notin {"recovery", "mock"}
      BY <1>2, <2>3, <3>1, Owners DEF Owned, NextCall, Resting
    <3>3. todo[w] # <<"checkProof">>
      BY <3>1, <3>2 DEF Placed, In, Resting, Handlers, Collecting
    <3>4. at' = [at EXCEPT ![w] = "announcePacket"] \/ at' = [at EXCEPT ![w] = "setData"]
      BY <1>0, <2>3, <3>3, NextCallMoves DEF Moved
    <3>5. "announcePacket" \notin ProofCall /\ "setData" \notin ProofCall  BY DEF ProofCall
    <3>. QED  BY <1>5, <2>2, <3>4, <3>5
  <2>4. CASE ~NextCall(w)
    <3>1. PICK place \in AnyPlace : Goes(w, place)  BY <1>12, <2>4, AwaitMoves
    <3>2. CASE place \notin ProofCall  BY <1>5, <2>2, <3>1, <3>2 DEF Goes, Moved
    <3>3. CASE place \in ProofCall
      <4>1. at[w] = "verify"  BY <2>1, <3>1, <3>3 DEF Goes, ProofCall
      <4>2. CheckIfVerifiable(w)
        BY <1>12, <2>4, <4>1 DEF Await, StoreStep, Command, SetMessage, ListHash, AnnounceMessage,
           ReadMessage, SetPriority, CheckProof, SetProof, AnnounceProof, SetData,
           AnnouncePacket, ReadData, QueuePendingPayloadVerifiedEvent
      <4>3. ~Verifiable  BY <1>0, <1>3 DEF Verifiable
      <4>4. at' = [at EXCEPT ![w] = "idle"]  BY <4>2, <4>3 DEF CheckIfVerifiable
      <4>5. "idle" \notin ProofCall  BY DEF ProofCall
      <4>. QED  BY <1>5, <2>2, <4>4, <4>5
    <3>. QED  BY <3>2, <3>3
  <2>. QED  BY <2>3, <2>4
<1>. QED  BY <1>7, <1>8, <1>9, <1>10, <1>11, <1>12, StepKinds

-----------------------------------------------------------------------------
(***************************************************************************)
(* A priority that was set is kept.                                        *)
(***************************************************************************)

\* The workers that collect the message: one, but for Wormhole.
LEMMA OneCollects ==
    ASSUME WorkersInv, CollectorsTypes, NEW v \in Collecting, NEW w \in Collecting, v # w,
           found[v] = 1, found[w] = 1
    PROVE  found["sniffer"] + found["recovery"] > 1
<1>1. v \in DOMAIN Owner /\ w \in DOMAIN Owner /\ v \in Workers /\ w \in Workers
  BY Owners, NamesOfWorkers DEF Handlers, Collecting
<1>2. Owned(v) /\ Owned(w)  BY <1>1 DEF WorkersInv
<1>3. bridge = Owner[v] /\ bridge = Owner[w]  BY <1>1, <1>2 DEF Owned
<1>4. {v, w} = {"sniffer", "recovery"}  BY <1>3, Owners DEF Collecting
<1>. QED  BY <1>4

\* Only these collect.
LEMMA CollectingWorkers ==
    ASSUME WorkersInv, NEW w \in Workers, at[w] = "setMessage"
    PROVE  w \in Collecting /\ found[w] = 1
<1>1. Placed(w) /\ Once(w)  BY DEF WorkersInv
<1>2. w \in Collecting
  BY <1>1 DEF Placed, In, ProofCall, DataCall, Resting, Handlers, Collecting
<1>. QED  BY <1>1, <1>2 DEF Once, Resting

LEMMA OperatorPrioritises ==
    ASSUME WorkersInv, NEW w \in Workers, at[w] \in {"readMessage", "setPriority"}
    PROVE  w = "operator"
<1>1. Placed(w)  BY DEF WorkersInv
<1>. QED  BY <1>1 DEF Placed, In, MessageCall, ProofCall, DataCall, Resting, Handlers, Collecting

\* What is collected stays so in a life of the process.
Collected == \E w \in Collecting : found[w] = 1 /\ at[w] # "setMessage"

LEMMA CollectedStays ==
    ASSUME CollectorsTypes, WorkersInv, BridgesInv, [CollectorsNext]_vars, restarts' = 0, Collected
    PROVE  Collected'
<1>1. PICK w \in Collecting : found[w] = 1 /\ at[w] # "setMessage"  BY DEF Collected
<1>2. ThreadTypes /\ w \in Workers /\ restarts \in Nat
  BY NamesOfWorkers DEF CollectorsTypes, HistoryTypes, Handlers
<1>. SUFFICES found'[w] = 1 /\ at'[w] # "setMessage"
  BY DEF Collected
<1>. USE DEF threads
<1>3. CASE TakesUp
  <2>1. PICK v \in Handlers : Started(v)  BY <1>3, HandlersStart
  <2>2. v # w  BY <1>1, <2>1 DEF Started
  <2>. QED  BY <1>1, <1>2, <2>1, <2>2, NamesOfWorkers DEF Started, ThreadTypes
<1>4. CASE OnProcessedPacket
  BY <1>1, <1>2, <1>4 DEF OnProcessedPacket, LayerZeroFrame, ThreadTypes
<1>5. CASE RestartAll  BY <1>2, <1>5 DEF RestartAll
<1>6. CASE Calm  BY <1>1, <1>6, CalmMovesNobody
<1>7. ASSUME NEW v \in Workers, HandlerFails(v) PROVE found'[w] = 1 /\ at'[w] # "setMessage"
  BY <1>1, <1>2, <1>7 DEF HandlerFails, ThreadTypes
<1>8. ASSUME NEW v \in Workers, Await(v) PROVE found'[w] = 1 /\ at'[w] # "setMessage"
  <2>1. CASE NextCall(v)
    BY <1>1, <1>2, <2>1, NextCallMoves DEF Moved, ThreadTypes
  <2>2. CASE \E place \in AnyPlace : Goes(v, place)
    <3>1. PICK place \in AnyPlace : Goes(v, place)  BY <2>2
    <3>2. place # "setMessage"  BY <3>1 DEF Goes
    <3>. QED  BY <1>1, <1>2, <3>1, <3>2 DEF Goes, Moved, ThreadTypes
  <2>. QED  BY <1>8, <2>1, <2>2, AwaitMoves
<1>. QED  BY <1>3, <1>4, <1>5, <1>6, <1>7, <1>8, StepKinds

\* Only two commands write the message, only one sets the history.
LEMMA MessageWrites ==
    ASSUME CollectorsTypes, [CollectorsNext]_vars
    PROVE  \/ UNCHANGED <<message, prioritised>>
           \/ \E w \in Workers : SetMessage(w) /\ StoreStep(w) /\ UNCHANGED prioritised
           \/ \E w \in Workers : SetPriority(w) /\ StoreStep(w) /\ prioritised'
<1>. USE DEF redis, history
<1>1. CASE TakesUp  BY <1>1, TakesUpFrame
<1>2. CASE OnProcessedPacket  BY <1>2 DEF OnProcessedPacket, LayerZeroFrame
<1>3. CASE RestartAll  BY <1>3 DEF RestartAll, Restart
<1>4. CASE Calm
  BY <1>4 DEF Calm, Emit, Attest, SetStartingSequences, GetTimestampsFromBlockNumbers,
     FetchVAAsFails, RecoverVAAs, RecoveryProcessVAA, Handle, ListenForProcessedPackets,
     PendingAges, LayerZeroFrame, SubmitterStep, SubmitterFails, ListenForOrders, AddSubmitOrder,
     LookupFails, vars, storeVars
<1>5. ASSUME NEW w \in Workers, Await(w) \/ HandlerFails(w)
      PROVE  \/ UNCHANGED <<message, prioritised>>
             \/ SetMessage(w) /\ StoreStep(w) /\ UNCHANGED prioritised
             \/ SetPriority(w) /\ StoreStep(w) /\ prioritised'
  <2>1. CASE StoreStep(w)
    <3>1. CASE at[w] = "setPriority"
      BY <2>1, <3>1 DEF StoreStep, Command, SetMessage, ListHash, AnnounceMessage, ReadMessage,
         SetPriority, CheckProof, SetProof, AnnounceProof, SetData
    <3>2. CASE at[w] # "setPriority"
      <4>1. ~SetPriority(w)  BY <3>2 DEF SetPriority
      <4>2. prioritised' = prioritised
        BY <2>1, <3>2 DEF StoreStep, CollectorsTypes, HistoryTypes
      <4>. QED  BY <2>1, <4>1, <4>2 DEF StoreStep, Command, ListHash, AnnounceMessage, ReadMessage,
           CheckProof, SetProof, AnnounceProof, SetData
    <3>. QED  BY <3>1, <3>2
  <2>. QED  BY <1>5, <2>1, WorkerFrame
<1>. QED  BY <1>1, <1>2, <1>3, <1>4, <1>5, StepKinds

\* Between restarts counts only grow.
LEMMA CountsGrow ==
    ASSUME CollectorsTypes, BridgesInv, [CollectorsNext]_vars
    PROVE  /\ restarts' >= restarts /\ restarts' \in Nat
           /\ restarts' = restarts => \A w \in Workers : found'[w] >= found[w] /\ found'[w] \in Nat
<1>0. ThreadTypes /\ restarts \in Nat /\ \A w \in Workers : found[w] \in Nat
  BY DEF CollectorsTypes, HistoryTypes, ThreadTypes
<1>. USE DEF threads
<1>1. CASE TakesUp
  <2>1. restarts' = restarts  BY <1>1, TakesUpFrame
  <2>2. PICK w \in Handlers : Started(w)  BY <1>1, HandlersStart
  <2>3. w \in Workers /\ found' = [found EXCEPT ![w] = found[w] + 1]  BY <2>2, NamesOfWorkers DEF Started
  <2>4. \A v \in Workers : found'[v] = found[v] \/ found'[v] = found[v] + 1  BY <1>0, <2>3 DEF ThreadTypes
  <2>. QED  BY <1>0, <2>1, <2>4
<1>2. CASE OnProcessedPacket  BY <1>0, <1>2 DEF OnProcessedPacket, LayerZeroFrame
<1>3. CASE RestartAll  BY <1>0, <1>3 DEF RestartAll
<1>4. CASE Calm
  <2>1. found' = found  BY <1>4, CalmMovesNobody
  <2>2. restarts' = restarts
    BY <1>4 DEF Calm, Emit, Attest, SetStartingSequences, GetTimestampsFromBlockNumbers,
       FetchVAAsFails, RecoverVAAs, RecoveryProcessVAA, Handle, ListenForProcessedPackets,
       PendingAges, LayerZeroFrame, SubmitterStep, SubmitterFails, vars
  <2>. QED  BY <1>0, <2>1, <2>2
<1>5. ASSUME NEW w \in Workers, Await(w) \/ HandlerFails(w)
      PROVE  found' = found /\ restarts' = restarts
  <2>1. restarts' = restarts  BY <1>5, WorkerFrame
  <2>2. CASE HandlerFails(w)  BY <2>1, <2>2 DEF HandlerFails
  <2>3. CASE NextCall(w)  BY <2>1, <2>3 DEF NextCall
  <2>4. CASE \E place \in AnyPlace : Goes(w, place)  BY <2>1, <2>4 DEF Goes, Moved
  <2>. QED  BY <1>5, <2>2, <2>3, <2>4, AwaitMoves
<1>. QED  BY <1>0, <1>1, <1>2, <1>3, <1>4, <1>5, StepKinds

\* The operator comes to set the priority of a stored message only.
LEMMA PrioritiesChecked ==
    ASSUME CollectorsTypes, WorkersInv, BridgesInv, [CollectorsNext]_vars,
           at'["operator"] = "setPriority"
    PROVE  at["operator"] = "setPriority" \/ message # "none"
<1>0. ThreadTypes /\ "operator" \in Workers  BY NamesOfWorkers DEF CollectorsTypes, Handlers
<1>. USE DEF threads
<1>1. CASE TakesUp
  <2>1. PICK w \in Handlers : Started(w)  BY <1>1, HandlersStart
  <2>2. w \in Workers  BY NamesOfWorkers
  <2>3. First[w] # "setPriority"  BY Programs DEF Handlers, Collecting
  <2>. QED  BY <1>0, <2>1, <2>2, <2>3 DEF Started, ThreadTypes
<1>2. CASE OnProcessedPacket
  BY <1>0, <1>2 DEF OnProcessedPacket, LayerZeroFrame, ThreadTypes
<1>3. CASE RestartAll  BY <1>0, <1>3 DEF RestartAll, Restart
<1>4. CASE Calm  BY <1>4, CalmMovesNobody
<1>5. ASSUME NEW w \in Workers, HandlerFails(w) PROVE at["operator"] = "setPriority"
  BY <1>0, <1>5 DEF HandlerFails, ThreadTypes
<1>6. ASSUME NEW w \in Workers, Await(w) PROVE at["operator"] = "setPriority" \/ message # "none"
  <2>1. CASE NextCall(w)  BY <1>0, <2>1, NextCallMoves DEF Moved, ThreadTypes
  <2>2. CASE ReadMessage(w) /\ message = "none"
    BY <1>0, <2>2 DEF ReadMessage, ThreadTypes
  <2>3. CASE ~NextCall(w) /\ ~ReadMessage(w)
    <3>1. PICK place \in AnyPlace : Goes(w, place)  BY <1>6, <2>3, AwaitMoves
    <3>2. at[w] # "readMessage"
      BY <1>6, <2>3 DEF Await, StoreStep, Command, SetMessage, ListHash, AnnounceMessage,
         SetPriority, CheckProof, SetProof, AnnounceProof, SetData,
         AnnouncePacket, ReadData, QueuePendingPayloadVerifiedEvent, CheckIfVerifiable
    <3>3. place # "setPriority"  BY <3>1, <3>2 DEF Goes
    <3>. QED  BY <1>0, <3>1, <3>3 DEF Goes, Moved, ThreadTypes
  <2>. QED  BY <2>1, <2>2, <2>3
<1>. QED  BY <1>1, <1>2, <1>3, <1>4, <1>5, <1>6, StepKinds

LEMMA PriorityStep ==
    ASSUME CollectorsTypes, WorkersInv, BridgesInv, PriorityInv, [CollectorsNext]_vars
    PROVE  PriorityInv'
<1>0. ThreadTypes /\ restarts \in Nat /\ \A w \in Workers : found[w] \in Nat
  BY DEF CollectorsTypes, HistoryTypes, ThreadTypes
<1>1. (prioritised \/ at["operator"] = "setPriority") => message # "none"  BY DEF PriorityInv
<1>2. restarts = 0 /\ message # "none" => Collected  BY DEF PriorityInv, Collected
<1>3. prioritised /\ restarts = 0 /\ found["sniffer"] + found["recovery"] <= 1 => message = "priority"
  BY DEF PriorityInv, PriorityKept
<1>4. message # "none" => message' # "none"  BY MessageStays
<1>5. restarts' = 0 => restarts = 0  BY <1>0, CountsGrow
<1>6. ASSUME NEW w \in Workers, SetPriority(w)
      PROVE  message # "none" /\ message' = "priority"
  <2>1. w = "operator"  BY <1>6, OperatorPrioritises DEF SetPriority
  <2>. QED  BY <1>1, <1>6, <2>1 DEF SetPriority
<1>7. ASSUME NEW w \in Workers, SetMessage(w), StoreStep(w)
      PROVE  /\ w \in Collecting /\ found[w] = 1 /\ at[w] = "setMessage"
             /\ found' = found /\ restarts' = restarts /\ at'[w] = "listHash" /\ message' # "none"
  <2>1. at[w] = "setMessage" /\ at' = [at EXCEPT ![w] = "listHash"] /\ message' = "plain"
    BY <1>7 DEF SetMessage
  <2>2. w \in Collecting /\ found[w] = 1  BY <2>1, CollectingWorkers
  <2>3. found' = found /\ restarts' = restarts  BY <1>7 DEF StoreStep, threads
  <2>4. at'[w] = "listHash"  BY <1>0, <2>1 DEF ThreadTypes
  <2>. QED  BY <2>1, <2>2, <2>3, <2>4
<1>8. prioritised' \/ at'["operator"] = "setPriority" => message' # "none"
  <2>1. at'["operator"] = "setPriority" => message' # "none"  BY <1>1, <1>4, PrioritiesChecked
  <2>2. prioritised' => message' # "none"  BY <1>1, <1>4, <1>6, MessageWrites
  <2>. QED  BY <2>1, <2>2
<1>9. restarts' = 0 /\ message' # "none" => Collected'
  <2>1. SUFFICES ASSUME restarts' = 0, message' # "none" PROVE Collected'
    OBVIOUS
  <2>2. CASE message # "none"  BY <1>2, <1>5, <2>1, <2>2, CollectedStays
  <2>3. CASE message = "none"
    <3>1. PICK w \in Workers : SetMessage(w) /\ StoreStep(w)  BY <1>6, <2>1, <2>3, MessageWrites
    <3>2. w \in Collecting /\ found'[w] = 1 /\ at'[w] # "setMessage"  BY <1>7, <3>1
    <3>. QED  BY <3>2 DEF Collected
  <2>. QED  BY <2>2, <2>3
<1>10. PriorityKept'
  <2>1. SUFFICES ASSUME prioritised', restarts' = 0, found'["sniffer"] + found'["recovery"] <= 1
                 PROVE  message' = "priority"
    BY DEF PriorityKept
  <2>2. restarts = 0  BY <1>5, <2>1
  <2>3. found["sniffer"] + found["recovery"] <= 1
    <3>1. {"sniffer", "recovery"} \subseteq Workers  BY WorkersAssumption
    <3>2. /\ found'["sniffer"] >= found["sniffer"] /\ found'["recovery"] >= found["recovery"]
          /\ found'["sniffer"] \in Nat /\ found'["recovery"] \in Nat
      BY <2>1, <2>2, <3>1, CountsGrow
    <3>3. found["sniffer"] \in Nat /\ found["recovery"] \in Nat  BY <1>0, <3>1
    <3>. QED  BY <2>1, <3>2, <3>3
  <2>4. CASE UNCHANGED <<message, prioritised>>  BY <1>3, <2>1, <2>2, <2>3, <2>4
  <2>5. ASSUME NEW w \in Workers, SetMessage(w), StoreStep(w), UNCHANGED prioritised PROVE FALSE
    <3>1. Collected  BY <1>1, <1>2, <2>1, <2>2, <2>5
    <3>2. PICK v \in Collecting : found[v] = 1 /\ at[v] # "setMessage"  BY <3>1 DEF Collected
    <3>3. w \in Collecting /\ found[w] = 1 /\ v # w  BY <1>7, <2>5, <3>2
    <3>4. found["sniffer"] + found["recovery"] > 1  BY <3>2, <3>3, OneCollects
    <3>5. found["sniffer"] \in Nat /\ found["recovery"] \in Nat  BY <1>0, WorkersAssumption
    <3>. QED  BY <2>3, <3>4, <3>5
  <2>. QED  BY <1>6, <2>4, <2>5, MessageWrites
<1>. QED  BY <1>8, <1>9, <1>10 DEF PriorityInv, Collected

-----------------------------------------------------------------------------
(***************************************************************************)
(* What the Wormhole engine skips.                                         *)
(***************************************************************************)

LEMMA SkippedStep ==
    ASSUME CollectorsTypes, WorkersInv, BridgesInv, SkippedInv, [CollectorsNext]_vars
    PROVE  SkippedInv'
<1>0. attested \in Nat /\ attested' \in Nat /\ failures \in Nat /\ ThreadTypes
      /\ "recovery" \in Workers /\ found["recovery"] \in Nat /\ emitted \in BOOLEAN
  BY WorkersAssumption, TypeStep DEF CollectorsTypes, ChainTypes, HistoryTypes, ThreadTypes
<1>1. /\ engine = "skipping" => attested > 0
      /\ attested > 0 => emitted
      /\ engineFirst => engine # "starting" /\ recovery # "starting"
      /\ engine = "skipping" /\ engineFirst => recovery # "misses"
      /\ engine = "skipping" /\ recovery = "done" /\ engineFirst /\ failures = 0 => found["recovery"] = 1
  BY DEF SkippedInv, VAAMissedOnlyIfRecoveryFirst
<1>. DEFINE Goal == SkippedInv'
<1>2. ASSUME UNCHANGED <<engine, engineFirst, attested, emitted>>, failures' \in Nat, failures' >= failures,
             recovery' = recovery \/ (recovery' = "done" /\ recovery # "starting"),
             found["recovery"] = 1 => found'["recovery"] = 1,
             engine = "skipping" /\ recovery' # recovery /\ engineFirst => found'["recovery"] = 1
      PROVE  Goal
  BY <1>0, <1>1, <1>2 DEF SkippedInv, VAAMissedOnlyIfRecoveryFirst
<1>3. ASSUME UNCHANGED <<engine, recovery, engineFirst, attested, emitted, found>>, failures' \in Nat, failures' >= failures
      PROVE  Goal
  BY <1>2, <1>3
<1>. HIDE DEF Goal
<1>. SUFFICES Goal
  BY DEF Goal
<1>. USE DEF chains, threads, wormhole
<1>4. CASE TakesUp
  <2>1. UNCHANGED <<engine, engineFirst, attested, emitted, failures>>
    BY <1>4, TakesUpFrame
  <2>2. recovery' = recovery \/ (RecoverVAAs /\ recovery' = "done" /\ recovery # "starting")
    BY <1>4, TakesUpFrame DEF RecoverVAAs
  <2>3. PICK w \in Handlers : Started(w)  BY <1>4, HandlersStart
  <2>4. w \in Workers /\ found' = [found EXCEPT ![w] = @ + 1]  BY <2>3, NamesOfWorkers DEF Started
  <2>5. found["recovery"] = 1 => found'["recovery"] = 1
    <3>1. w = "recovery" => found["recovery"] = 0  BY <2>3 DEF Started, Collecting
    <3>. QED  BY <1>0, <2>4, <3>1 DEF ThreadTypes
  <2>6. ASSUME RecoverVAAs, engine = "skipping", engineFirst, recovery' # recovery PROVE found'["recovery"] = 1
    <3>1. recovery # "misses" /\ attested > 0  BY <1>1, <2>6
    <3>2. RecoveryProcessVAA  BY <1>0, <2>6, <3>1 DEF RecoverVAAs
    <3>3. found["recovery"] < 1 /\ found' = [found EXCEPT !["recovery"] = @ + 1]
      BY <3>2 DEF RecoveryProcessVAA, Handle
    <3>. QED  BY <1>0, <3>3 DEF ThreadTypes
  <2>. QED  BY <1>0, <1>2, <2>1, <2>2, <2>5, <2>6
<1>5. CASE OnProcessedPacket
  <2>1. UNCHANGED <<engine, recovery, engineFirst, attested, emitted, found, failures>>
    BY <1>5 DEF OnProcessedPacket, LayerZeroFrame
  <2>. QED  BY <1>0, <1>3, <2>1
<1>6. CASE RestartAll
  <2>1. engine' = "starting" /\ engineFirst' = FALSE /\ UNCHANGED <<attested, emitted>>
    BY <1>6 DEF RestartAll
  <2>. QED  BY <1>1, <2>1 DEF Goal, SkippedInv, VAAMissedOnlyIfRecoveryFirst
<1>7. ASSUME NEW w \in Workers, Await(w) \/ HandlerFails(w) PROVE Goal
  <2>1. UNCHANGED <<engine, recovery, engineFirst, attested, emitted>>  BY <1>7, WorkerFrame
  <2>2. found' = found /\ failures' \in Nat /\ failures' >= failures
    <3>1. CASE HandlerFails(w)  BY <1>0, <3>1 DEF HandlerFails
    <3>2. CASE Await(w)
      <4>1. failures' = failures
        BY <3>2 DEF Await, StoreStep, NextCall, AnnouncePacket, ReadData,
           QueuePendingPayloadVerifiedEvent, CheckIfVerifiable, LayerZeroFrame
      <4>2. found' = found  BY <3>2, AwaitMoves DEF NextCall, Goes, Moved
      <4>. QED  BY <1>0, <4>1, <4>2
    <3>. QED  BY <1>7, <3>1, <3>2
  <2>. QED  BY <1>3, <2>1, <2>2
<1>8. CASE Calm
  <2>1. found' = found  BY <1>8, CalmMovesNobody
  <2>2. CASE Emit \/ Attest
    <3>1. UNCHANGED <<engine, recovery, engineFirst, failures>>  BY <2>2 DEF Emit, Attest
    <3>2. emitted' /\ (attested > 0 => attested' > 0)
      BY <1>0, <2>2 DEF Emit, Attest
    <3>. QED  BY <1>0, <1>1, <2>1, <3>1, <3>2 DEF Goal, SkippedInv, VAAMissedOnlyIfRecoveryFirst
  <2>3. CASE SetStartingSequences
    <3>1. ~engineFirst /\ engineFirst' = engineFirst  BY <1>1, <2>3 DEF SetStartingSequences
    <3>2. UNCHANGED <<attested, emitted>> /\ (engine' = "skipping" => attested > 0)
      BY <2>3 DEF SetStartingSequences
    <3>. QED  BY <1>1, <3>1, <3>2 DEF Goal, SkippedInv, VAAMissedOnlyIfRecoveryFirst
  <2>4. CASE GetTimestampsFromBlockNumbers
    <3>1. /\ engineFirst' = (engine # "starting") /\ UNCHANGED <<engine, attested, emitted>>
          /\ recovery' = IF emitted THEN "covers" ELSE "misses"
      BY <2>4 DEF GetTimestampsFromBlockNumbers
    <3>. QED  BY <1>1, <3>1 DEF Goal, SkippedInv, VAAMissedOnlyIfRecoveryFirst
  <2>5. CASE FetchVAAsFails
    <3>1. failures' > 0 /\ UNCHANGED <<engineFirst, attested, emitted>>
      BY <1>0, <2>5 DEF FetchVAAsFails
    <3>2. \/ engine' = "ended" /\ recovery' = recovery
          \/ recovery' = "done" /\ engine' = engine
      BY <2>5 DEF FetchVAAsFails
    <3>3. failures' # 0  BY <1>0, <2>5 DEF FetchVAAsFails
    <3>. QED  BY <1>1, <3>1, <3>2, <3>3 DEF Goal, SkippedInv, VAAMissedOnlyIfRecoveryFirst
  <2>6. CASE RecoverVAAs /\ UNCHANGED threads
    <3>1. ~RecoveryProcessVAA
      <4>1. RecoveryProcessVAA => found' = [found EXCEPT !["recovery"] = @ + 1]
        BY DEF RecoveryProcessVAA, Handle
      <4>. QED  BY <1>0, <2>1, <4>1 DEF ThreadTypes
    <3>2. /\ recovery \in {"covers", "misses"} /\ recovery' = "done"
          /\ UNCHANGED <<engine, engineFirst, attested, emitted, failures>>
          /\ recovery = "misses" \/ attested = 0
      BY <2>6, <3>1 DEF RecoverVAAs
    <3>. QED  BY <1>0, <1>1, <1>2, <2>1, <3>2
  <2>7. CASE ListenForProcessedPackets \/ PendingAges \/ SubmitterStep \/ SubmitterFails \/ UNCHANGED vars
    <3>1. /\ UNCHANGED <<engine, recovery, engineFirst, attested, emitted>>
          /\ failures' = failures \/ failures' = failures + 1
      BY <2>7 DEF ListenForProcessedPackets, PendingAges, LayerZeroFrame, SubmitterStep,
         SubmitterFails, vars
    <3>. QED  BY <1>0, <1>3, <2>1, <3>1
  <2>. QED  BY <1>8, <2>2, <2>3, <2>4, <2>5, <2>6, <2>7 DEF Calm
<1>. QED  BY <1>4, <1>5, <1>6, <1>7, <1>8, StepKinds

-----------------------------------------------------------------------------
(***************************************************************************)
(* The collectors announce a proof once, unless two calls race.            *)
(***************************************************************************)

LEMMA CollectorsAnnounce ==
    ASSUME CollectorsTypes, BridgesInv, raced \/ OneAnnouncer, [CollectorsNext]_vars
    PROVE  raced' \/ OneAnnouncer'
<1>0. /\ at \in [Workers -> AnyPlace] /\ announced \in Nat /\ proof \in BOOLEAN /\ raced \in BOOLEAN
      /\ ThreadTypes
  BY DEF CollectorsTypes, RedisTypes, ThreadTypes
<1>. SUFFICES ASSUME ~raced' PROVE OneAnnouncer'
  OBVIOUS
<1>. USE DEF redis
<1>1. ~raced => OneAnnouncer  OBVIOUS
<1>2. CASE TakesUp
  <2>1. UNCHANGED <<proof, announced, raced>>  BY <1>2, TakesUpFrame
  <2>2. PICK w \in Handlers : Started(w)  BY <1>2, HandlersStart
  <2>3. w \in Workers  BY NamesOfWorkers
  <2>4. First[w] \notin {"setProof", "announceProof"}
    BY Programs DEF Handlers, Collecting
  <2>5. OneAnnouncer  BY <1>1, <2>1
  <2>6. CASE at' = [at EXCEPT ![w] = First[w]]  BY <1>0, <2>1, <2>3, <2>4, <2>5, <2>6, AnnouncerMoves
  <2>7. CASE at' = [at EXCEPT ![w] = "idle"]  BY <1>0, <2>1, <2>3, <2>5, <2>7, AnnouncerMoves
  <2>. QED  BY <2>2, <2>6, <2>7 DEF Started
<1>3. CASE OnProcessedPacket
  <2>1. UNCHANGED <<proof, announced, raced>>  BY <1>3 DEF OnProcessedPacket, LayerZeroFrame
  <2>2. OneAnnouncer /\ "recovered" \in Workers  BY <1>1, <2>1, NamesOfWorkers
  <2>3. CASE at' = at  BY <2>1, <2>2, <2>3, AnnouncerKept
  <2>4. CASE at' = [at EXCEPT !["recovered"] = "readData"]
    BY <1>0, <2>1, <2>2, <2>4, AnnouncerMoves
  <2>. QED  BY <1>3, <2>3, <2>4 DEF OnProcessedPacket
<1>4. CASE RestartAll
  <2>1. UNCHANGED <<proof, announced, raced>> /\ \A w \in Workers : at'[w] = "idle"
    BY <1>4 DEF RestartAll, Restart
  <2>. QED  BY <1>1, <2>1, AnnouncerKept
<1>5. CASE Calm
  <2>1. UNCHANGED <<proof, announced, raced, at>>  BY <1>5, CalmMovesNobody
  <2>. QED  BY <1>1, <2>1, AnnouncerKept
<1>6. ASSUME NEW w \in Workers, HandlerFails(w) PROVE OneAnnouncer'
  <2>1. UNCHANGED <<proof, announced, raced>> /\ at' = [at EXCEPT ![w] = "idle"]  BY <1>6 DEF HandlerFails
  <2>. QED  BY <1>0, <1>1, <2>1, AnnouncerMoves
<1>7. ASSUME NEW w \in Workers, Await(w) PROVE OneAnnouncer'
  <2>1. CASE StoreStep(w)  BY <1>0, <2>1, AnnouncerCommand DEF StoreStep
  <2>2. CASE NextCall(w)
    <3>1. UNCHANGED <<proof, announced, raced>>  BY <2>2 DEF NextCall
    <3>2. \E place \in {"checkProof", "announcePacket", "setData"} : at' = [at EXCEPT ![w] = place]
      BY <1>0, <2>2, NextCallMoves DEF Moved
    <3>. QED  BY <1>0, <1>1, <3>1, <3>2, AnnouncerMoves
  <2>3. CASE AnnouncePacket(w) \/ ReadData(w) \/ QueuePendingPayloadVerifiedEvent(w) \/ CheckIfVerifiable(w)
    <3>1. UNCHANGED <<proof, announced, raced>>
      BY <2>3 DEF AnnouncePacket, ReadData, QueuePendingPayloadVerifiedEvent, CheckIfVerifiable, LayerZeroFrame
    <3>2. \E place \in {"idle", "verify", "enqueue", "checkProof"} : at' = [at EXCEPT ![w] = place]
      BY <2>3 DEF AnnouncePacket, ReadData, QueuePendingPayloadVerifiedEvent, CheckIfVerifiable
    <3>. QED  BY <1>0, <1>1, <3>1, <3>2, AnnouncerMoves
  <2>. QED  BY <1>7, <2>1, <2>2, <2>3 DEF Await
<1>. QED  BY <1>2, <1>3, <1>4, <1>5, <1>6, <1>7, StepKinds

-----------------------------------------------------------------------------
(***************************************************************************)
(* The theorems.                                                           *)
(***************************************************************************)

LEMMA CollectorsStart == CollectorsInit => CollectorsInv
<1>. SUFFICES ASSUME CollectorsInit PROVE CollectorsInv
  OBVIOUS
<1>1. StoreTypeOK  BY StoreTypeInit DEF CollectorsInit
<1>2. \A w \in Workers : at[w] = "idle" /\ todo[w] = <<>> /\ found[w] = 0
  BY DEF CollectorsInit, Init, Fresh
<1>3. ThreadTypes
  <2>1. "idle" \in AnyPlace /\ <<>> \in Rests  BY DEF AnyPlace, Rests
  <2>. QED  BY <2>1 DEF CollectorsInit, Init, Fresh, ThreadTypes
<1>4. needed \in 1..MaxVerifications /\ attested \in 0..needed /\ (attested > 0 => emitted)
  BY CollectorsAssumption DEF CollectorsInit
<1>5. CollectorsTypes
  <2>1. ChainTypes  BY <1>4 DEF CollectorsInit, ChainTypes
  <2>2. RedisTypes /\ SubmitterTypes  BY <1>1 DEF StoreTypeOK, RedisTypes, SubmitterTypes
  <2>3. WormholeTypes /\ LayerZeroTypes /\ HistoryTypes
    BY DEF CollectorsInit, WormholeTypes, LayerZeroTypes, HistoryTypes
  <2>. QED  BY <1>3, <2>1, <2>2, <2>3 DEF CollectorsTypes
<1>6. WorkersInv
  BY <1>2 DEF WorkersInv, Placed, Owned, Once, In, Resting
<1>7. BridgesInv  BY DEF CollectorsInit, BridgesInv
<1>8. KnownInv
  <2>1. orders["none"] = 0 /\ lookups = 0 /\ ~data  BY DEF CollectorsInit, Init, NoOrders, Values
  <2>. QED  BY <1>2, <2>1 DEF KnownInv
<1>9. VerifiedInv  BY <1>2 DEF CollectorsInit, Init, VerifiedInv, ProofCall
<1>10. PriorityInv
  <2>1. message = "none" /\ ~prioritised /\ at["operator"] = "idle"
    BY <1>2, NamesOfWorkers DEF CollectorsInit, Init, Handlers
  <2>. QED  BY <2>1 DEF PriorityInv, PriorityKept
<1>11. SkippedInv
  BY <1>4 DEF CollectorsInit, SkippedInv, VAAMissedOnlyIfRecoveryFirst
<1>12. OneAnnouncer  BY <1>2 DEF CollectorsInit, Init, OneAnnouncer
<1>. QED  BY <1>5, <1>6, <1>7, <1>8, <1>9, <1>10, <1>11, <1>12 DEF CollectorsInv

LEMMA CollectorsInductive == CollectorsSpec => []CollectorsInv
<1>1. CollectorsInv /\ [CollectorsNext]_vars => CollectorsInv'
  BY TypeStep, WorkersStep, BridgesStep, KnownStep, VerifiedStep, PriorityStep, SkippedStep,
     CollectorsAnnounce DEF CollectorsInv
<1>. QED  BY <1>1, CollectorsStart, PTL DEF CollectorsSpec

\* The types of all that the collectors keep but the pending events, for any
\* number of verifications, failures and restarts.
THEOREM CollectorsTypeCorrect == CollectorsSpec => []CollectorsTypes
<1>1. CollectorsInv => CollectorsTypes  BY DEF CollectorsInv
<1>. QED  BY <1>1, CollectorsInductive, PTL

\* Whatever the four bridges' collectors do, a proof is announced at most once,
\* unless two calls of setAMBProof were between their check and their set.
THEOREM CollectorsAnnounceOnce == CollectorsSpec => []AnnouncedOnceUnlessRaced
<1>1. CollectorsInv => AnnouncedOnceUnlessRaced
  BY DEF CollectorsInv, OneAnnouncer, AnnouncedOnceUnlessRaced
<1>. QED  BY <1>1, CollectorsInductive, PTL

\* No order of a mock or LayerZero message is made without the message: its
\* proof cannot be announced before setAMBMessage has stored it.
THEOREM OrdersKnowMessageSafe == CollectorsSpec => []OrdersKnowMessage
<1>1. CollectorsInv => OrdersKnowMessage  BY DEF CollectorsInv, KnownInv, OrdersKnowMessage
<1>. QED  BY <1>1, CollectorsInductive, PTL

\* A LayerZero proof is in the store only if the receive library holds the
\* packet verifiable, by the scan loop, the pending events and their recovery.
THEOREM ProofOnlyIfVerifiableSafe == CollectorsSpec => []ProofOnlyIfVerifiable
<1>1. CollectorsInv => ProofOnlyIfVerifiable
  <2>1. CollectorsInv => attested \in Nat /\ needed \in Nat
    BY DEF CollectorsInv, CollectorsTypes, ChainTypes
  <2>2. CollectorsInv => (bridge = "layer-zero" /\ attested < needed => ~proof)
    BY DEF CollectorsInv, VerifiedInv
  <2>. QED  BY <2>1, <2>2 DEF ProofOnlyIfVerifiable
<1>. QED  BY <1>1, CollectorsInductive, PTL

\* setAMBMessage does not overwrite a priority, unless the message is collected
\* twice or the process is restarted.
THEOREM PriorityKeptSafe == CollectorsSpec => []PriorityKept
<1>1. CollectorsInv => PriorityKept  BY DEF CollectorsInv, PriorityInv
<1>. QED  BY <1>1, CollectorsInductive, PTL

\* A VAA that the engine takes for an old one is fetched by the recovery, if
\* the recovery fixed its range after the engine's starting sequence was read.
THEOREM VAAMissedOnlyIfRecoveryFirstSafe == CollectorsSpec => []VAAMissedOnlyIfRecoveryFirst
<1>1. CollectorsInv => VAAMissedOnlyIfRecoveryFirst  BY DEF CollectorsInv, SkippedInv
<1>. QED  BY <1>1, CollectorsInductive, PTL

-----------------------------------------------------------------------------
(***************************************************************************)
(* The collectors implement the store with any workers.                    *)
(***************************************************************************)

\* The store's view of the workers.
Seen == [w \in Workers |-> IF at[w] \in LocalCommands THEN "idle" ELSE at[w]]

LEMMA SeenMoves ==
    ASSUME at \in [Workers -> AnyPlace], NEW w \in Workers, NEW place, at' = [at EXCEPT ![w] = place]
    PROVE  Seen' = [Seen EXCEPT ![w] = IF place \in LocalCommands THEN "idle" ELSE place]
BY DEF Seen

LEMMA CommandsNotLocal == \A c \in Commands \cup {"idle"} : c \notin LocalCommands
BY DEF Commands, Calls, LocalCommands

\* A command of the collectors is one of the store.
LEMMA CommandMaps ==
    ASSUME at \in [Workers -> AnyPlace], NEW w \in Workers, Command(w)
    PROVE  Store!Command(w)
<1>. DEFINE To(from, place) == Seen[w] = from /\ Seen' = [Seen EXCEPT ![w] = place]
<1>1. ASSUME NEW from \in Commands, NEW place \in Commands \cup {"idle"}, at[w] = from,
             at' = [at EXCEPT ![w] = place]
      PROVE  To(from, place)
  <2>1. from \notin LocalCommands /\ place \notin LocalCommands  BY CommandsNotLocal
  <2>2. Seen[w] = from  BY <1>1, <2>1 DEF Seen
  <2>3. Seen' = [Seen EXCEPT ![w] = place]  BY <1>1, <2>1, SeenMoves
  <2>. QED  BY <2>2, <2>3
<1>. HIDE DEF To
<1>2. {"setMessage", "listHash", "announceMessage", "readMessage", "setPriority", "checkProof",
       "setProof", "announceProof", "setData"} \subseteq Commands
  BY DEF Commands, Calls
<1>. USE DEF redis, submitterVars, Store!redis, Store!submitterVars
<1>3. CASE SetMessage(w)
  <2>1. To("setMessage", "listHash")  BY <1>1, <1>2, <1>3 DEF SetMessage
  <2>2. Store!SetMessage(w)  BY <1>3, <2>1 DEF SetMessage, Store!SetMessage, To, Seen
  <2>. QED  BY <2>2 DEF Store!Command
<1>4. CASE ListHash(w)
  <2>1. To("listHash", "announceMessage")  BY <1>1, <1>2, <1>4 DEF ListHash
  <2>2. Store!ListHash(w)  BY <1>4, <2>1 DEF ListHash, Store!ListHash, To, Seen
  <2>. QED  BY <2>2 DEF Store!Command
<1>5. CASE AnnounceMessage(w)
  <2>1. To("announceMessage", "idle")  BY <1>1, <1>2, <1>5 DEF AnnounceMessage
  <2>2. Store!AnnounceMessage(w)  BY <1>5, <2>1 DEF AnnounceMessage, Store!AnnounceMessage, To, Seen
  <2>. QED  BY <2>2 DEF Store!Command
<1>6. CASE ReadMessage(w)
  <2>1. To("readMessage", IF message = "none" THEN "idle" ELSE "setPriority")
    BY <1>1, <1>2, <1>6 DEF ReadMessage
  <2>2. Store!ReadMessage(w)  BY <1>6, <2>1 DEF ReadMessage, Store!ReadMessage, To, Seen
  <2>. QED  BY <2>2 DEF Store!Command
<1>7. CASE SetPriority(w)
  <2>1. To("setPriority", "idle")  BY <1>1, <1>2, <1>7 DEF SetPriority
  <2>2. Store!SetPriority(w)  BY <1>7, <2>1 DEF SetPriority, Store!SetPriority, To, Seen
  <2>. QED  BY <2>2 DEF Store!Command
<1>8. CASE CheckProof(w)
  <2>1. To("checkProof", IF proof THEN "idle" ELSE "setProof")
    BY <1>1, <1>2, <1>8 DEF CheckProof
  <2>2. \A v \in Workers : at[v] = "setProof" <=> Seen[v] = "setProof"
    BY DEF Seen, LocalCommands
  <2>3. (\E v \in Workers : at[v] = "setProof") <=> (\E v \in Workers : Seen[v] = "setProof")
    BY <2>2
  <2>4. raced' = (raced \/ \E v \in Workers : Seen[v] = "setProof")
    BY <1>8, <2>3 DEF CheckProof
  <2>5. Store!CheckProof(w)  BY <1>8, <2>1, <2>4 DEF CheckProof, Store!CheckProof, To, Seen
  <2>. QED  BY <2>5 DEF Store!Command
<1>9. CASE SetProof(w)
  <2>1. To("setProof", "announceProof")  BY <1>1, <1>2, <1>9 DEF SetProof
  <2>2. Store!SetProof(w)  BY <1>9, <2>1 DEF SetProof, Store!SetProof, To, Seen
  <2>. QED  BY <2>2 DEF Store!Command
<1>10. CASE AnnounceProof(w)
  <2>1. To("announceProof", "idle")  BY <1>1, <1>2, <1>10 DEF AnnounceProof
  <2>2. Store!AnnounceProof(w)  BY <1>10, <2>1 DEF AnnounceProof, Store!AnnounceProof, To, Seen
  <2>. QED  BY <2>2 DEF Store!Command
<1>11. CASE SetData(w)
  <2>1. To("setData", "idle")  BY <1>1, <1>2, <1>11 DEF SetData
  <2>2. Store!SetData(w)  BY <1>11, <2>1 DEF SetData, Store!SetData, To, Seen
  <2>. QED  BY <2>2 DEF Store!Command
<1>. QED  BY <1>3, <1>4, <1>5, <1>6, <1>7, <1>8, <1>9, <1>10, <1>11 DEF Command

\* An idle worker, or one at a command of its collector, makes a call, goes on
\* with a command of its collector, or rests.
LEMMA CallMaps ==
    ASSUME at \in [Workers -> AnyPlace], NEW w \in Workers,
           at[w] \in LocalCommands \cup {"idle"},
           NEW place \in Calls \cup LocalCommands \cup {"idle"}, at' = [at EXCEPT ![w] = place],
           UNCHANGED <<redis, announced, submitterVars, raced>>
    PROVE  [Store!Next]_Store!storeVars
<1>1. Seen[w] = "idle"  BY DEF Seen
<1>2. Seen' = [Seen EXCEPT ![w] = IF place \in LocalCommands THEN "idle" ELSE place]
  BY SeenMoves
<1>3. CASE place \in Calls
  <2>1. place \notin LocalCommands  BY <1>3, CommandsNotLocal DEF Commands
  <2>2. Seen' = [Seen EXCEPT ![w] = place]  BY <1>2, <2>1
  <2>3. Store!Call(w, place)
    BY <1>1, <2>2 DEF Store!Call, Seen, redis, submitterVars, Store!redis, Store!submitterVars
  <2>4. place \in Store!Calls  BY <1>3 DEF Calls, Store!Calls
  <2>. QED  BY <2>3, <2>4 DEF Store!Next
<1>4. CASE place \notin Calls
  <2>1. Seen' = [Seen EXCEPT ![w] = "idle"]  BY <1>2, <1>4
  <2>2. Seen' = Seen  BY <1>1, <2>1 DEF Seen
  <2>. QED  BY <2>2 DEF Store!storeVars, Seen, redis, submitterVars, Store!redis, Store!submitterVars
<1>. QED  BY <1>3, <1>4

LEMMA StepMaps ==
    ASSUME CollectorsTypes, BridgesInv, [CollectorsNext]_vars
    PROVE  [Store!Next]_Store!storeVars
<1>0. ThreadTypes /\ at \in [Workers -> AnyPlace]  BY DEF CollectorsTypes, ThreadTypes
<1>1. CASE TakesUp
  <2>1. UNCHANGED <<redis, announced, submitterVars, raced>>  BY <1>1, TakesUpFrame
  <2>2. PICK w \in Handlers : Started(w)  BY <1>1, HandlersStart
  <2>3. w \in Workers /\ at[w] = "idle"  BY <2>2, NamesOfWorkers DEF Started, Resting
  <2>4. First[w] \in Calls \cup LocalCommands
    BY Programs DEF Handlers, Collecting, Calls, LocalCommands
  <2>5. PICK place \in Calls \cup LocalCommands \cup {"idle"} : at' = [at EXCEPT ![w] = place]
    BY <2>2, <2>4 DEF Started
  <2>. QED  BY <1>0, <2>1, <2>3, <2>5, CallMaps
<1>2. CASE OnProcessedPacket
  <2>1. UNCHANGED <<redis, announced, submitterVars, raced>> /\ at["recovered"] = "idle"
    BY <1>2 DEF OnProcessedPacket, LayerZeroFrame, Ready
  <2>2. "recovered" \in Workers /\ "readData" \in LocalCommands
    BY NamesOfWorkers DEF LocalCommands
  <2>3. CASE at' = at
    BY <2>1, <2>3 DEF Store!storeVars, redis, submitterVars, Store!redis, Store!submitterVars
  <2>4. CASE at' = [at EXCEPT !["recovered"] = "readData"]  BY <1>0, <2>1, <2>2, <2>4, CallMaps
  <2>. QED  BY <1>2, <2>3, <2>4 DEF OnProcessedPacket
<1>3. CASE RestartAll
  <2>1. Seen' = [w \in Workers |-> "idle"]
    BY <1>3 DEF RestartAll, Restart, Seen, LocalCommands
  <2>2. Store!Restart
    BY <1>3, <2>1 DEF RestartAll, Restart, Store!Restart, Seen, redis, Store!redis, NoOrders,
       Store!NoOrders, Values, Store!Values
  <2>. QED  BY <2>2 DEF Store!Next
<1>4. CASE Calm
  <2>1. UNCHANGED <<redis, at, announced, raced>>  BY <1>4, CalmMovesNobody
  <2>2. \/ UNCHANGED submitterVars \/ ListenForOrders \/ AddSubmitOrder \/ LookupFails
    BY <1>4 DEF Calm, Emit, Attest, SetStartingSequences, GetTimestampsFromBlockNumbers,
       FetchVAAsFails, RecoverVAAs, RecoveryProcessVAA, Handle, ListenForProcessedPackets,
       PendingAges, LayerZeroFrame, SubmitterStep, SubmitterFails, vars, storeVars
  <2>. USE DEF redis, submitterVars, Store!redis, Store!submitterVars
  <2>3. CASE UNCHANGED submitterVars  BY <2>1, <2>3 DEF Store!storeVars
  <2>4. CASE ListenForOrders
    <3>1. Store!ListenForOrders  BY <2>1, <2>4 DEF ListenForOrders, Store!ListenForOrders
    <3>. QED  BY <3>1 DEF Store!Next
  <2>5. CASE AddSubmitOrder
    <3>1. Store!AddSubmitOrder  BY <2>1, <2>5 DEF AddSubmitOrder, Store!AddSubmitOrder
    <3>. QED  BY <3>1 DEF Store!Next
  <2>6. CASE LookupFails
    <3>1. Store!LookupFails
      BY <2>1, <2>6 DEF LookupFails, Store!LookupFails, NoOrders, Store!NoOrders, Values, Store!Values
    <3>. QED  BY <3>1 DEF Store!Next
  <2>. QED  BY <2>2, <2>3, <2>4, <2>5, <2>6
<1>5. ASSUME NEW w \in Workers, HandlerFails(w) PROVE [Store!Next]_Store!storeVars
  <2>1. UNCHANGED <<redis, announced, submitterVars, raced>> /\ at' = [at EXCEPT ![w] = "idle"]
    BY <1>5 DEF HandlerFails
  <2>2. at[w] \in AnyPlace  BY <1>0
  <2>3. CASE at[w] \in LocalCommands \cup {"idle"}  BY <1>0, <2>1, <2>3, CallMaps
  <2>4. CASE at[w] \in Commands
    <3>1. Seen[w] = at[w]  BY <2>4, CommandsNotLocal DEF Seen
    <3>2. Seen' = [Seen EXCEPT ![w] = "idle"]
      BY <1>0, <2>1, SeenMoves, CommandsNotLocal
    <3>3. at[w] \in Store!Commands  BY <2>4 DEF Commands, Calls, Store!Commands, Store!Calls
    <3>4. Store!CommandFails(w)
      BY <2>1, <3>1, <3>2, <3>3 DEF Store!CommandFails, Seen, redis, submitterVars, Store!redis, Store!submitterVars
    <3>. QED  BY <3>4 DEF Store!Next
  <2>. QED  BY <2>2, <2>3, <2>4 DEF AnyPlace
<1>6. ASSUME NEW w \in Workers, Await(w) PROVE [Store!Next]_Store!storeVars
  <2>1. CASE StoreStep(w)
    <3>1. Store!Command(w)  BY <1>0, <2>1, CommandMaps DEF StoreStep
    <3>. QED  BY <3>1 DEF Store!Next
  <2>2. CASE NextCall(w)
    <3>1. UNCHANGED <<redis, announced, submitterVars, raced>> /\ at[w] = "idle"  BY <2>2 DEF NextCall
    <3>2. PICK place \in {"checkProof", "announcePacket", "setData"} : at' = [at EXCEPT ![w] = place]
      BY <1>0, <2>2, NextCallMoves DEF Moved
    <3>3. place \in Calls \cup LocalCommands  BY DEF Calls, LocalCommands
    <3>. QED  BY <1>0, <3>1, <3>2, <3>3, CallMaps
  <2>3. CASE AnnouncePacket(w) \/ ReadData(w) \/ QueuePendingPayloadVerifiedEvent(w) \/ CheckIfVerifiable(w)
    <3>1. UNCHANGED <<redis, announced, submitterVars, raced>>
      BY <2>3 DEF AnnouncePacket, ReadData, QueuePendingPayloadVerifiedEvent, CheckIfVerifiable, LayerZeroFrame
    <3>2. at[w] \in LocalCommands
      BY <2>3 DEF AnnouncePacket, ReadData, QueuePendingPayloadVerifiedEvent, CheckIfVerifiable, LocalCommands
    <3>3. PICK place \in {"idle", "verify", "enqueue", "checkProof"} : at' = [at EXCEPT ![w] = place]
      BY <2>3 DEF AnnouncePacket, ReadData, QueuePendingPayloadVerifiedEvent, CheckIfVerifiable
    <3>4. place \in Calls \cup LocalCommands \cup {"idle"}  BY DEF Calls, LocalCommands
    <3>. QED  BY <1>0, <3>1, <3>2, <3>3, <3>4, CallMaps
  <2>. QED  BY <1>6, <2>1, <2>2, <2>3 DEF Await
<1>. QED  BY <1>1, <1>2, <1>3, <1>4, <1>5, <1>6, StepKinds

\* The collectors' threads are workers of the store as AMBStore has them: they
\* change its state by its commands only, in the order of its calls, so what is
\* proved of any workers holds with these.
THEOREM CollectorsImplementStore == CollectorsSpec => ImplementsStore
<1>1. CollectorsInit => Store!Init
  <2>1. CollectorsInit => Seen = [w \in Workers |-> "idle"]
    BY DEF CollectorsInit, Init, Seen, LocalCommands
  <2>. QED
    BY <2>1 DEF CollectorsInit, Init, Store!Init, Seen, NoOrders, Store!NoOrders, Values, Store!Values
<1>2. CollectorsInv /\ [CollectorsNext]_vars => [Store!Next]_Store!storeVars
  BY StepMaps DEF CollectorsInv
<1>. QED  BY <1>1, <1>2, CollectorsInductive, PTL DEF CollectorsSpec, ImplementsStore, Store!Spec
=============================================================================
