---------------------------- MODULE BlockScanProofs ----------------------------
(***************************************************************************)
(* Proofs about BlockScan, for every chain, delay, range and chunk size:   *)
(* types, the scanned interval, the distance kept behind the chain, and    *)
(* the finality of handled events when reorganisations are no deeper than  *)
(* the monitor's delay.                                                    *)
(***************************************************************************)
EXTENDS BlockScan, TLAPS

\* The blocks that are at least blockDelay behind the chain.
Reached == {b \in Block : b <= head - BlockDelay}

\* A sequence over a set is one over any larger set.
LEMMA SeqMonotone ==
    ASSUME NEW S, NEW T, S \subseteq T, NEW s \in Seq(S)
    PROVE  s \in Seq(T)
OBVIOUS

\* No step but Reorg replaces a block, and the versions never exceed the count.
VersionsCounted == \A b \in Block : version[b] <= reorgs

\* The chunks of a scan never pass the status, and pass stoppingBlock never.
LEMMA QueryToFacts ==
    ASSUME TypeOK, pc = "waiting", ~NothingToScan
    PROVE  /\ QueryTo \in Block
           /\ QueryTo <= currentStatus /\ QueryTo <= StoppingBlock
           /\ QueryTo >= fromBlock \/ (QueryTo = StoppingBlock /\ StoppingBlock < fromBlock)
<1>1. currentStatus \in 0..MaxHead /\ fromBlock \in Nat /\ fromBlock <= currentStatus
  BY DEF TypeOK, NothingToScan, Block
<1> QED
  BY ONLY <1>1, ScanAssumption DEF QueryTo, Block

\* The type invariant needs the versions to be counted by the reorganisations.
TypeInv == TypeOK /\ VersionsCounted

LEMMA TypeStep == TypeInv /\ [Next]_vars => TypeInv'
<1> SUFFICES ASSUME TypeInv, [Next]_vars PROVE TypeInv'
  OBVIOUS
<1> USE ScanAssumption DEF TypeInv
<1>1. CASE NewBlock
  BY <1>1 DEF NewBlock, TypeOK, VersionsCounted, Block, monitor, scanner
<1>2. CASE Reorg
  <2>1. PICK d \in 1..ReorgDepth :
          version' = [b \in Block |-> IF head - d < b /\ b <= head THEN version[b] + 1 ELSE version[b]]
    BY <1>2 DEF Reorg
  <2>2. reorgs' = reorgs + 1 /\ reorgs' \in 0..MaxReorgs
    BY <1>2 DEF Reorg, TypeOK
  <2>3. \A b \in Block : version[b] \in 0..reorgs
    BY DEF TypeOK, VersionsCounted
  <2>4. version' \in [Block -> 0..MaxReorgs] /\ \A b \in Block : version'[b] <= reorgs'
    <3>1. version' \in [Block -> 0..reorgs']
      <4>1. reorgs \in Nat /\ reorgs' = reorgs + 1
        BY <2>2 DEF TypeOK
      <4>2. \A b \in Block : version[b] \in 0..reorgs' /\ version[b] + 1 \in 0..reorgs'
        BY ONLY <2>3, <4>1
      <4> QED
        BY ONLY <2>1, <4>2
    <3> QED
      BY ONLY <2>2, <3>1, ScanAssumption
  <2> QED
    BY <1>2, <2>2, <2>4 DEF Reorg, TypeOK, VersionsCounted, monitor, scanner
<1>3. CASE GetBlock
  <2>1. answer' \in Block
    BY <1>3 DEF GetBlock, Delayed, TypeOK, Block
  <2> QED
    BY <1>3, <2>1 DEF GetBlock, TypeOK, VersionsCounted, chain, scanner
<1>4. CASE BroadcastStatus
  <2>1. answer \in Block
    BY <1>4 DEF BroadcastStatus, TypeOK
  <2>2. lastBroadcast' \in Block \cup {-1} /\ port' \in Seq(Block)
    <3>1. port \in Seq(Block) /\ Append(port, answer) \in Seq(Block) /\ lastBroadcast \in Block \cup {-1}
      BY <2>1 DEF TypeOK
    <3> QED
      BY <1>4, <2>1, <3>1 DEF BroadcastStatus
  <2> QED
    BY <1>4, <2>2 DEF BroadcastStatus, TypeOK, VersionsCounted, chain, scanner
<1>5. CASE RegisterNewPort
  BY <1>5 DEF RegisterNewPort, TypeOK, VersionsCounted, chain, monitor, scanner
<1>6. CASE StatusListener
  <2>1. Head(port) \in Block /\ Tail(port) \in Seq(Block)
    BY <1>6 DEF StatusListener, TypeOK
  <2> QED
    BY <1>6, <2>1 DEF StatusListener, TypeOK, VersionsCounted, chain, monitor, scanner
<1>7. CASE GetStartingBlock
  <2>1. StartFrom \in Int
    BY <1>7 DEF GetStartingBlock, StartFrom, TypeOK, Block
  <2>2. fromBlock' \in Nat /\ first' \in Nat /\ pc' \in {"waiting", "crashed"}
    <3>1. fromBlock \in Nat /\ first \in Nat
      BY DEF TypeOK
    <3> QED
      BY ONLY <1>7, <2>1, <3>1 DEF GetStartingBlock
  <2> QED
    BY <1>7, <2>2 DEF GetStartingBlock, TypeOK, VersionsCounted, chain, monitor
<1>8. CASE Scan
  <2>1. toBlock' \in Block
    BY <1>8, QueryToFacts DEF Scan
  <2> QED
    BY <1>8, <2>1 DEF Scan, TypeOK, VersionsCounted, chain, monitor, Block
<1>9. CASE QueryLogs
  <2>1. \A b \in Block : Event(b) \in Events
    BY DEF TypeOK, Event, Events
  <2>2. logs' \in Seq(Events)
    <3> DEFINE n == toBlock - fromBlock + 1
    <3>1. \A j \in 1..n : fromBlock + j - 1 \in Block
      BY DEF TypeOK, Block
    <3>2. logs' = [j \in 1..n |-> Event(fromBlock + j - 1)]
      BY <1>9 DEF QueryLogs
    <3>3. CASE n \in Nat
      <4> HIDE DEF n
      <4> QED BY <2>1, <3>1, <3>2, <3>3
    <3>4. CASE n \notin Nat
      <4>1. n \in Int /\ 1..n = 1..0
        BY <3>4 DEF TypeOK
      <4> HIDE DEF n
      <4>2. logs' = [j \in 1..0 |-> Event(fromBlock + j - 1)]
        BY <3>2, <4>1
      <4> QED BY <4>2
    <3> QED BY <3>3, <3>4
  <2>3. scanned' \in [Block -> Nat]
    <3>1. scanned \in [Block -> Nat]
      BY DEF TypeOK
    <3> QED
      BY ONLY <1>9, <3>1 DEF QueryLogs
  <2> QED
    BY <1>9, <2>2, <2>3 DEF QueryLogs, TypeOK, VersionsCounted, chain, monitor
<1>10. CASE HandleEvent
  <2>1. Head(logs) \in Events /\ Tail(logs) \in Seq(Events)
    BY <1>10 DEF HandleEvent, TypeOK
  <2>2. handled' \subseteq Events /\ failed' \subseteq Events /\ logs' \in Seq(Events)
    BY <1>10, <2>1 DEF HandleEvent, LogsAfterFailure, TypeOK
  <2> QED
    BY <1>10, <2>2 DEF HandleEvent, TypeOK, VersionsCounted, chain, monitor
<1>11. CASE EndScan
  <2>1. fromBlock' \in Nat /\ pc' \in {"exited", "waiting"}
    <3>1. fromBlock \in Nat /\ toBlock \in Nat
      BY DEF TypeOK
    <3> QED
      BY ONLY <1>11, <3>1 DEF EndScan, NextFrom
  <2> QED
    BY <1>11, <2>1 DEF EndScan, TypeOK, VersionsCounted, chain, monitor
<1>12. CASE UNCHANGED vars
  BY <1>12 DEF vars, chain, monitor, scanner, TypeOK, VersionsCounted
<1> QED
  BY <1>1, <1>2, <1>3, <1>4, <1>5, <1>6, <1>7, <1>8, <1>9, <1>10, <1>11, <1>12
  DEF Next, Monitor, Scanner

LEMMA TypeInvariant == Spec => []TypeInv
<1>1. Init => TypeInv
  <2> SUFFICES ASSUME Init PROVE TypeInv
    OBVIOUS
  <2>1. version \in [Block -> 0..MaxReorgs] /\ scanned \in [Block -> Nat]
    BY ScanAssumption DEF Init
  <2> QED
    <3>1. port \in Seq(Block) /\ logs \in Seq(Events)
      BY DEF Init
    <3>2. 0 \in Block /\ reorgs \in 0..MaxReorgs /\ VersionsCounted
      BY ScanAssumption DEF Init, Block, VersionsCounted
    <3> QED
      BY <2>1, <3>1, <3>2 DEF Init, TypeInv, TypeOK, Block
<1> QED
  BY <1>1, TypeStep, PTL DEF Spec

\* The type invariant of the monitor and of the scanning worker.
THEOREM TypeCorrect == Spec => []TypeOK
<1>1. TypeInv => TypeOK
  BY DEF TypeInv
<1> QED
  BY <1>1, TypeInvariant, PTL

-----------------------------------------------------------------------------
(* The scanned interval. Where a query range is empty, the scanner started *)
(* beyond stoppingBlock and this is its only query.                        *)

Position ==
    /\ pc \in {"starting", "crashed"} => logs = <<>> /\ fromBlock = 0 /\ first = 0
    /\ first <= fromBlock
    /\ fromBlock = first \/ fromBlock <= StoppingBlock
    /\ pc \in {"querying", "handling", "exited"} =>
        \/ toBlock >= fromBlock
        \/ fromBlock = first /\ toBlock >= StoppingBlock
    /\ ScannedOnceWithoutGap

LEMMA PositionStep == TypeOK /\ Position /\ [Next]_vars => Position'
<1> SUFFICES ASSUME TypeOK, Position, [Next]_vars PROVE Position'
  OBVIOUS
<1> USE ScanAssumption
<1>1. CASE UNCHANGED <<pc, fromBlock, toBlock, logs, first, scanned>>
  BY <1>1 DEF Position, ScannedOnceWithoutGap, LastScanned
<1>2. CASE GetStartingBlock
  <2>1. StartFrom \in Int
    BY <1>2 DEF GetStartingBlock, StartFrom, TypeOK, Block
  <2>2. \A b \in Block : scanned[b] = 0
    BY <1>2 DEF GetStartingBlock, Position, ScannedOnceWithoutGap
  <2>3. CASE StartFrom < 0
    BY <1>2, <2>2, <2>3 DEF GetStartingBlock, Position, ScannedOnceWithoutGap, LastScanned, Block
  <2>4. CASE ~(StartFrom < 0)
    <3>1. /\ pc' = "waiting" /\ fromBlock' = StartFrom /\ first' = StartFrom /\ scanned' = scanned
      BY <1>2, <2>4 DEF GetStartingBlock
    <3>2. ScannedOnceWithoutGap'
      BY <2>1, <2>2, <3>1 DEF ScannedOnceWithoutGap, LastScanned, Block
    <3> QED
      BY <2>1, <2>4, <3>1, <3>2 DEF Position
  <2> QED
    BY <2>3, <2>4
<1>3. CASE Scan
  <2>1. QueryTo \in Block /\ (QueryTo >= fromBlock \/ (QueryTo = StoppingBlock /\ StoppingBlock < fromBlock))
    BY <1>3, QueryToFacts DEF Scan
  <2>2. ScannedOnceWithoutGap'
    BY <1>3 DEF Scan, Position, ScannedOnceWithoutGap, LastScanned
  <2>3. QueryTo >= fromBlock \/ (fromBlock = first /\ QueryTo >= StoppingBlock)
    BY <2>1 DEF Position, TypeOK, Block
  <2> QED
    BY <1>3, <2>2, <2>3 DEF Scan, Position
<1>4. CASE QueryLogs
  <2>1. \A b \in Block : scanned'[b] = IF b \in fromBlock..toBlock THEN scanned[b] + 1 ELSE scanned[b]
    BY <1>4 DEF QueryLogs, TypeOK
  <2>2. \A b \in Block : scanned[b] = IF first <= b /\ b <= fromBlock - 1 THEN 1 ELSE 0
    BY <1>4 DEF QueryLogs, Position, ScannedOnceWithoutGap, LastScanned
  <2>3. \A b \in Block : scanned'[b] = IF first <= b /\ b <= toBlock THEN 1 ELSE 0
    <3>1. /\ fromBlock \in Nat /\ toBlock \in Nat /\ first \in Nat
          /\ Block \subseteq Nat
      BY DEF TypeOK, Block
    <3>2. first <= fromBlock /\ (toBlock >= fromBlock \/ fromBlock = first)
      BY <1>4 DEF Position, QueryLogs
    <3> QED
      BY ONLY <2>1, <2>2, <3>1, <3>2
  <2> QED
    BY <1>4, <2>3 DEF QueryLogs, Position, ScannedOnceWithoutGap, LastScanned
<1>5. CASE HandleEvent
  BY <1>5 DEF HandleEvent, Position, ScannedOnceWithoutGap, LastScanned
<1>6. CASE EndScan
  <2>1. CASE toBlock >= StoppingBlock
    BY <1>6, <2>1 DEF EndScan, Position, ScannedOnceWithoutGap, LastScanned
  <2>2. CASE ~(toBlock >= StoppingBlock)
    <3>1. pc' = "waiting" /\ fromBlock' = toBlock + 1 /\ UNCHANGED <<first, toBlock, scanned>>
      BY <1>6, <2>2 DEF EndScan, NextFrom
    <3>2. first <= fromBlock' /\ fromBlock' <= StoppingBlock
      BY <1>6, <2>2, <3>1 DEF EndScan, Position, TypeOK
    <3>3. fromBlock' - 1 = toBlock
      BY <3>1 DEF TypeOK
    <3>4. ScannedOnceWithoutGap'
      BY <1>6, <3>1, <3>3 DEF EndScan, Position, ScannedOnceWithoutGap, LastScanned
    <3> QED
      BY <3>1, <3>2, <3>4 DEF Position
  <2> QED
    BY <2>1, <2>2
<1>7. ASSUME NewBlock \/ Reorg \/ Monitor \/ RegisterNewPort \/ StatusListener \/ UNCHANGED vars
      PROVE  UNCHANGED <<pc, fromBlock, toBlock, logs, first, scanned>>
  BY <1>7 DEF NewBlock, Reorg, Monitor, GetBlock, BroadcastStatus, RegisterNewPort,
              StatusListener, vars, scanner
<1> QED
  BY <1>1, <1>2, <1>3, <1>4, <1>5, <1>6, <1>7 DEF Next, Scanner

LEMMA PositionInvariant == Spec => []Position
<1>1. Init => Position
  BY ScanAssumption DEF Init, Position, ScannedOnceWithoutGap
<1> QED
  BY <1>1, PositionStep, TypeCorrect, PTL DEF Spec

\* The blocks scanned are an interval from the starting block on, each scanned once,
\* for every starting block, stopping block and chunk size.
THEOREM ScanHasNoGap == Spec => []ScannedOnceWithoutGap
<1>1. Position => ScannedOnceWithoutGap
  BY DEF Position
<1> QED
  BY <1>1, PositionInvariant, PTL
-----------------------------------------------------------------------------
(* The distance kept behind the chain: a block number is Reached when the  *)
(* monitor learns it, and stays so.                                        *)

Behind ==
    /\ answer \in Reached \cup {NoBlock}
    /\ port \in Seq(Reached)
    /\ currentStatus \in Reached \cup {NoBlock}
    /\ pc = "querying" => toBlock \in Reached /\ toBlock <= StoppingBlock
    /\ StaysBehind

LEMMA BehindStep == TypeOK /\ Behind /\ [Next]_vars => Behind'
<1> SUFFICES ASSUME TypeOK, Behind, [Next]_vars PROVE Behind'
  OBVIOUS
<1> USE ScanAssumption
<1>1. CASE NewBlock
  <2>1. /\ head \in Nat /\ head' = head + 1
        /\ UNCHANGED <<answer, port, currentStatus, pc, toBlock, scanned>>
    BY <1>1 DEF NewBlock, TypeOK, Block, monitor, scanner
  <2>2. Reached \subseteq Reached'
    BY <2>1 DEF Reached, Block
  <2>3. port \in Seq(Reached')
    BY <2>2, SeqMonotone DEF Behind
  <2>4. StaysBehind'
    <3>1. \A b \in Block : b <= head - BlockDelay => b <= head' - BlockDelay
      BY <2>1 DEF Block
    <3> QED
      BY <2>1, <3>1 DEF Behind, StaysBehind
  <2> QED
    BY <2>1, <2>2, <2>3, <2>4 DEF Behind
<1>2. CASE GetBlock
  <2>1. PICK lag \in 0..NodeLag : Delayed(head - lag) >= 0 /\ answer' = Delayed(head - lag)
    BY <1>2 DEF GetBlock
  <2>2. answer' \in Reached
    BY <2>1 DEF Delayed, Reached, TypeOK, Block
  <2>3. UNCHANGED <<head, port, currentStatus, pc, toBlock, scanned>>
    BY <1>2 DEF GetBlock, chain, scanner
  <2> QED
    BY <2>2, <2>3 DEF Behind, StaysBehind, Reached
<1>3. CASE BroadcastStatus
  <2>1. answer \in Reached /\ port \in Seq(Reached)
    BY <1>3 DEF BroadcastStatus, Behind
  <2>2. Append(port, answer) \in Seq(Reached)
    BY <2>1
  <2>3. port' \in Seq(Reached) /\ answer' = NoBlock
    BY <1>3, <2>1, <2>2 DEF BroadcastStatus
  <2>4. UNCHANGED <<head, currentStatus, pc, toBlock, scanned>>
    BY <1>3 DEF BroadcastStatus, chain, scanner
  <2> QED
    BY <2>3, <2>4 DEF Behind, StaysBehind, Reached
<1>4. CASE StatusListener
  <2>1. Head(port) \in Reached /\ Tail(port) \in Seq(Reached)
    BY <1>4 DEF StatusListener, Behind
  <2>2. UNCHANGED <<head, answer, pc, toBlock, scanned>>
    BY <1>4 DEF StatusListener, chain, monitor, scanner
  <2> QED
    BY <1>4, <2>1, <2>2 DEF StatusListener, Behind, StaysBehind, Reached
<1>5. CASE Scan
  <2>1. toBlock' \in Block /\ toBlock' <= currentStatus /\ toBlock' <= StoppingBlock
    BY <1>5, QueryToFacts DEF Scan
  <2>2. currentStatus \in Reached
    BY <1>5 DEF Scan, NothingToScan, Behind
  <2>3. toBlock' \in Reached
    <3>1. head \in Nat /\ BlockDelay \in Nat /\ MaxHead \in Nat
      BY DEF TypeOK, Block
    <3>2. currentStatus \in Block /\ currentStatus <= head - BlockDelay
      BY <2>2 DEF Reached
    <3>3. toBlock' <= head - BlockDelay
      BY ONLY <2>1, <3>1, <3>2 DEF Block
    <3> QED
      BY ONLY <2>1, <3>3 DEF Reached
  <2>4. UNCHANGED <<head, answer, port, currentStatus, scanned>>
    BY <1>5 DEF Scan, chain, monitor
  <2> QED
    BY <2>1, <2>3, <2>4 DEF Behind, StaysBehind, Reached
<1>6. CASE QueryLogs
  <2>1. toBlock \in Reached /\ toBlock <= StoppingBlock
    BY <1>6 DEF QueryLogs, Behind
  <2>2. \A b \in Block : scanned'[b] > 0 => scanned[b] > 0 \/ b <= toBlock
    BY <1>6 DEF QueryLogs, TypeOK, Block
  <2>3. UNCHANGED <<head, answer, port, currentStatus>> /\ pc' = "handling"
    BY <1>6 DEF QueryLogs, chain, monitor
  <2>4. StaysBehind'
    <3> SUFFICES ASSUME NEW b \in Block, scanned'[b] > 0
                 PROVE  b <= head - BlockDelay /\ b <= StoppingBlock
      BY <2>3 DEF StaysBehind
    <3>1. CASE scanned[b] > 0
      BY <3>1 DEF Behind, StaysBehind
    <3>2. CASE b <= toBlock
      BY <2>1, <3>2 DEF Reached, TypeOK, Block
    <3> QED
      BY <2>2, <3>1, <3>2
  <2> QED
    BY <2>3, <2>4 DEF Behind, Reached
<1>7. CASE UNCHANGED <<head, answer, port, currentStatus, scanned>> /\ pc' # "querying"
  BY <1>7 DEF Behind, StaysBehind, Reached
<1>8. CASE UNCHANGED <<head, answer, port, currentStatus, scanned, pc, toBlock>>
  BY <1>8 DEF Behind, StaysBehind, Reached
<1>9. ASSUME GetStartingBlock \/ EndScan
      PROVE  UNCHANGED <<head, answer, port, currentStatus, scanned>> /\ pc' # "querying"
  BY <1>9 DEF GetStartingBlock, EndScan, chain, monitor
<1>10. ASSUME Reorg \/ RegisterNewPort \/ HandleEvent \/ UNCHANGED vars
       PROVE  UNCHANGED <<head, answer, port, currentStatus, scanned, pc, toBlock>>
  BY <1>10 DEF Reorg, RegisterNewPort, HandleEvent, vars, chain, monitor, scanner
<1> QED
  BY <1>1, <1>2, <1>3, <1>4, <1>5, <1>6, <1>7, <1>8, <1>9, <1>10 DEF Next, Monitor, Scanner

LEMMA BehindInvariant == Spec => []Behind
<1>1. Init => Behind
  <2> SUFFICES ASSUME Init PROVE Behind
    OBVIOUS
  <2>1. port \in Seq(Reached)
    BY DEF Init
  <2>2. StaysBehind
    BY DEF Init, StaysBehind
  <2>3. answer = NoBlock /\ currentStatus = NoBlock /\ pc = "starting"
    BY DEF Init
  <2> QED
    BY <2>1, <2>2, <2>3 DEF Behind
<1> QED
  BY <1>1, BehindStep, TypeCorrect, PTL DEF Spec

\* No block is scanned before it is blockDelay blocks deep, nor after stoppingBlock.
THEOREM ScanStaysBehind == Spec => []StaysBehind
<1>1. Behind => StaysBehind
  BY DEF Behind
<1> QED
  BY <1>1, BehindInvariant, PTL

-----------------------------------------------------------------------------
(* Finality.                                                               *)

\* The event is on the chain, in a block no reorganisation reaches.
IsFinal(e) == e.block \in Reached /\ version[e.block] = e.version
FinalEvents == {e \in Events : IsFinal(e)}
EventsFinal == handled \subseteq FinalEvents /\ logs \in Seq(FinalEvents)

LEMMA FinalStep ==
    ASSUME ReorgDepth <= BlockDelay
    PROVE  TypeInv /\ Behind /\ EventsFinal /\ [Next]_vars => EventsFinal'
<1> SUFFICES ASSUME TypeInv, Behind, EventsFinal, [Next]_vars PROVE EventsFinal'
  OBVIOUS
<1> USE ScanAssumption
<1>1. ASSUME FinalEvents \subseteq FinalEvents', UNCHANGED <<handled, logs>>
      PROVE  EventsFinal'
  BY <1>1, SeqMonotone DEF EventsFinal
<1>2. CASE NewBlock
  <2>1. head \in Nat /\ head' = head + 1 /\ UNCHANGED <<version, handled, logs>>
    BY <1>2 DEF NewBlock, TypeInv, TypeOK, Block, monitor, scanner
  <2>2. FinalEvents \subseteq FinalEvents'
    BY <2>1 DEF FinalEvents, IsFinal, Reached, Block
  <2> QED
    BY <1>1, <2>1, <2>2
<1>3. CASE Reorg
  <2>1. PICK d \in 1..ReorgDepth :
          version' = [b \in Block |-> IF head - d < b /\ b <= head THEN version[b] + 1 ELSE version[b]]
    BY <1>3 DEF Reorg
  <2>2. UNCHANGED <<head, handled, logs>> /\ head \in Nat
    BY <1>3 DEF Reorg, TypeInv, TypeOK, Block, scanner
  <2>3. \A b \in Reached : version'[b] = version[b]
    BY <2>1, <2>2 DEF Reached, Block
  <2>4. FinalEvents \subseteq FinalEvents'
    BY <2>2, <2>3 DEF FinalEvents, IsFinal, Reached
  <2> QED
    BY <1>1, <2>2, <2>4
<1>4. CASE QueryLogs
  <2> DEFINE n == toBlock - fromBlock + 1
  <2>1. toBlock \in Reached /\ fromBlock \in Nat
    BY <1>4 DEF QueryLogs, Behind, TypeInv, TypeOK
  <2>2. \A j \in 1..n : fromBlock + j - 1 \in Reached
    BY <2>1 DEF Reached, Block, TypeInv, TypeOK
  <2>3. \A b \in Reached : Event(b) \in FinalEvents
    <3>1. \A b \in Block : Event(b) \in Events
      BY DEF TypeInv, TypeOK, Event, Events
    <3> QED
      BY <3>1 DEF FinalEvents, IsFinal, Event, Reached
  <2>4. logs' = [j \in 1..n |-> Event(fromBlock + j - 1)] /\ n \in Int
    BY <1>4, <2>1 DEF QueryLogs, Reached, Block
  <2>5. UNCHANGED <<head, version, handled>>
    BY <1>4 DEF QueryLogs, chain
  <2>6. logs' \in Seq(FinalEvents)
    <3> HIDE DEF n
    <3>1. CASE n \in Nat
      BY <2>2, <2>3, <2>4, <3>1
    <3>2. CASE n \notin Nat
      <4>1. 1..n = 1..0
        BY <2>4, <3>2
      <4> QED
        BY <2>4, <4>1
    <3> QED
      BY <3>1, <3>2
  <2>7. FinalEvents' = FinalEvents
    BY <2>5 DEF FinalEvents, IsFinal, Reached
  <2> QED
    BY <2>5, <2>6, <2>7 DEF EventsFinal
<1>5. CASE HandleEvent
  <2>1. Head(logs) \in FinalEvents /\ Tail(logs) \in Seq(FinalEvents)
    BY <1>5 DEF HandleEvent, EventsFinal
  <2>2. UNCHANGED <<head, version>>
    BY <1>5 DEF HandleEvent, chain
  <2>3. FinalEvents' = FinalEvents
    BY <2>2 DEF FinalEvents, IsFinal, Reached
  <2> QED
    BY <1>5, <2>1, <2>3 DEF HandleEvent, LogsAfterFailure, EventsFinal
<1>6. ASSUME UNCHANGED <<head, version, handled, logs>> PROVE EventsFinal'
  BY <1>1, <1>6 DEF FinalEvents, IsFinal, Reached
<1>7. ASSUME Monitor \/ RegisterNewPort \/ StatusListener \/ GetStartingBlock \/ Scan \/ EndScan
             \/ UNCHANGED vars
      PROVE  UNCHANGED <<head, version, handled, logs>>
  BY <1>7 DEF Monitor, GetBlock, BroadcastStatus, RegisterNewPort, StatusListener,
              GetStartingBlock, Scan, EndScan, vars, chain, scanner
<1> QED
  BY <1>2, <1>3, <1>4, <1>5, <1>6, <1>7 DEF Next, Scanner

\* If no reorganisation is deeper than blockDelay, an event handed to the store stays
\* on the chain: the delay is exactly large enough.
THEOREM HandledIsFinal == ReorgDepth <= BlockDelay => (Spec => []HandledEventsAreFinal)
<1> SUFFICES ASSUME ReorgDepth <= BlockDelay PROVE Spec => []HandledEventsAreFinal
  OBVIOUS
<1>1. Init => EventsFinal
  <2> SUFFICES ASSUME Init PROVE EventsFinal
    OBVIOUS
  <2>1. logs \in Seq(FinalEvents) /\ handled = {}
    BY DEF Init
  <2> QED
    BY <2>1 DEF EventsFinal
<1>2. TypeInv /\ Behind /\ EventsFinal /\ [Next]_vars => EventsFinal'
  BY FinalStep
<1>3. EventsFinal => HandledEventsAreFinal
  BY DEF EventsFinal, HandledEventsAreFinal, FinalEvents, IsFinal
<1> QED
  BY <1>1, <1>2, <1>3, TypeInvariant, BehindInvariant, PTL DEF Spec

-----------------------------------------------------------------------------
(* No event is skipped: between a query and the next, the logs of the      *)
(* first are handled to the last one.                                      *)

EventIn(b, S) == \E e \in S : e.block = b
LogsOf(s) == {s[j] : j \in 1..Len(s)}
Unskipped ==
    /\ pc # "handling" => logs = <<>>
    /\ \A b \in Block : scanned[b] > 0 => EventIn(b, handled \cup failed \cup LogsOf(logs))

LEMMA UnskippedStep == TypeOK /\ Unskipped /\ [Next]_vars => Unskipped'
<1> SUFFICES ASSUME TypeOK, Unskipped, [Next]_vars PROVE Unskipped'
  OBVIOUS
<1>1. CASE UNCHANGED <<pc, logs, scanned, handled, failed>>
  BY <1>1 DEF Unskipped, EventIn, LogsOf
<1>2. CASE QueryLogs
  <2> DEFINE n == toBlock - fromBlock + 1
  <2>1. /\ logs = <<>> /\ pc' = "handling" /\ UNCHANGED <<handled, failed>>
        /\ logs' = [j \in 1..n |-> Event(fromBlock + j - 1)]
        /\ \A b \in Block : scanned'[b] = IF b \in fromBlock..toBlock THEN scanned[b] + 1 ELSE scanned[b]
    BY <1>2 DEF QueryLogs, Unskipped
  <2>2. fromBlock \in Nat /\ toBlock \in Nat /\ Block \subseteq Nat
    BY ScanAssumption DEF TypeOK, Block
  <2>3. ASSUME NEW b \in fromBlock..toBlock PROVE EventIn(b, LogsOf(logs'))
    <3>1. b - fromBlock + 1 \in 1..n /\ n \in Nat /\ fromBlock + (b - fromBlock + 1) - 1 = b
      BY <2>2
    <3>2. Len(logs') = n
      <4> HIDE DEF n
      <4> QED
        BY <2>1, <3>1
    <3>3. logs'[b - fromBlock + 1] = Event(b)
      BY <2>1, <3>1
    <3>4. Event(b) \in LogsOf(logs')
      BY <3>1, <3>2, <3>3 DEF LogsOf
    <3> QED
      BY <3>4 DEF EventIn, Event
  <2>4. LogsOf(logs) = {}
    BY <2>1 DEF LogsOf
  <2>5. ASSUME NEW b \in Block, scanned'[b] > 0
        PROVE  EventIn(b, handled \cup failed \cup LogsOf(logs'))
    <3>1. CASE b \in fromBlock..toBlock
      BY <2>3, <3>1 DEF EventIn
    <3>2. CASE b \notin fromBlock..toBlock
      <4>1. EventIn(b, handled \cup failed \cup LogsOf(logs))
        BY <2>1, <2>5, <3>2 DEF Unskipped
      <4> QED
        BY <2>4, <4>1 DEF EventIn
    <3> QED
      BY <3>1, <3>2
  <2> QED
    BY <2>1, <2>5 DEF Unskipped
<1>3. CASE HandleEvent
  <2>1. /\ pc = "handling" /\ logs # <<>> /\ logs' = Tail(logs) /\ UNCHANGED <<pc, scanned>>
        /\ handled' \cup failed' = handled \cup failed \cup {Head(logs)}
    BY <1>3 DEF HandleEvent, LogsAfterFailure
  <2>2. LogsOf(logs) \subseteq {Head(logs)} \cup LogsOf(Tail(logs))
    <3> SUFFICES ASSUME NEW j \in 1..Len(logs) PROVE logs[j] \in {Head(logs)} \cup LogsOf(Tail(logs))
      BY DEF LogsOf
    <3>1. logs \in Seq(Events)
      BY DEF TypeOK
    <3>2. Head(logs) = logs[1] /\ Len(Tail(logs)) = Len(logs) - 1
          /\ \A i \in 1..(Len(logs) - 1) : Tail(logs)[i] = logs[i + 1]
      BY <2>1, <3>1
    <3>3. CASE j # 1
      <4>1. j - 1 \in 1..(Len(logs) - 1) /\ (j - 1) + 1 = j
        BY <3>1, <3>3
      <4>2. Tail(logs)[j - 1] = logs[j] /\ j - 1 \in 1..Len(Tail(logs))
        BY <3>2, <4>1
      <4> QED
        BY <4>2 DEF LogsOf
    <3> QED
      BY <3>2, <3>3
  <2>3. handled \cup failed \cup LogsOf(logs) \subseteq handled' \cup failed' \cup LogsOf(logs')
    BY <2>1, <2>2
  <2> QED
    BY <2>1, <2>3 DEF Unskipped, EventIn
<1>4. CASE UNCHANGED <<logs, scanned, handled, failed>> /\ (pc' # "handling" => logs = <<>>)
  BY <1>4 DEF Unskipped, EventIn, LogsOf
<1>5. ASSUME GetStartingBlock \/ Scan \/ EndScan
      PROVE  UNCHANGED <<logs, scanned, handled, failed>> /\ (pc' # "handling" => logs = <<>>)
  BY <1>5 DEF GetStartingBlock, Scan, EndScan, Unskipped
<1>6. ASSUME NewBlock \/ Reorg \/ Monitor \/ RegisterNewPort \/ StatusListener \/ UNCHANGED vars
      PROVE  UNCHANGED <<pc, logs, scanned, handled, failed>>
  BY <1>6 DEF NewBlock, Reorg, Monitor, GetBlock, BroadcastStatus, RegisterNewPort,
              StatusListener, vars, scanner
<1> QED
  BY <1>1, <1>2, <1>3, <1>4, <1>5, <1>6 DEF Next, Scanner

\* A handler that throws costs its own event and no other: each event of a scanned
\* block is stored, has failed itself, or is still among the logs.
THEOREM NoEventIsSkipped == Spec => []NoEventSkipped
<1>1. Init => Unskipped
  BY ScanAssumption DEF Init, Unskipped
<1>2. Unskipped => NoEventSkipped
  BY DEF Unskipped, NoEventSkipped, EventIn, LogsOf
<1> QED
  BY <1>1, <1>2, UnskippedStep, TypeCorrect, PTL DEF Spec

-----------------------------------------------------------------------------
(* The status: what is on the port was broadcast in increasing order, and  *)
(* after what the listener has seen.                                       *)

Increasing ==
    /\ \A j \in DOMAIN port : port[j] <= lastBroadcast
    /\ \A j, k \in DOMAIN port : j < k => port[j] < port[k]
    /\ currentStatus # NoBlock =>
          currentStatus <= lastBroadcast /\ \A j \in DOMAIN port : currentStatus < port[j]

LEMMA IncreasingStep == TypeOK /\ Increasing /\ [Next]_vars => Increasing'
<1> SUFFICES ASSUME TypeOK, Increasing, [Next]_vars PROVE Increasing'
  OBVIOUS
<1>t. /\ port \in Seq(Block) /\ lastBroadcast \in Int /\ Block \subseteq Int
      /\ currentStatus \in Block \cup {NoBlock} /\ answer \in Block \cup {NoBlock}
      /\ \A j \in DOMAIN port : port[j] \in Int
  <2>1. /\ port \in Seq(Block) /\ lastBroadcast \in Block \cup {-1}
        /\ currentStatus \in Block \cup {NoBlock} /\ answer \in Block \cup {NoBlock}
    BY DEF TypeOK
  <2>2. Block \subseteq Int
    BY DEF Block
  <2>3. \A j \in DOMAIN port : port[j] \in Block
    BY <2>1
  <2>4. lastBroadcast \in Int
    BY <2>1, <2>2
  <2>5. \A j \in DOMAIN port : port[j] \in Int
    BY <2>2, <2>3, Zenon
  <2> QED
    BY <2>1, <2>2, <2>4, <2>5
<1>1. CASE UNCHANGED <<port, lastBroadcast, currentStatus>>
  BY <1>1 DEF Increasing
<1>2. CASE BroadcastStatus
  <2>1. answer \in Block /\ answer \in Int /\ UNCHANGED currentStatus
    BY <1>2, <1>t DEF BroadcastStatus
  <2>2. CASE ~IsNew(answer)
    BY <1>1, <1>2, <2>1, <2>2 DEF BroadcastStatus
  <2>3. CASE IsNew(answer)
    <3>1. /\ lastBroadcast' = answer /\ answer > lastBroadcast
          /\ port' = IF attached THEN Append(port, answer) ELSE port
      BY <1>2, <2>3 DEF BroadcastStatus, IsNew
    <3>2. \A j \in DOMAIN port : port[j] < answer
      BY <1>t, <2>1, <3>1 DEF Increasing
    <3>3. currentStatus # NoBlock => currentStatus < answer
      BY <1>t, <2>1, <3>1 DEF Increasing
    <3>4. CASE port' = port
      BY <1>t, <2>1, <3>1, <3>2, <3>3, <3>4 DEF Increasing
    <3>5. CASE port' = Append(port, answer)
      <4>1. /\ Len(port) \in Nat /\ DOMAIN port = 1..Len(port) /\ DOMAIN port' = 1..(Len(port) + 1)
            /\ \A j \in 1..Len(port) : port'[j] = port[j]
            /\ port'[Len(port) + 1] = answer
        BY <1>t, <2>1, <3>5
      <4>2. \A j \in DOMAIN port' : (j \in DOMAIN port /\ port'[j] = port[j]) \/ port'[j] = answer
        BY <4>1
      <4>3. \A j \in DOMAIN port' : port'[j] <= lastBroadcast'
        BY <1>t, <2>1, <3>1, <3>2, <4>2
      <4>4. \A j, k \in DOMAIN port' : j < k => port'[j] < port'[k]
        <5> SUFFICES ASSUME NEW j \in DOMAIN port', NEW k \in DOMAIN port', j < k
                     PROVE  port'[j] < port'[k]
          OBVIOUS
        <5>1. j \in DOMAIN port /\ port'[j] = port[j]
          BY <4>1
        <5>2. CASE k \in DOMAIN port
          BY <4>1, <5>1, <5>2 DEF Increasing
        <5>3. CASE k = Len(port) + 1
          BY <3>2, <4>1, <5>1, <5>3
        <5> QED
          BY <4>1, <5>2, <5>3
      <4>5. currentStatus' # NoBlock =>
              currentStatus' <= lastBroadcast' /\ \A j \in DOMAIN port' : currentStatus' < port'[j]
        <5> SUFFICES ASSUME currentStatus # NoBlock
                     PROVE  currentStatus <= answer /\ \A j \in DOMAIN port' : currentStatus < port'[j]
          BY <2>1, <3>1
        <5>1. \A j \in DOMAIN port : currentStatus < port[j]
          BY DEF Increasing
        <5>2. currentStatus \in Int /\ currentStatus < answer
          BY <1>t, <3>3
        <5> QED
          BY <2>1, <4>2, <5>1, <5>2
      <4> QED
        BY <4>3, <4>4, <4>5 DEF Increasing
    <3> QED
      BY <3>1, <3>4, <3>5
  <2> QED
    BY <2>2, <2>3
<1>3. CASE StatusListener
  <2>1. port # <<>> /\ currentStatus' = Head(port) /\ port' = Tail(port) /\ UNCHANGED lastBroadcast
    BY <1>3 DEF StatusListener, monitor
  <2>2. /\ Len(port) \in Nat /\ Len(port) > 0 /\ DOMAIN port = 1..Len(port)
        /\ currentStatus' = port[1] /\ DOMAIN port' = 1..(Len(port) - 1)
        /\ \A j \in 1..(Len(port) - 1) : port'[j] = port[j + 1]
    BY <1>t, <2>1
  <2>3. \A j \in DOMAIN port' : j + 1 \in DOMAIN port /\ port'[j] = port[j + 1] /\ 1 < j + 1
    BY <2>2
  <2>4. 1 \in DOMAIN port
    BY <2>2
  <2>5. currentStatus' <= lastBroadcast' /\ \A j \in DOMAIN port' : currentStatus' < port'[j]
    BY <2>1, <2>2, <2>3, <2>4 DEF Increasing
  <2>6. \A j, k \in DOMAIN port' : j < k => port'[j] < port'[k]
    BY <2>2, <2>3 DEF Increasing
  <2>7. \A j \in DOMAIN port' : port'[j] <= lastBroadcast'
    BY <2>1, <2>3 DEF Increasing
  <2> QED
    BY <2>5, <2>6, <2>7 DEF Increasing
<1>4. ASSUME NewBlock \/ Reorg \/ GetBlock \/ RegisterNewPort \/ Scanner \/ UNCHANGED vars
      PROVE  UNCHANGED <<port, lastBroadcast, currentStatus>>
  BY <1>4 DEF NewBlock, Reorg, GetBlock, RegisterNewPort, Scanner, GetStartingBlock, Scan,
              QueryLogs, HandleEvent, EndScan, monitor, vars
<1> QED
  BY <1>1, <1>2, <1>3, <1>4 DEF Next, Monitor

\* The status of a listener never goes back, whichever node answers the monitor.
THEOREM StatusNeverFalls == Spec => StatusIncreases
<1>1. Init => Increasing
  BY DEF Init, Increasing
<1>2. TypeOK /\ Increasing /\ [Next]_vars
      => [currentStatus # NoBlock => currentStatus' = currentStatus \/ currentStatus' > currentStatus]_vars
  <2> SUFFICES ASSUME TypeOK, Increasing, Next, currentStatus # NoBlock
               PROVE  currentStatus' = currentStatus \/ currentStatus' > currentStatus
    OBVIOUS
  <2>1. CASE StatusListener
    <3>1. /\ port \in Seq(Block) /\ port # <<>> /\ currentStatus' = Head(port)
          /\ currentStatus \in Int /\ Block \subseteq Int
      BY <2>1 DEF StatusListener, TypeOK, Block
    <3>2. currentStatus' = port[1] /\ 1 \in DOMAIN port /\ port[1] \in Block
      BY <3>1
    <3>3. port[1] \in Int
      BY <3>1, <3>2
    <3> QED
      BY <3>1, <3>2, <3>3 DEF Increasing
  <2>2. CASE ~StatusListener
    BY <2>2 DEF Next, NewBlock, Reorg, Monitor, GetBlock, BroadcastStatus, RegisterNewPort, Scanner,
                GetStartingBlock, Scan, QueryLogs, HandleEvent, EndScan
  <2> QED
    BY <2>1, <2>2
<1> QED
  BY <1>1, <1>2, IncreasingStep, TypeCorrect, PTL DEF Spec, StatusIncreases
=============================================================================
