------------------------------- MODULE BlockScan -------------------------------
(***************************************************************************)
(* The monitor worker, which polls a chain for new blocks, and a worker    *)
(* that scans the chain for events behind it (the getter and the mock      *)
(* collector run the same loop). The chain grows and reorganises; every    *)
(* block holds one event, told apart by the block's version. Timers and    *)
(* failed RPC calls, after which the code tries again, are stuttering.     *)
(***************************************************************************)
EXTENDS Integers, Sequences

CONSTANTS
    MaxHead,        \* bound: the chain's height
    MaxReorgs,      \* bound: how many reorganisations happen
    ReorgDepth,     \* how many blocks a reorganisation replaces at most
    NodeLag,        \* how many blocks the node that answers getBlock may be behind
    BlockDelay,     \* blockDelay of the monitor
    StartingBlock,  \* startingBlock: a block, a negative offset, or NoBlock
    StoppingBlock,  \* stoppingBlock (Infinity: any value above MaxHead)
    MaxBlocks,      \* maxBlocks
    NoBlock         \* null

ASSUME ScanAssumption ==
    /\ MaxHead \in Nat /\ MaxReorgs \in Nat /\ ReorgDepth \in Nat /\ NodeLag \in Nat
    /\ BlockDelay \in Nat /\ StoppingBlock \in Nat
    /\ MaxBlocks \in Nat \ {0}
    /\ StartingBlock \in Int \cup {NoBlock}
    /\ NoBlock \notin Int

Block == 0..MaxHead

VARIABLES
    head,           \* the chain's latest block
    version,        \* how often each block has been replaced
    reorgs,         \* reorganisations so far
    answer,         \* the block getBlock returned to the monitor
    lastBroadcast,  \* lastBroadcastBlockNumber
    attached,       \* the scanner's port is registered with the monitor
    port,           \* status messages on their way to the scanner
    currentStatus,  \* currentStatus.blockNumber, or NoBlock
    pc,             \* where the scanner's run() is
    fromBlock, toBlock,
    logs,           \* events returned by getLogs and not handled yet
    first,          \* the first block scanned
    scanned,        \* how often a successful getLogs has covered each block
    handled,        \* events stored
    failed          \* events whose handler threw: logged and dropped

chain == <<head, version, reorgs>>
monitor == <<answer, lastBroadcast>>
scanner == <<pc, fromBlock, toBlock, logs, first, scanned, handled, failed>>
vars == <<chain, monitor, attached, port, currentStatus, scanner>>

Event(b) == [block |-> b, version |-> version[b]]

Init ==
    /\ head = 0 /\ version = [b \in Block |-> 0] /\ reorgs = 0
    /\ answer = NoBlock /\ lastBroadcast = -1
    /\ attached = FALSE /\ port = <<>> /\ currentStatus = NoBlock
    /\ pc = "starting"
    /\ fromBlock = 0 /\ toBlock = 0 /\ logs = <<>> /\ first = 0
    /\ scanned = [b \in Block |-> 0]
    /\ handled = {} /\ failed = {}

-----------------------------------------------------------------------------
(* The chain                                                               *)

NewBlock ==
    /\ head < MaxHead
    /\ head' = head + 1
    /\ UNCHANGED <<version, reorgs, monitor, attached, port, currentStatus, scanner>>

Reorg ==
    /\ reorgs < MaxReorgs
    /\ reorgs' = reorgs + 1
    /\ \E d \in 1..ReorgDepth :
        version' = [b \in Block |-> IF head - d < b /\ b <= head THEN version[b] + 1 ELSE version[b]]
    /\ UNCHANGED <<head, monitor, attached, port, currentStatus, scanner>>

-----------------------------------------------------------------------------
(* The monitor worker                                                      *)

\* Mutant: the delay is not applied.
DelayedUndelayed(h) == h

\* getBlock(-blockDelay)
Delayed(h) == h - BlockDelay

GetBlock ==
    /\ answer = NoBlock
    /\ \E lag \in 0..NodeLag :
        /\ Delayed(head - lag) >= 0
        /\ answer' = Delayed(head - lag)
    /\ UNCHANGED <<chain, lastBroadcast, attached, port, currentStatus, scanner>>

\* Mutant: a block already broadcast counts as new when it differs from the last one.
IsNewDifferent(b) == b # lastBroadcast

IsNew(b) == b > lastBroadcast

BroadcastStatus ==
    /\ answer # NoBlock
    /\ answer' = NoBlock
    /\ IF IsNew(answer)
       THEN /\ lastBroadcast' = answer
            /\ port' = IF attached THEN Append(port, answer) ELSE port
       ELSE UNCHANGED <<lastBroadcast, port>>
    /\ UNCHANGED <<chain, attached, currentStatus, scanner>>

\* registerNewPort: earlier statuses are not sent again.
RegisterNewPort ==
    /\ ~attached
    /\ attached' = TRUE
    /\ UNCHANGED <<chain, monitor, port, currentStatus, scanner>>

-----------------------------------------------------------------------------
(* The scanning worker                                                     *)

StatusListener ==
    /\ port # <<>>
    /\ currentStatus' = Head(port)
    /\ port' = Tail(port)
    /\ UNCHANGED <<chain, monitor, attached, scanner>>

StartFrom ==
    CASE StartingBlock = NoBlock -> currentStatus
      [] StartingBlock # NoBlock /\ StartingBlock < 0 -> currentStatus + StartingBlock
      [] OTHER -> StartingBlock

GetStartingBlock ==
    /\ pc = "starting"
    /\ currentStatus # NoBlock
    /\ IF StartFrom < 0
       THEN pc' = "crashed" /\ UNCHANGED <<fromBlock, first>>
       ELSE pc' = "waiting" /\ fromBlock' = StartFrom /\ first' = StartFrom
    /\ UNCHANGED <<chain, monitor, attached, port, currentStatus,
                   toBlock, logs, scanned, handled, failed>>

\* Mutant: the newest block waits for the next one.
NothingToScanAtHead == currentStatus \in {NoBlock, 0} \/ fromBlock >= currentStatus

\* !toBlock || fromBlock > toBlock: block 0 counts as no status.
NothingToScan == currentStatus \in {NoBlock, 0} \/ fromBlock > currentStatus

\* The last block of the next query.
QueryTo ==
    LET target == IF currentStatus > StoppingBlock THEN StoppingBlock ELSE currentStatus
    IN  IF target - fromBlock > MaxBlocks THEN fromBlock + MaxBlocks ELSE target

Scan ==
    /\ pc = "waiting"
    /\ ~NothingToScan
    /\ toBlock' = QueryTo
    /\ pc' = "querying"
    /\ UNCHANGED <<chain, monitor, attached, port, currentStatus,
                   fromBlock, logs, first, scanned, handled, failed>>

\* getLogs succeeds, at last.
QueryLogs ==
    /\ pc = "querying"
    /\ logs' = [j \in 1..(toBlock - fromBlock + 1) |-> Event(fromBlock + j - 1)]
    /\ scanned' = [b \in Block |-> IF b \in fromBlock..toBlock THEN scanned[b] + 1 ELSE scanned[b]]
    /\ pc' = "handling"
    /\ UNCHANGED <<chain, monitor, attached, port, currentStatus,
                   fromBlock, toBlock, first, handled, failed>>

\* Mutant: a handler that throws ends the loop over the logs.
LogsAfterFailureNone == <<>>

LogsAfterFailure == Tail(logs)

HandleEvent ==
    /\ pc = "handling" /\ logs # <<>>
    /\ \/ /\ handled' = handled \cup {Head(logs)}
          /\ logs' = Tail(logs)
          /\ UNCHANGED failed
       \/ /\ failed' = failed \cup {Head(logs)}
          /\ logs' = LogsAfterFailure
          /\ UNCHANGED handled
    /\ UNCHANGED <<chain, monitor, attached, port, currentStatus,
                   pc, fromBlock, toBlock, first, scanned>>

\* Mutant: the next query starts with the last block of this one.
NextFromOverlap == toBlock

NextFrom == toBlock + 1

EndScan ==
    /\ pc = "handling" /\ logs = <<>>
    /\ IF toBlock >= StoppingBlock
       THEN pc' = "exited" /\ UNCHANGED fromBlock
       ELSE pc' = "waiting" /\ fromBlock' = NextFrom
    /\ UNCHANGED <<chain, monitor, attached, port, currentStatus,
                   toBlock, logs, first, scanned, handled, failed>>

-----------------------------------------------------------------------------
Monitor == GetBlock \/ BroadcastStatus
Scanner == GetStartingBlock \/ Scan \/ QueryLogs \/ HandleEvent \/ EndScan

Next == NewBlock \/ Reorg \/ Monitor \/ RegisterNewPort \/ StatusListener \/ Scanner

Spec == Init /\ [][Next]_vars

(* Both loops never end and repeat a failing RPC call; messages arrive.    *)
Fairness == WF_vars(Monitor) /\ WF_vars(StatusListener) /\ WF_vars(Scanner)

FairSpec == Spec /\ Fairness

-----------------------------------------------------------------------------
Events == [block : Block, version : 0..MaxReorgs]

TypeOK ==
    /\ head \in Block /\ version \in [Block -> 0..MaxReorgs] /\ reorgs \in 0..MaxReorgs
    /\ answer \in Block \cup {NoBlock} /\ lastBroadcast \in Block \cup {-1}
    /\ attached \in BOOLEAN /\ port \in Seq(Block) /\ currentStatus \in Block \cup {NoBlock}
    /\ pc \in {"starting", "waiting", "querying", "handling", "exited", "crashed"}
    /\ fromBlock \in Nat /\ first \in Nat /\ toBlock \in 0..MaxHead
    /\ logs \in Seq(Events)
    /\ scanned \in [Block -> Nat]
    /\ handled \subseteq Events /\ failed \subseteq Events

\* The last block that getLogs has covered.
LastScanned == IF pc \in {"handling", "exited"} THEN toBlock ELSE fromBlock - 1

\* Whatever the pace of the monitor, the chunks of maxBlocks, the clipping at
\* stoppingBlock: the scanned blocks are an interval that starts at the starting
\* block, with no gap, and no block of it is scanned twice.
ScannedOnceWithoutGap ==
    \A b \in Block :
        scanned[b] = IF pc # "starting" /\ first <= b /\ b <= LastScanned THEN 1 ELSE 0

\* The scanner stays blockDelay blocks behind the chain and does not pass stoppingBlock.
StaysBehind ==
    \A b \in Block : scanned[b] > 0 => b <= head - BlockDelay /\ b <= StoppingBlock

\* When a reorganisation replaces no more than blockDelay blocks, every event handed
\* to the store stays on the chain: no relay is evaluated for a vanished bounty.
HandledEventsAreFinal ==
    \A e \in handled : version[e.block] = e.version

\* One event whose handler throws costs no other event: each event of a scanned
\* block is stored, has failed itself, or is still to be handled.
NoEventSkipped ==
    \A b \in Block : scanned[b] > 0 =>
        \E e \in handled \cup failed \cup {logs[j] : j \in 1..Len(logs)} : e.block = b

\* Listeners see block numbers that increase, though the node's answers may not.
StatusIncreases ==
    [][currentStatus # NoBlock => currentStatus' = currentStatus \/ currentStatus' > currentStatus]_vars

\* A block the scanner has been told of is scanned and its event handled, down to
\* the newest one, though no other block may follow it.
EveryBlockHandled ==
    \A b \in Block :
        /\ pc \notin {"starting", "crashed"} /\ first <= b /\ b <= StoppingBlock
        /\ currentStatus # NoBlock /\ currentStatus > 0 /\ currentStatus >= b
        ~> \E e \in handled \cup failed : e.block = b

\* "Do not process more than 'maxBlocks' within a single rpc call."
QueryWithinMaxBlocks == pc = "querying" => toBlock - fromBlock + 1 <= MaxBlocks
=============================================================================
