# A verification development of the Generalised Relayer

This directory holds TLA+ models of the relayer in `src/`, the TLC configurations that check them,
and proofs about them for TLAPS. File references are to the repository (`src/src/...` is its
TypeScript source). The program has no tests of its own; its README, the comments in the code and
`config.example.yaml` are what it promises.

1. [The system](#the-system)
2. [Modules](#modules)
3. [Runs](#runs)
4. [Proofs](#proofs)
5. [What the models leave out](#what-the-models-leave-out)
6. [Plan](#plan)

## The system

The relayer carries cross-chain messages for a bounty. Collectors and getters watch the chains and
write what they see to redis; a proof that appears there makes the submitter of its destination chain
evaluate the relay and hand a transaction to the chain's wallet. Most components run one worker thread
per chain. Workers share nothing but redis (read and write calls that are awaited, and
publish/subscribe channels) and message ports.

| Component | State | Operations | Talks to |
|---|---|---|---|
| Monitor (`monitor/`) | latest block, last block broadcast, ports | poll `getBlock(-blockDelay)`, broadcast, register a port | chain RPC; getters and collectors over ports |
| Getter (`getter/`) | `fromBlock`, current status | scan chunks of blocks with `getLogs`, handle four kinds of events | monitor, store |
| Collectors (`collector/`) | scan position; for LayerZero a list of pending verifications | find messages and proofs of one bridge | monitor, store, bridge APIs |
| Store (`store/store.lib.ts`) | redis: relay states, AMB messages and proofs | read-merge-write of a relay state, set and announce messages and proofs | everybody |
| Persister (`store/persister/`) | a redis list of changed keys | copy changed keys to Postgres | store, Postgres |
| Submitter (`submitter/`) | sorted pending queue, evaluation and submission queues | take orders, evaluate, submit, reevaluate | store, evaluator, wallet |
| Evaluator (`evaluator/`), Pricing (`pricing/`) | cached prices | decide whether a relay pays | store, wallet (fees), price APIs |
| Wallet (`wallet/`) | request queue, submit and confirm queues, nonce | submit, confirm, reprice, requeue, cancel | chain RPC; submitter over ports |
| Processing queue (`processing-queue/`) | new orders, retry queue, result lists, two counters | add, process, settle, retry, collect | base class of four of the queues above |

Interactions, as the code makes them:

- *Calls with awaits.* `updateRelayState` (store.lib.ts:260) reads, merges and writes; between the two
  awaits any other worker may write.
- *Callbacks.* The promise a queue's `handleOrder` returns settles while the queue's owner is
  anywhere in its loop.
- *Messages.* Status messages and wallet requests are ordered per port; nothing acknowledges them.
- *Publications.* Redis publications reach who is subscribed at that moment.

Hard behaviour and what makes each component correct:

| Component | What is hard | What must hold |
|---|---|---|
| Processing queue | additions and settling promises during the loop; a counter decremented in a later microtask; retries | no order lost or handled twice, exact size, bounded concurrency and tries, every order returned |
| Wallet worker | nonces shared with a node that fails, drops, or loses a reply; repricing and cancelling a transaction that may be mined meanwhile; requeue after a confirmation error | one transaction mined per request, nonces in order and without gap, capacity, cancelled means settled, every request answered |
| Wallet service | the worker dies with requests pending while callers continue | each request answered once, none submitted twice |
| Store | concurrent read-merge-write, replayed and reordered events, crash between write and publication | the state is that of all events, never goes back, every change announced; a proof announced once |
| Monitor and getter | reorganisations, lagging nodes, chunks, a handler that throws, start and stop blocks | every block once, no gap, only final events, newest block included |
| Collectors | several writers of one proof, a matching of two event streams | each proof announced, once |
| Submitter | priority orders, capacity shared by three queues, reevaluation until a deadline | bounded pipeline, no order forgotten, none kept after its deadline |
| Persister | pops before it stores | every announced change reaches Postgres |
| Evaluator, pricing | scaled integer arithmetic, stale prices | decisions monotone in bounty and cost; no price older than its duration |

## Modules

`ProcessingQueue` models `processing-queue.ts` at the granularity of its awaits. An order's `stage`
says where it is: being added (`size` raised, `onOrderInit` awaited), in `newQueue`, in the `batch`
of retries `processOrders` is walking over, handled, outstanding as a promise, on its way to a list, or in one of the
three result lists. `i` is how far the loop over `newOrdersQueue` has come; the orders before it are
still in the array until `EndProcessing` splices them off. `owed` are the `_pendingCount--` that
stand behind a `.finally()` and have not run yet. `RetryTimePasses` is the clock: the retry queue is
chronological, so a count of due orders is enough.

`OrderPipeline` is the abstract specification of such a queue: a FIFO backlog, a bounded set of
active orders, a set of outcomes. `ProcessingQueue` implements it with the refinement mapping
`Pipeline` (backlog is the part of `newQueue` beyond `i`).

`WalletWorker` models `wallet.worker.ts`, its two queues and the transaction helper's nonce, with the
chain's view of the account as environment. `pc` follows `run()`: take new requests, submit queue,
collect, confirm queue, collect, handle confirmed, rejected and unconfirmed transactions, and within
the latter the loop of `cancelTransaction` and the stall. The two queues are those of ProcessingQueue at
concurrency one, which the code fixes (`maxConcurrentOrders = 1`), and are folded into `stage`. The node accepts a
transaction at any nonce that is not mined; whether a replacement's fee suffices is left open, so both answers are
explored. The first wait for a transaction may fail at any time with any error (`WaitFails`), whatever has become of the transaction; the code requeues the
request if the error's code is that of a used nonce. `misjudged` is a history variable: the requests of which a wait failed with that error though no other transaction
had used their nonce. `LossySend` lets a submission reach the node although `sendTransaction` throws, `MaxDrops` bounds the transactions the node
forgets, `Externals` what another user of the account sends.

`RelayState` models the record of one relay in the store: `updateRelayState` as a read (`ReadState`),
a merge and write (`WriteState`) and the publication by `set` (`PublishKeyChange`), for any set of
workers with any logs of events. Prices are pairs; `PricesGrow` is the promise of the escrow contract
the code relies on (store.lib.ts:286: if one price rises, the other does not fall). `raced` is a history
variable: a call has overwritten a value that it had not read.

`BlockScan` composes the monitor worker with one scanning worker: the getter, whose loop the mock
collector repeats line by line. The chain grows and reorganises; a block is its number and the
number of times it has been replaced, and holds one event. `scanned` counts the successful queries that
covered a block.

`AMBStore` models what the store keeps of one cross-chain message of an AMB: the message, its entry in the list of its
transaction, its proof, the additional data of its collector. A call of the store is a sequence of redis commands, each
awaited: `at` says which command a worker awaits next, so that the calls of any set of workers interleave command by command,
and any command may fail (`CommandFails`). The submitter's listener is the other end of the proof channel: it hears what is published
while it is `listening`, looks the message up, and makes an order; a rejected lookup is an unhandled rejection and ends its thread. `raced` is
a history variable: a call checked for a proof while another was between its check and its write.

`Collectors` composes the workers of the four AMBs with `AMBStore`, for one message. A handler is a sequence of calls (`Handle`);
one worker handles one event at a time. Wormhole has the message sniffer, the engine that listens to VAAs from the
newest sequence it finds at its start, and the recovery that queries a time range once; each may have read its start before the other.
LayerZero has the scan loop (`PacketSent` and `PayloadVerified` events) and, in the same thread but beside it, the handler of processed
packets with its timer; `pending` is its list of verifications that came too early, with its pruning. The mock collector signs the proof itself, the Polymer one stores messages only.
A restart takes the memory of all threads and finds the event again. `ImplementsStore` is the refinement: collectors touch the store's variables only by its calls.

`WalletPort` is the wallet interface, the port, the wallet service and what a worker holds, in as much as a submitter can see of them:
requests and answers with message ids, the end of a worker, and the broadcast that tells all callers of it. `Submitter` composes it with the
submitter's loop. `place` says which queue an order is in, `stage` what it does there; the evaluation and submission queues are
represented by what OrderPipeline says of a processing queue. One round of the loop is `ProcessPendingQueue`, `EvaluateOrder` and
`EvaluatorAnswers` for each order, `CollectEvaluated`, `SubmitOrder` for each order, `SubmissionEnds`; the listener (`AddSubmitOrder`), the
priority request, time and the wallet come in between.

`Evaluation` is the arithmetic of the evaluator as operators on integers. `Pricing` is the cache of a pricing provider with two callers: expiry, the
retries of a query, the stale price after the last of them. `Evaluator` composes the two with the relay state as it is read: a delivery and its ack are
evaluated in steps (ask, for an ack the message, gas prices, coin price, decision) while bounty, gas price, coin price and the store change. The gas price is computed from what the
wallet answers (`GetGasPrice`); the gas that a delivery has used is what its chain reports in the ack's payload (`gasSpent`, any of `GasReports`, or unknown), apart from the
estimate; an ack may pay for gas that the contract does not observe, and fees. `TransactionHelper` models the fees
and the balance of `transaction-helper.ts`, for legacy and EIP-1559 networks, around one transaction of the worker at a time: submitted, repriced (again, if the call threw although the node
took it), cancelled in several tries, mined with success, reverted or as the cancellation, and then registered or not. `fees` are those of the original, `held` what the node has for its nonce, `offer` the
latest replacement; `unregistered` is a history variable, what was spent since the balance was looked up and not registered. Which outcome is registered is left open where the code decides by
more than the model has (a wait that failed, a cancellation that found its nonce used); a transaction that reverted is never registered. A refused or unanswered reprice costs a try as in the code; the tries of one that is
repriced, which only delay its cancellation, are not counted. Nonces and queues are in WalletWorker.

The `MC...` modules and their `.cfg` files give the constants values; the `...Proofs` modules hold
the theorems. A definition whose comment starts with *Mutant* is a plausible mistake in the
definition that follows it, used to check that a property notices it; no specification uses it.

| Code | Module |
|---|---|
| `processing-queue.ts` | ProcessingQueue, OrderPipeline |
| `wallet.worker.ts`, `wallet/queues/*`, nonce part of `transaction-helper.ts` | WalletWorker |
| `updateRelayState`, `set` and the five setters in `store.lib.ts`; the getter's event handlers | RelayState |
| messages, proofs and additional data in `store.lib.ts`; the submitter's listener | AMBStore |
| `collector/wormhole`, `collector/layer-zero`, `collector/polymer`, `collector/mock`; `store.controller.ts` | Collectors |
| `wallet.interface.ts`, `wallet.service.ts` | WalletPort |
| `submitter.worker.ts`, `eval-queue.ts`, `submit-queue.ts` of the submitter | Submitter |
| `evaluator.worker.ts` | Evaluation (arithmetic), Evaluator |
| `pricing.provider.ts`, `pricing.worker.ts` | Pricing |
| fees and balance of `transaction-helper.ts` | TransactionHelper |
| `monitor.worker.ts`, `run`, `getStartingBlock`, `queryLogs` of `getter.worker.ts` and `mock.worker.ts` | BlockScan |

## Runs

| Run | Question | Bounds |
|---|---|---|
| `queue` | counters, tries, no order lost; the queue implements OrderPipeline; every order is returned | 3 orders that may come again after being collected, 2 tries, 2 at a time |
| `wallet` | capacity, nonce order, no nonce gap | 3 requests, 3 tries, capacity 2, 3 nonces, lost replies |
| `wallet_live` | one mined transaction per request, also of one requeued because its nonce was taken; cancelled means settled; every request is answered | 2 requests, 3 tries, capacity 2, 2 nonces, lost replies, 1 transaction forgotten by the node, 1 foreign transaction |
| `wallet_reprice` | **violated**: a failed reprice keeps waiting for the original | 1 request, 3 tries |
| `relay` | the state is that of all events, the status never goes back, each written state is announced | 6 events in 3 logs, 2 restarts (replaying all, or all but two events), 1 failed call |
| `relay_price` | **violated**: prices only grow | the same logs, no restart, no failure |
| `scan` | no gap, no overlap, finality, no event lost with another's failure, increasing status, every announced block handled | height 6, 1 reorganisation of depth up to 2, delay 2, node one block late, start one block back, stop at 3, `maxBlocks` 1 |
| `scan_maxblocks` | **violated**: a query covers at most `maxBlocks` blocks | height 4, `maxBlocks` 2 |
| `collect` | a proof is announced once unless two checks met, only of a verified packet; an order knows its message; a priority is kept; no VAA falls between engine and recovery if the engine was first; a provable message becomes an order; the collectors implement AMBStore | one message of each AMB, 2 attestations for LayerZero, 1 failed command, 1 restart |
| `collect_twice` | **violated**: a proof is announced once | no failure, no restart |
| `submit` | room for ordinary orders, order of the pending queue, at most one unreported transaction per order, no promise forgotten when the wallet worker ends, priority honoured, every order settled | 2 orders, 1 place, 2 tries, 1 priority, 1 crash; clock 0..1, delay 0, retry interval and evaluation time 1 |
| `evaluate` | the loss assumed for an ack is the worst one; no undefined gas price is used; the ack of a profitable delivery is refused for four reasons only; prices in time; a replacement offers no less than its transaction, a low balance is noticed, the balance kept is wrong by what was not registered only | bounties with ack gas prices 0 to 2, gas prices 1, 3 and unknown, coin prices 1 and 2, reported gas 1 to 3 or unknown, at most 1 gas unobserved, ack fees 0 and 2; or 2 failed queries and 2 tries; 3 networks, factor 1.5, 2 tries, value up to 1, balance up to 3, warning at 2 |

*Why the bounds suffice.* Queue: three orders let one be handled, one wait and one be added; two tries
give a retry and a last try (the theorems cover any number); two at a time is the least where a promise and an awaited
order coexist. Wallet: two requests are needed for an order of nonces and for one to be waited for while the next is
submitted, the third for capacity; two tries give a reprice and requeues, the third waits again after a reprice. In `wallet_live` a request
whose transaction was forgotten loses its nonce to the foreign one and is mined at the next nonce; any request may be requeued for an error while its nonce is its own. Where the nonces of a run are used up the model
can submit no more, though requests are still answered; neither run checks for deadlock, as a worker whose requests are all answered or whose nonces are used up has nothing left that changes its state, and
a wallet may stall for ever. Relay: the logs hold each kind of event, and two increases, so that an
old price can meet a new one. Scan: the blocks from start to stop are up to two full chunks (of `maxBlocks` + 1), and the chain grows past the stop.
Collect: one restart takes each window between two commands once, and the replay after it meets what is stored; two attestations let an event come before
the packet is verifiable, and one before the message is known; the properties are about one message, and messages share nothing in the store. Submit: two
orders for one place let one wait for room while the other, with priority, goes past it; a clock of two instants lets an order be due at once or later and lets it expire or not;
one crash finds requests on their way, held and sent, and answers on theirs. Evaluate: with gas prices below, at and above the rewards both extremes of
`calcMaxGasLoss` are the worst one, and deliveries and acks are both relayed and dropped; reports below, at and above the gas rewarded make each of the four reasons of `SecuredDeliveryAcked` the only one (TLC finds a violation
if any of them is left out); what is asked of the cache under failures does not depend on bounties. So MCEvaluator has three kinds of behaviour, chosen at the start: the evaluator with all bounties, reports and costs and no failed query; the evaluator with one bounty and failed queries;
and the transaction helper, which shares nothing with it. For the helper, a fee of 1 is one that the factor 1.5 does not raise; two tries let a reprice
be made, refused or unanswered, and a cancellation be made twice; a balance of 3 crosses the warning at 2 by gas and by value. The theorems cover any values.
Logs that end are real ends, so the relay runs do not check for deadlock; nor do `collect` and `submit`, where a handled message or a settled order leaves nothing to do, and
a submitter whose evaluator has ended waits for ever. Smaller and larger values of the constants
that TLC does not reach are the business of the proofs.

*Fairness.* `ProcessingQueue!Fairness`: the owner's `while (true)` loops run on, handlers end (their RPC calls and
`tx.wait` have timeouts), timers and microtasks run. `WalletWorker!Fairness`: the same loop, and the chain mines the
account's next nonce while it holds a transaction for it; without it a stalled wallet waits for ever, as the code intends.
`RelayState!FairSpec`: each worker goes on with its calls and events; that redis answers is stated in `ChangesAnnounced` (no call has failed). `BlockScan!Fairness`:
both loops repeat a failing RPC call for ever, and port messages arrive; nothing makes the chain grow.
`Collectors!Fairness`: loops and handlers go on and redis answers (a bounded number of commands fails); nothing makes the chain emit or attest. `Submitter!Fairness`: time passes,
the loop goes on once what it awaits has answered, the evaluator answers while it runs (nothing makes it run: there is no timeout, and `OrdersSettle` names the exception), the wallet
answers each request (that is `EveryRequestAnswered` of WalletWorker), ports deliver; nothing makes orders come, or a thread end.

*What the violated runs show.*

- `wallet_reprice`: `ConfirmQueue.handleOrder` decides by `txReplacement` whether to reprice or to wait. When the
  reprice itself throws, `txReplacement` is unset, so each retry reprices again (confirm-queue.ts:65) and never
  waits for the original, though the comments at lines 184 to 193 say it keeps waiting. If the original was mined in the
  meantime, the tries run out on `NONCE_EXPIRED` and the successful request is answered *Transaction cancelled*.
- `relay_price`: the getter and the submitter (which registers the delivery cost) update one state at once. The later
  write wins, and a registered price increase disappears, against the comment at store.lib.ts:282.
- `scan_maxblocks`: the range of `getLogs` is inclusive and `toBlock = fromBlock + maxBlocks`, so a full chunk has
  `maxBlocks + 1` blocks; mock.worker.ts:167 and config.example.yaml:21 say at most `maxBlocks`.
- `collect_twice`: the check and the write of `setAMBProof` are two awaits. The Wormhole engine and recovery (or the LayerZero loop and
  its handler of processed packets) both find no proof, and both announce one: two orders of one relay, which store.lib.ts:589 is there to prevent.

*What else the runs show.* `MinedOnce` excepts the requests in `misjudged`: `handleRejectedTransactions` requeues by the error's code alone (wallet.worker.ts:378-384, confirm-queue.ts:153-159), so if a node
names the nonce in an error for a transaction that is still pending, or was mined, the request is submitted again with a new nonce and both transactions may be mined. TLC finds that at once if the exception is taken out. That nodes make no such error
is what the code relies on, and its TODO there asks. `EveryRequestAnswered` excepts a wallet that stalls for ever, and says when: the node has forgotten the transaction, and the stall loop only waits for its nonce (wallet.worker.ts:474-496).
`SecuredDeliveryAcked` names its reasons: a relayer that delivered for profit refuses the ack also at the same gas price if the chain reports less gas for the delivery than was estimated, or if the ack has fees or unobserved gas, for which the delivery's evaluation makes no allowance.
`ReplacementOutbids` is about the original: small fees are not raised at all (1 times 1.5 is 1 in integers), and of an earlier replacement it claims nothing. The fees of each reprice and cancellation are computed from the original's (confirm-queue.ts:72, wallet.worker.ts:447), so after a reprice that threw though the
node took it, or in a cancellation after a reprice, the same may be offered again; in the model, as at a node, that is refused (`Outbids`) and costs a try. `BalanceNotOverestimated` is true with `unregistered` only: values, reverted transactions (wallet.worker.ts:360-408) and those mined before their cancellation
are not taken off, nor do they count towards `balanceUpdateInterval`, so an account may fall below the warning that way and `LowBalanceNoticed`, which is about the balance as it is kept, says nothing of it. `ProvedBecomesOrder` names its exceptions, each of which TLC finds if it is taken out: a failed command in a handler (its event is not
looked at again), a VAA the engine takes for old while the recovery has fixed an earlier range, and a proof stored or published while no submitter listens, which no replay announces again
(store.lib.ts:587 returns). `PriorityKept` holds only while the message is not collected a second time: `setAMBMessage` overwrites. `OrdersKnowMessage` does not hold for
Wormhole, whose VAA may come before the sniffer has the message. `SentAgainOnlyAfterFailure` counts what the submitter was told: after a crash of the wallet worker a transaction that was sent, or is sent
by the next worker because its request was still on the port, is sent a second time by the retry. `CapacityForOthers` is about orders that waited: priority orders come on top of `maxPendingTransactions`.

## Proofs

All theorems hold for every value of the constants that the modules' assumptions admit: any number of orders, requests, tries, blocks, crashes and
restarts. The bounds that make the runs finite (`MaxNonce`, `MaxTime`, `MaxHead`, ...) are constants as well, and stay arbitrary. Each module below first shows an
invariant `IInv` (under the name given) to hold initially and to be kept by every step, with one lemma or step per action, and concludes the properties from it. The
invariants were checked by TLC on the constants of the runs before they were proved.

| Module | Safety properties of runs | Type invariant | Action property, refinement |
|---|---|---|---|
| `ProcessingQueueProofs` | `OrdersHeldOnce`, `TriesAreBounded`, `SizeIsExact`, `PendingCountIsExact` (and `ConcurrencyIsBounded`) | `TypeCorrect` | `QueueImplementsPipeline` |
| `WalletWorkerProofs` | `CapacitySafe`, `MinedOnceSafe`, `CancelledIsSettledSafe`, `NonceNeverAheadSafe`, `NonceOrderSafe` | `WalletTypeCorrect` | |
| `RelayStateProofs` | `StateIsExact` | `TypeCorrect` | `StatusIsMonotone` |
| `BlockScanProofs` | `ScanHasNoGap`, `HandledIsFinal`, `NoEventIsSkipped` (and `ScanStaysBehind`) | `TypeCorrect` | `StatusNeverFalls` |
| `CollectorsProofs` | `AnnouncedOnceSafe`, `CollectorsAnnounceOnce`, `OrdersKnowMessageSafe`, `ProofOnlyIfVerifiableSafe`, `VAAMissedOnlyIfRecoveryFirstSafe`, `PriorityKeptSafe` | `StoreTypeCorrect`, `CollectorsTypeCorrect` | `CollectorsImplementStore` |
| `SubmitterProofs` | `NoPromiseForgottenSafe`, `CapacityForOthersSafe`, `PendingQueueInOrderSafe`, `SentAgainOnlyAfterFailureSafe` | `SubmitterTypeCorrect` | `PriorityNotUnprofitableSafe` |
| `EvaluatorProofs` | `MaxGasLossIsWorstSafe`, `SecuredDeliveryAckedSafe`, `PriceInTimeSafe` | `EvaluatorTypeCorrect` | |
| `TransactionHelperProofs` | `BalanceNotOverestimatedSafe`, `LowBalanceNoticedSafe`, `ReplacementOutbidsSafe` | | |

### ProcessingQueueProofs

Assumed: a finite set of orders, `MaxTries >= 1`, `MaxConcurrent >= 1`.

- `QueuesHoldOrdersOnce` is not inductive, because nothing in it says that the order handled is the one the
  loop holds. `QueueInv` adds `LoopInv` (outside `processOrders` nothing is held; the order in `cur` is in a stage of handling and
  no other is) and that orders outside or being added are in no queue. From it, `StepMoves` lists how the stage of an order may change in
  one step, and the counters follow by counting the orders that moved: a step moves at most one order into or out of the counted
  set, except `getFinishedOrders` and the start of `processOrders`, where the counted sets are shown to be disjoint unions.
- `QueueImplementsPipeline`: `WaitingStep` says what each step does to the part of `newQueue` beyond `i`. `PushOrder` appends to it (accept), `TakeNew` takes its head (start), and the
  splice of `EndProcessing` leaves it as it is. An order is started while a place is free (`RoomForNew`, from the exact counters, as a retry in the batch is counted nowhere); it finishes when its
  callback puts it on a list; going to the retry queue is a stutter.

### WalletWorkerProofs

Assumed: `MaxTries >= 1`, `MaxPending >= 1`; the node may drop and lose what it likes.

- `TypeInv`: types, the tries left to who waits for a retry, and that the request being cancelled is unconfirmed.
- `QueueInv`: each queue holds each request that waits in it, once; the submit queue works on one request at a time. `CapacityRespected` is inductive only with it, since the capacity is computed from the queues.
- `OrderInv`: a request that was never requeued is not overtaken on its way to its first submission, and sits in the queues in the order it came.
- `NonceInv`: while the node has forgotten nothing, there is no nonce below the worker's that holds no transaction, and the nonce of each request sent is below the worker's. With `OrderInv` it gives `NonceOrder`.
- `MinedInv`: all that is pending or mined for a request that is not `misjudged` is at one nonce; there is none before it is submitted, nor when it is requeued. `MinedOnce` alone says nothing about a transaction still pending, whose mining would break it. A request whose wait
  failed with a nonce error is either misjudged, which is for ever, or its nonce is mined by another transaction, so that nothing of it can be mined at that nonce any more.
- `AnswerInv`: an answer is final; cancelled means that the nonce is mined.

### SubmitterProofs

Assumed: one place and one try at least, `EvaluationRetryInterval >= 1`.

- `StageInv` and `PortInv`: what an order does fits the queue it is in; the ids of the requests on the port and at the wallet are distinct and were given out; and `NoPromiseForgotten`, which is inductive with the
  distinctness only: the answer that is received must be that of the promise it settles.
- `SentInv`: the transactions sent for an order, plus the requests on their way that may still send one, are at most one while its promise is pending or was kept, and none otherwise. A crash of the wallet turns requests on their way
  into promises that fail, which is why `SentAgainOnlyAfterFailure` counts what the submitter was told.
- `CapacityInv` says that the orders in the two inner queues are finitely many, so that those a round takes from the pending queue can be added up. `PendingQueueInOrder` follows from what `Inserted` does: the orders that come, or return from an evaluation in any
  order (`Rounds`), are put in one piece between those due no later and those due later.
- `PriorityNotUnprofitable` follows from the flags in `StageInv`: a request for priority is seen before the answer of the evaluator is used.

### CollectorsProofs

Assumed: the nine workers are among `Workers`; `MaxVerifications >= 1`.

- *The store*, for any set of workers and any order of commands. That a proof was announced at most once is not inductive, because a worker about to announce may follow one that has. `OneAnnouncer` says that no two
  workers are about to store, or to announce; that while one is about to store there is no proof; and that while one is about to announce the proof is stored and
  nothing has been announced yet. Every command but three keeps all of this unchanged (`AnnouncerKept`).
- *The collectors.* `WorkersInv` gives each worker its place in its program (`Placed`), to the workers of the configured bridge only (`Owned`), and each a message once in a life of the process (`Once`). `StepKinds`
  sorts the steps: a worker takes up an event, goes from one command to the next, or none moves, or all forget what they did.
- `OrdersKnowMessage` needs `KnownInv`: before the message is stored nobody of these bridges is further than storing it. `ProofOnlyIfVerifiable` needs `VerifiedInv`: before enough attestations nobody is among the commands of
  `setAMBProof`. `PriorityKept` needs `PriorityInv`: a stored message was stored by one that will not store it again. `VAAMissedOnlyIfRecoveryFirst` needs `SkippedInv`, which relates the starts of engine and recovery to the VAA.
- `CollectorsImplementStore`: with the refinement mapping `Store` each step of the collectors is a step of AMBStore or leaves the store alone, so that what is proved of the store holds under the collectors.
- The type of `pending`, the list of early verifications, is not part of `CollectorsTypeCorrect`: it is pruned by a filter, which the library defines recursively. No property depends on it but `ProvedBecomesOrder`.

### RelayStateProofs, BlockScanProofs, EvaluatorProofs, TransactionHelperProofs

- `RelayStateProofs`, from `PricesGrow` and logs whose increases carry a price: `MergeIsOfAll` shows that merging an event into the state of a set of events yields the state of the set with that
  event, whatever the order and also if the event was in it; the inductive invariant says that, unless a call has raced, the stored value is the
  state of the events written and a call that is about to write has read a value of that kind.
- `BlockScanProofs`: `Position` relates the first block, the next block and the program counter; an empty query range is possible only as the first one,
  when the start is beyond the stopping block. `Behind` says that each block number on its way (answer, port, status, chunk) is
  already `blockDelay` deep, which stays true as the chain grows. `EventsFinal` says that the versions of the events read are
  the current ones and that their blocks are deep; a reorganisation of at most `blockDelay` blocks cannot reach them. `HandledIsFinal` is
  under `ReorgDepth <= BlockDelay`, which is what `blockDelay` is for. `Unskipped` says that each block queried has its event among those handled, failed or still in the logs, and that the logs are
  empty when the next query is made. `Increasing` orders the status, the messages on the port and the last broadcast.
- `EvaluatorProofs`, for any bounties, prices and gas: the profit of an ack is concave in the gas its handler uses, so `ExtremesAreWorst`: it is no less than at one of its two ends.
  A delivery is relayed only if its reward exceeds the loss allowed for (`RelayedIsRewarded`), so reward and worst loss together are positive; bounties only grow (`SecuredGrows`)
  and losses only shrink as gas prices fall (`LossMonotone`), hence `relayAckForDeliveryBounty` at that gas price or a lower one, if the gas reported is at least that estimated to be rewarded and the ack pays for the gas observed only (`AckRelayed`). `EvaluatorInv` carries this from the delivery's
  decision to the ack's, through each await of both. The theorem is about estimates in which the delivery's gas is observed as it is paid for, and whose fiat cost has no fees.
  `CallsInv` bounds the age of the price a call of the cache is given, until its last try, which may give the stale one.
- `TransactionHelperProofs`, from networks that are sets of fees, a `PriorityAdjustmentFactor` of at least 1 (checked in `loadGasFeeConfig`) and any caps: `BalanceInv` has the types of the balances, that a pending transaction can be paid for, and both properties;
  `UpdateIsExact` says what an update of the balance establishes, `RegistrationKeeps` that a registration lowers the balance kept by no less than it lowers `unregistered`, unless to zero. `ScaledRaises` is the integer part of the outbidding: a fee times the factor, divided with rest, is more than the fee
  if the factor adds at least one to it. `LargestFeeRaises` carries it through the larger of an increased fee and one of the moment; `ReplacementInv` adds that there is no offer without a transaction, so that its fees do not change under it.

### What stays with TLC

The liveness properties `EveryOrderReturned`, `EveryRequestAnswered`, `ChangesAnnounced`, `EveryBlockHandled`, `ProvedBecomesOrder` and `OrdersSettle`: the prover does not reason about fairness (`ENABLED`). The type of `pending` in
Collectors: induction over the definition of a filter. Every other property of the passing runs is a theorem.

## What the models leave out

- *Data.* Payloads, addresses and hashes. In WalletWorker fees matter only in whether the node accepts a replacement, which is open there; TransactionHelper has the fees and balances, of one transaction at a time and with gas cost 1, whether it was repriced or not. That several are pending while one is confirmed is not in it.
- *Floats.* Fiat prices and relative profits are floats in the code, integers and percentages in `Evaluation`. That `BigInt(profitabilityFactor * DECIMAL_BASE)` (evaluator.worker.ts:220) throws for a factor with
  more decimals than the base, or whose product is not exact, is outside the model.
- *The evaluator's destination chain.* Its gas price and coin price are constants, the value and additional fees of the delivery are zero, and its estimate is one constant, paid for and observed alike (what it used is reported, and any number); the value of an ack counts among its fees; the REST controller is left out.
- *Submitter.* `NewOrdersDelay` is zero in the run, though the module has it; the clock is two instants long; the estimate of a transaction either succeeds, reverts or fails. The messages that the wallet service queues while it has no worker
  (wallet.service.ts:298) are left out: a new worker is in place before the next message of a port is handled.
- *Collectors.* One message; the VAA's parsing, the page-wise queries of `fetchVAAs` and the lookups of block timestamps are one step each (a lookup or a query that fails ends the recovery thread, `FetchVAAsFails`). The 30 s delay of the LayerZero handler is taken to be long enough for a read under way.
- *Time.* Timeouts and intervals happen at any moment after they are armed; deadlines of requests may have passed or not.
- *Deep reorganisations of the wallet's own transactions.* `tx.wait(confirmations)` is taken to return final receipts.
- *Reading of the logs.* `getLogs` answers from the chain, in full; a backend that lags behind `getBlock` is not modelled yet.
- *Restart.* In `RelayState` a restarted getter replays events because `startingBlock` is configured; with no `startingBlock` it starts at
  the current block and `Skipped` covers what it misses. `ChangesAnnounced` needs a restarted scanner that still has an event of the relay ahead,
  as in the run, where the source chain's getter has two events left; a relay whose every event lies before the starting block is not announced again.
- *Redis connection loss with a command in flight* is a failed call that has had no effect, or (failure while publishing) one that has written.
- *Endless retries.* `updateWalletBalance` (transaction-helper.ts:187), a coin price never known (pricing.provider.ts:109) and a query that cannot succeed (getter.worker.ts:227) repeat for ever, as the code says; the models have them succeed.
- *Persister.* It listens on the channel `key` (persister.worker.ts:115), on which the store does not publish: nothing arrives, and there is no behaviour to model.
- *Components without a module*, with the reason, are in `PROJECT.json`: configuration, logging, wiring and chain resolvers have no
  behaviour over time; payload decoding is pure data.

## Plan

Done: every module of a component is model-checked and has its safety, its action properties and its refinement proved.

To be proved next: that the evaluation and submission queues of Submitter, which it represents by what OrderPipeline says, are instances of ProcessingQueue, as far as both have the same state; that the two queues of WalletWorker are
ones of concurrency one; an abstract specification of the wallet (a request is submitted, and answered once) that WalletWorker and WalletPort both implement, so that `Submitter` rests on one statement of it; what a restart (`Skipped` in RelayState) misses, in BlockScan.

To be modelled next: a getter whose `getLogs` answers from a backend that lags behind `getBlock`; the evaluator with a delivery's fees and value, and several orders over it; several transactions over one transaction helper; the persister, once it is subscribed to a channel of the store.
