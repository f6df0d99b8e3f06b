----------------------------- MODULE WalletWorker -----------------------------
(***************************************************************************)
(* The wallet worker: its run loop over the submit and the confirm queue   *)
(* (both ProcessingQueues of concurrency 1), the nonce it keeps, repricing,*)
(* requeuing, cancellation and the stall; and, as its environment, the     *)
(* account's nonces on a chain whose node accepts, replaces, mines or drops*)
(* transactions, may lose the reply to a submission, and may fail any call *)
(* with any error.                                                         *)
(***************************************************************************)
EXTENDS Naturals, Sequences, FiniteSets

CONSTANTS
    Requests,       \* how many transaction requests clients make: 1..Requests
    MaxTries,       \* maxTries
    MaxPending,     \* maxPendingTransactions
    MaxNonce,       \* bound: nonces run over 0..MaxNonce
    Externals,      \* bound: transactions others send from the same account
    LossySend,      \* whether the reply to an accepted submission may be lost
    MaxDrops        \* bound: how many pending transactions the node forgets

ASSUME WalletAssumption ==
    /\ Requests \in Nat /\ MaxTries \in Nat \ {0} /\ MaxPending \in Nat \ {0}
    /\ MaxNonce \in Nat /\ Externals \in Nat
    /\ LossySend \in BOOLEAN /\ MaxDrops \in Nat

Request == 1..Requests
Nonce == 0..MaxNonce
NoRequest == 0
NoTx == [req |-> NoRequest, kind |-> "none"]
Tx == {NoTx} \cup [req : Request, kind : {"original", "replacement", "cancel"}]
        \cup {[req |-> NoRequest, kind |-> "external"]}

VARIABLES
    \* the worker
    pc,             \* where run() is
    newRequests,    \* newRequestsQueue
    submitNew,      \* submitQueue.newQueue
    confirmNew,     \* confirmQueue.newQueue
    stage,          \* where each request is
    tries,          \* retryCount in its present queue
    requeues,       \* requeueCount
    nonce,          \* nonce of the request's transaction
    repriced,       \* txReplacement is set
    txNonce,        \* transactionHelper.transactionNonce
    collected,      \* finished confirm orders run() has collected
    cancelling,     \* the request cancelTransaction works on
    cancelTry,      \* its loop counter
    response,       \* what sendResult has told the client
    \* the chain
    latest,         \* the account's next nonce to be mined
    mempool,        \* the pending transaction of each nonce
    mined,          \* the mined transaction of each nonce
    reverted,       \* the nonces whose mined transaction reverted
    externals,      \* transactions others have sent
    drops,          \* pending transactions the node has forgotten
    misjudged       \* requests a wait of which failed with an error that names
                    \* the nonce, though no other transaction had used it

worker == <<pc, newRequests, submitNew, confirmNew, stage, tries, requeues, nonce,
            repriced, txNonce, collected, cancelling, cancelTry, response>>
account == <<latest, mined, reverted, externals, drops, misjudged>>
chain == <<mempool, account>>
vars == <<worker, chain>>

InSubmitQueue == {r \in Request : stage[r] \in
    {"submitNew", "submitRetry", "submitDue", "submitFailing", "submitted", "invalid"}}
InConfirmQueue == {r \in Request : stage[r] \in
    {"confirmNew", "waiting", "confirmRetry", "confirmDue",
     "confirmed", "rejected", "rejectedNonce", "unconfirmed"}}
\* Mutant: the orders out of tries are not collected.
FinishedConfirmSettled == {r \in Request : stage[r] \in {"confirmed", "rejected", "rejectedNonce"}}

FinishedConfirm == {r \in Request : stage[r] \in
    {"confirmed", "rejected", "rejectedNonce", "unconfirmed"}}

Init ==
    /\ pc = "take"
    /\ newRequests = <<>> /\ submitNew = <<>> /\ confirmNew = <<>>
    /\ stage = [r \in Request |-> "idle"]
    /\ tries = [r \in Request |-> 0]
    /\ requeues = [r \in Request |-> 0]
    /\ nonce = [r \in Request |-> 0]
    /\ repriced = [r \in Request |-> FALSE]
    /\ txNonce = 0
    /\ collected = {}
    /\ cancelling = NoRequest /\ cancelTry = 0
    /\ response = [r \in Request |-> "none"]
    /\ latest = 0
    /\ mempool = [n \in Nonce |-> NoTx]
    /\ mined = [n \in Nonce |-> NoTx]
    /\ reverted = {}
    /\ externals = 0 /\ drops = 0 /\ misjudged = {}

-----------------------------------------------------------------------------
(* The node. A transaction is accepted at any nonce not mined yet; at an   *)
(* occupied one only if its fee is high enough, which is left open.        *)

pendingNonce == CHOOSE n \in latest..(MaxNonce + 1) :
    /\ n \in Nonce => mempool[n] = NoTx
    /\ \A m \in latest..(n - 1) : mempool[m] # NoTx

Accepts(n) == n \in latest..MaxNonce
NonceError(n) == n < latest \/ (n \in Nonce /\ mempool[n] # NoTx)
Place(n, r, k) == mempool' = [mempool EXCEPT ![n] = [req |-> r, kind |-> k]]

\* A submission that fails for another reason, possibly after it was accepted.
SendFails(n, r, k) ==
    \/ UNCHANGED mempool
    \/ LossySend /\ Accepts(n) /\ Place(n, r, k)

Mine ==
    /\ latest \in Nonce /\ mempool[latest] # NoTx
    /\ mined' = [mined EXCEPT ![latest] = mempool[latest]]
    /\ mempool' = [mempool EXCEPT ![latest] = NoTx]
    /\ latest' = latest + 1
    /\ \/ UNCHANGED reverted
       \/ mempool[latest].kind \in {"original", "replacement"} /\ reverted' = reverted \cup {latest}
    /\ UNCHANGED <<worker, externals, drops, misjudged>>

Drop ==
    /\ drops < MaxDrops
    /\ drops' = drops + 1
    /\ \E n \in Nonce : mempool[n] # NoTx /\ mempool' = [mempool EXCEPT ![n] = NoTx]
    /\ UNCHANGED <<worker, latest, mined, reverted, externals, misjudged>>

External ==
    /\ externals < Externals
    /\ externals' = externals + 1
    /\ pendingNonce \in Nonce
    /\ Place(pendingNonce, NoRequest, "external")
    /\ UNCHANGED <<worker, latest, mined, reverted, drops, misjudged>>

-----------------------------------------------------------------------------
(* Requests arrive at any time; run() takes as many as there is room for.  *)

AddTransaction ==
    \E r \in Request :
        /\ stage[r] = "idle"
        /\ r > 1 => stage[r - 1] # "idle"
        /\ stage' = [stage EXCEPT ![r] = "requested"]
        /\ newRequests' = Append(newRequests, r)
        /\ UNCHANGED <<pc, submitNew, confirmNew, tries, requeues, nonce, repriced, txNonce,
                       collected, cancelling, cancelTry, response, chain>>

\* Mutant: the transactions waiting for their confirmation are not counted.
walletCapacitySubmit ==
    LET used == Cardinality(InSubmitQueue) IN IF used < MaxPending THEN MaxPending - used ELSE 0

walletCapacity ==
    LET used == Cardinality(InSubmitQueue) + Cardinality(InConfirmQueue)
    IN  IF used < MaxPending THEN MaxPending - used ELSE 0

ProcessNewRequests ==
    LET n == IF Len(newRequests) < walletCapacity THEN Len(newRequests) ELSE walletCapacity
        taken == SubSeq(newRequests, 1, n)
    IN
    /\ pc = "take"
    /\ newRequests' = SubSeq(newRequests, n + 1, Len(newRequests))
    /\ submitNew' = submitNew \o taken
    /\ stage' = [r \in Request |->
                    IF \E j \in 1..n : taken[j] = r THEN "submitNew" ELSE stage[r]]
    /\ pc' = "submit"
    /\ UNCHANGED <<confirmNew, tries, requeues, nonce, repriced, txNonce,
                   collected, cancelling, cancelTry, response, chain>>

\* retryInterval has passed for the order waiting in a retry queue.
RetryDue(r) ==
    /\ \/ stage[r] = "submitRetry" /\ stage' = [stage EXCEPT ![r] = "submitDue"]
       \/ stage[r] = "confirmRetry" /\ stage' = [stage EXCEPT ![r] = "confirmDue"]
    /\ UNCHANGED <<pc, newRequests, submitNew, confirmNew, tries, requeues, nonce, repriced,
                   txNonce, collected, cancelling, cancelTry, response, chain>>

-----------------------------------------------------------------------------
(* The submit queue: one order at a time, so that a retry holds up the     *)
(* orders behind it. An order that leaves lets the next one start.         *)

\* Mutant: a retry does not hold up the orders behind it.
SubmitBusyNever == FALSE

SubmitBusy == \E r \in Request : stage[r] \in {"submitRetry", "submitDue"}

\* The order processOrders of the submit queue handles next.
SubmitNext(r) ==
    /\ pc = "submit"
    /\ \/ /\ stage[r] = "submitDue"
          /\ tries' = [tries EXCEPT ![r] = @ + 1]
          /\ UNCHANGED submitNew
       \/ /\ ~SubmitBusy
          /\ submitNew # <<>> /\ r = Head(submitNew)
          /\ submitNew' = Tail(submitNew)
          /\ tries' = [tries EXCEPT ![r] = 0]

DeadlineExceeded(r) ==
    /\ SubmitNext(r)
    /\ stage' = [stage EXCEPT ![r] = "invalid"]
    /\ UNCHANGED <<pc, newRequests, confirmNew, requeues, nonce, repriced, txNonce,
                   collected, cancelling, cancelTry, response, chain>>

SubmitSucceeds(r) ==
    /\ SubmitNext(r)
    /\ Accepts(txNonce)
    /\ Place(txNonce, r, "original")
    /\ nonce' = [nonce EXCEPT ![r] = txNonce]
    /\ txNonce' = txNonce + 1
    /\ stage' = [stage EXCEPT ![r] = "submitted"]
    /\ pc' = "submitted"
    /\ UNCHANGED <<newRequests, confirmNew, requeues, repriced,
                   collected, cancelling, cancelTry, response, account>>

\* Mutant: the nonce is taken before the submission succeeds.
SubmitFailsNonceTaken(r) ==
    /\ SubmitNext(r)
    /\ SendFails(txNonce, r, "original")
    /\ txNonce' = txNonce + 1
    /\ stage' = [stage EXCEPT ![r] = "invalid"]
    /\ UNCHANGED <<pc, newRequests, confirmNew, requeues, nonce, repriced,
                   collected, cancelling, cancelTry, response, account>>

SubmitFails(r) ==
    /\ SubmitNext(r)
    /\ SendFails(txNonce, r, "original")
    /\ stage' = [stage EXCEPT ![r] = "invalid"]
    /\ UNCHANGED <<pc, newRequests, confirmNew, requeues, nonce, repriced, txNonce,
                   collected, cancelling, cancelTry, response, account>>

SubmitNonceError(r) ==
    /\ SubmitNext(r)
    /\ NonceError(txNonce)
    /\ stage' = [stage EXCEPT ![r] = "submitFailing"]
    /\ pc' = "resync"
    /\ UNCHANGED <<newRequests, confirmNew, requeues, nonce, repriced, txNonce,
                   collected, cancelling, cancelTry, response, chain>>

\* updateTransactionNonce, then the decision of handleOrderError.
ResyncNonce(r) ==
    /\ pc = "resync" /\ stage[r] = "submitFailing"
    /\ txNonce' = pendingNonce
    /\ IF tries[r] >= MaxTries - 1
       THEN stage' = [stage EXCEPT ![r] = "invalid"] /\ pc' = "submit"
       ELSE stage' = [stage EXCEPT ![r] = "submitRetry"] /\ pc' = "submitted"
    /\ UNCHANGED <<newRequests, submitNew, confirmNew, tries, requeues, nonce, repriced,
                   collected, cancelling, cancelTry, response, chain>>

SubmitIdle ==
    /\ pc = "submit"
    /\ \A r \in Request : stage[r] # "submitDue"
    /\ SubmitBusy \/ submitNew = <<>>
    /\ pc' = "submitted"
    /\ UNCHANGED <<newRequests, submitNew, confirmNew, stage, tries, requeues, nonce, repriced,
                   txNonce, collected, cancelling, cancelTry, response, chain>>

\* handleInvalidTransactions; the submitted transactions go to the confirm queue.
CollectSubmitted ==
    LET submitted == {r \in Request : stage[r] = "submitted"} IN
    /\ pc = "submitted"
    /\ response' = [r \in Request |->
                        IF stage[r] = "invalid" THEN "submissionError" ELSE response[r]]
    /\ confirmNew' = IF submitted = {} THEN confirmNew
                     ELSE Append(confirmNew, CHOOSE r \in submitted : TRUE)
    /\ repriced' = [r \in Request |-> repriced[r] /\ r \notin submitted]
    /\ stage' = [r \in Request |-> CASE stage[r] = "invalid" -> "answered"
                                     [] stage[r] = "submitted" -> "confirmNew"
                                     [] OTHER -> stage[r]]
    /\ pc' = "confirm"
    /\ UNCHANGED <<newRequests, submitNew, tries, requeues, nonce, txNonce,
                   collected, cancelling, cancelTry, chain>>

-----------------------------------------------------------------------------
(* The confirm queue: wait for the transaction, then reprice it once and   *)
(* wait for either of the two.                                             *)

ConfirmBusy ==
    \E r \in Request : stage[r] \in {"waiting", "confirmRetry", "confirmDue"}

\* The decision of handleOrderError for an order that asks for a retry.
RetryConfirm(try) ==
    IF try >= MaxTries - 1 THEN "unconfirmed" ELSE "confirmRetry"

StartWaiting(r) ==
    /\ pc = "confirm"
    /\ ~ConfirmBusy
    /\ confirmNew # <<>> /\ r = Head(confirmNew)
    /\ confirmNew' = Tail(confirmNew)
    /\ tries' = [tries EXCEPT ![r] = 0]
    /\ stage' = [stage EXCEPT ![r] = "waiting"]
    /\ pc' = "collect"
    /\ UNCHANGED <<newRequests, submitNew, requeues, nonce, repriced, txNonce,
                   collected, cancelling, cancelTry, response, chain>>

ConfirmDue(r) ==
    /\ pc = "confirm" /\ stage[r] = "confirmDue"
    /\ tries' = [tries EXCEPT ![r] = @ + 1]
    /\ UNCHANGED <<newRequests, submitNew, confirmNew, requeues, nonce, txNonce,
                   collected, cancelling, cancelTry, response, account>>

WaitAgain(r) ==
    /\ ConfirmDue(r)
    /\ repriced[r]
    /\ stage' = [stage EXCEPT ![r] = "waiting"]
    /\ pc' = "collect"
    /\ UNCHANGED <<repriced, mempool>>

Reprice(r) ==
    /\ ConfirmDue(r)
    /\ ~repriced[r]
    /\ Accepts(nonce[r])
    /\ Place(nonce[r], r, "replacement")
    /\ repriced' = [repriced EXCEPT ![r] = TRUE]
    /\ stage' = [stage EXCEPT ![r] = "waiting"]
    /\ pc' = "collect"

\* sendTransaction throws (the nonce is mined, the replacement is underpriced,
\* the RPC fails): whatever the error, handleFailedOrder asks for a retry.
RepriceFails(r) ==
    /\ ConfirmDue(r)
    /\ ~repriced[r]
    /\ SendFails(nonce[r], r, "replacement")
    /\ stage' = [stage EXCEPT ![r] = RetryConfirm(tries'[r])]
    /\ pc' = IF stage'[r] = "unconfirmed" THEN "confirm" ELSE "collect"
    /\ UNCHANGED repriced

ConfirmIdle ==
    /\ pc = "confirm"
    /\ \A r \in Request : stage[r] # "confirmDue"
    /\ ConfirmBusy \/ confirmNew = <<>>
    /\ pc' = "collect"
    /\ UNCHANGED <<newRequests, submitNew, confirmNew, stage, tries, requeues, nonce, repriced,
                   txNonce, collected, cancelling, cancelTry, response, chain>>

\* The transaction mined at nonce n is the original or the replacement of r.
Executes(n, r) == mined[n].req = r /\ mined[n].kind \in {"original", "replacement"}

MinedFor(r) == nonce[r] < latest /\ Executes(nonce[r], r)
Succeeded(r) == MinedFor(r) /\ nonce[r] \notin reverted
UsedByOther(r) == nonce[r] < latest /\ ~Executes(nonce[r], r)

\* tx.wait on the original and, after a reprice, on the replacement, settles.
WaitSettles(r, outcome) ==
    /\ stage[r] = "waiting"
    /\ stage' = [stage EXCEPT ![r] = outcome]
    /\ UNCHANGED <<pc, newRequests, submitNew, confirmNew, tries, requeues, nonce, repriced,
                   txNonce, collected, cancelling, cancelTry, response, mempool,
                   latest, mined, reverted, externals, drops>>

WaitConfirms(r) == Succeeded(r) /\ WaitSettles(r, "confirmed") /\ UNCHANGED misjudged

\* TIMEOUT, or on a later wait any error: asks for a retry.
WaitTimesOut(r) == WaitSettles(r, RetryConfirm(tries[r])) /\ UNCHANGED misjudged

\* Any other error of the first wait is not retried, whatever has become of the
\* transaction: it reverted, it was replaced, or the node's answer failed. Whether
\* the error names the nonce decides by itself on a requeue.
WaitFails(r) ==
    /\ tries[r] = 0 /\ MaxTries > 1
    /\ \/ WaitSettles(r, "rejected") /\ UNCHANGED misjudged
       \/ /\ WaitSettles(r, "rejectedNonce")
          /\ misjudged' = IF UsedByOther(r) THEN misjudged ELSE misjudged \cup {r}

Settle(r) == WaitConfirms(r) \/ WaitTimesOut(r) \/ WaitFails(r)

-----------------------------------------------------------------------------
(* run() handles what the confirm queue has finished: the confirmed, then  *)
(* the rejected, then the unconfirmed ones.                                *)

CollectConfirmed ==
    /\ pc = "collect"
    /\ collected' = FinishedConfirm
    /\ pc' = "handle"
    /\ UNCHANGED <<newRequests, submitNew, confirmNew, stage, tries, requeues, nonce, repriced,
                   txNonce, cancelling, cancelTry, response, chain>>

Answer(r, res) ==
    /\ response' = [response EXCEPT ![r] = res]
    /\ stage' = [stage EXCEPT ![r] = "answered"]
    /\ collected' = collected \ {r}

HandleConfirmed(r) ==
    /\ pc = "handle" /\ r \in collected /\ stage[r] = "confirmed"
    /\ Answer(r, "confirmed")
    /\ UNCHANGED <<pc, newRequests, submitNew, confirmNew, tries, requeues, nonce, repriced,
                   txNonce, cancelling, cancelTry, chain>>

\* Mutant: every rejected transaction is requeued.
RequeuesAny(r) == requeues[r] < MaxTries

Requeues(r) == stage[r] = "rejectedNonce" /\ requeues[r] < MaxTries

HandleRejected(r) ==
    /\ pc = "handle" /\ r \in collected /\ stage[r] \in {"rejected", "rejectedNonce"}
    /\ \A x \in collected : stage[x] # "confirmed"
    /\ IF Requeues(r)
       THEN /\ requeues' = [requeues EXCEPT ![r] = @ + 1]
            /\ submitNew' = Append(submitNew, r)
            /\ stage' = [stage EXCEPT ![r] = "submitNew"]
            /\ collected' = collected \ {r}
            /\ UNCHANGED response
       ELSE Answer(r, "confirmationError") /\ UNCHANGED <<requeues, submitNew>>
    /\ UNCHANGED <<pc, newRequests, confirmNew, tries, nonce, repriced,
                   txNonce, cancelling, cancelTry, chain>>

HandleUnconfirmed(r) ==
    /\ pc = "handle" /\ r \in collected
    /\ \A x \in collected : stage[x] = "unconfirmed"
    /\ pc' = "cancel"
    /\ cancelling' = r
    /\ cancelTry' = 0
    /\ UNCHANGED <<newRequests, submitNew, confirmNew, stage, tries, requeues, nonce, repriced,
                   txNonce, collected, response, chain>>

AllHandled ==
    /\ pc = "handle" /\ collected = {}
    /\ pc' = "take"
    /\ UNCHANGED <<newRequests, submitNew, confirmNew, stage, tries, requeues, nonce, repriced,
                   txNonce, collected, cancelling, cancelTry, response, chain>>

-----------------------------------------------------------------------------
(* cancelTransaction blocks run() until the nonce is mined.                *)

\* Mutant: the 'pending' nonce is asked for.
CancelNoncePending == pendingNonce > nonce[cancelling]

\* signer.getNonce('latest') > cancelTxNonce
CancelNonceMined == latest > nonce[cancelling]

\* The nonce read at the start of a try, and in the stall's loop.
CancelObsolete ==
    /\ pc \in {"cancel", "stalled"}
    /\ CancelNonceMined
    /\ Answer(cancelling, "cancelled")
    /\ cancelling' = NoRequest
    /\ pc' = "handle"
    /\ UNCHANGED <<newRequests, submitNew, confirmNew, tries, requeues, nonce, repriced,
                   txNonce, cancelTry, chain>>

CancelStarts ==
    /\ pc = "cancel"
    /\ ~CancelNonceMined
    /\ pc' = "cancelSend"
    /\ UNCHANGED <<newRequests, submitNew, confirmNew, stage, tries, requeues, nonce, repriced,
                   txNonce, collected, cancelling, cancelTry, response, chain>>

CancelSent ==
    /\ pc = "cancelSend"
    /\ Accepts(nonce[cancelling])
    /\ Place(nonce[cancelling], cancelling, "cancel")
    /\ pc' = "cancelWait"
    /\ UNCHANGED <<newRequests, submitNew, confirmNew, stage, tries, requeues, nonce, repriced,
                   txNonce, collected, cancelling, cancelTry, response, account>>

CancelConfirmed ==
    /\ pc = "cancelWait"
    /\ nonce[cancelling] < latest
    /\ mined[nonce[cancelling]] = [req |-> cancelling, kind |-> "cancel"]
    /\ Answer(cancelling, "cancelled")
    /\ cancelling' = NoRequest
    /\ pc' = "handle"
    /\ UNCHANGED <<newRequests, submitNew, confirmNew, tries, requeues, nonce, repriced,
                   txNonce, cancelTry, chain>>

\* The submission fails, or the wait for the cancellation times out or finds
\* another transaction mined.
CancelFails ==
    /\ \/ pc = "cancelSend" /\ SendFails(nonce[cancelling], cancelling, "cancel")
       \/ pc = "cancelWait" /\ UNCHANGED mempool
    /\ cancelTry' = cancelTry + 1
    /\ pc' = IF cancelTry' = MaxTries THEN "stalled" ELSE "cancel"
    /\ UNCHANGED <<newRequests, submitNew, confirmNew, stage, tries, requeues, nonce, repriced,
                   txNonce, collected, cancelling, response, account>>

-----------------------------------------------------------------------------
SubmitStep(r) ==
    \/ DeadlineExceeded(r) \/ SubmitSucceeds(r) \/ SubmitFails(r)
    \/ SubmitNonceError(r) \/ ResyncNonce(r)
ConfirmStep(r) == StartWaiting(r) \/ WaitAgain(r) \/ Reprice(r) \/ RepriceFails(r)
HandleStep(r) == HandleConfirmed(r) \/ HandleRejected(r) \/ HandleUnconfirmed(r)
Cancel == CancelObsolete \/ CancelStarts \/ CancelSent \/ CancelConfirmed \/ CancelFails

\* The loop of run(): what the worker does next when nothing it awaits is left open.
Run ==
    \/ ProcessNewRequests \/ SubmitIdle \/ CollectSubmitted \/ ConfirmIdle
    \/ CollectConfirmed \/ AllHandled \/ Cancel
    \/ \E r \in Request : SubmitStep(r) \/ ConfirmStep(r) \/ HandleStep(r)

Next ==
    \/ AddTransaction
    \/ Run
    \/ \E r \in Request : RetryDue(r) \/ Settle(r)
    \/ Mine \/ Drop \/ External

Spec == Init /\ [][Next]_vars

(* The loop never ends and every RPC call returns; waits time out; timers  *)
(* fire; the chain mines what is pending at the account's next nonce.      *)
Fairness ==
    /\ WF_vars(Run) /\ WF_vars(Mine)
    /\ \A r \in Request : WF_vars(RetryDue(r)) /\ WF_vars(Settle(r))

FairSpec == Spec /\ Fairness

-----------------------------------------------------------------------------
Stages == {"idle", "requested", "submitNew", "submitRetry", "submitDue", "submitFailing",
           "submitted", "invalid", "confirmNew", "waiting", "confirmRetry", "confirmDue",
           "confirmed", "rejected", "rejectedNonce", "unconfirmed", "answered"}

TypeOK ==
    /\ pc \in {"take", "submit", "resync", "submitted", "confirm", "collect", "handle",
               "cancel", "cancelSend", "cancelWait", "stalled"}
    /\ newRequests \in Seq(Request) /\ submitNew \in Seq(Request) /\ confirmNew \in Seq(Request)
    /\ stage \in [Request -> Stages]
    /\ tries \in [Request -> 0..(MaxTries - 1)]
    /\ requeues \in [Request -> 0..MaxTries]
    /\ nonce \in [Request -> Nonce] /\ repriced \in [Request -> BOOLEAN]
    /\ txNonce \in 0..(MaxNonce + 1)
    /\ collected \in SUBSET Request
    /\ cancelling \in Request \cup {NoRequest} /\ cancelTry \in 0..MaxTries
    /\ response \in [Request -> {"none", "confirmed", "submissionError",
                                 "confirmationError", "cancelled"}]
    /\ latest \in 0..(MaxNonce + 1)
    /\ mempool \in [Nonce -> Tx] /\ mined \in [Nonce -> Tx]
    /\ reverted \in SUBSET Nonce /\ externals \in 0..Externals /\ drops \in 0..MaxDrops
    /\ misjudged \in SUBSET Request

\* No more than maxPendingTransactions requests are taken and not answered, the
\* requeued ones included: the two queues are counted together, and nothing is
\* in between them when the capacity is read.
CapacityRespected == Cardinality(InSubmitQueue) + Cardinality(InConfirmQueue) <= MaxPending

\* However often a request is retried, repriced and requeued, at most one of its
\* transactions is mined: a relay is executed and paid for once. Excepted are the
\* requests the node said a nonce error of while their nonce was theirs: the code
\* requeues by the error alone (its TODO asks whether that can happen), and both
\* transactions may then be mined.
MinedOnce ==
    \A r \in Request \ misjudged : \A m, n \in Nonce : Executes(m, r) /\ Executes(n, r) => m = n

\* A request is answered 'Transaction cancelled.' only once its nonce is used up
\* ("does not return until the transaction of the given nonce is mined").
CancelledIsSettled == \A r \in Request : response[r] = "cancelled" => nonce[r] < latest

\* While the node forgets nothing, the nonce kept by the worker never runs ahead
\* of the node's: a gap would leave every later transaction unmineable.
NonceNeverAhead == drops = 0 => txNonce <= pendingNonce

\* "Send transactions one at a time to ensure the order is maintained": while
\* the node forgets nothing, requests that were not requeued get their nonces in the
\* order in which they arrived.
NonceOrder ==
    \A q, r \in Request :
        /\ drops = 0 /\ q < r /\ requeues[q] = 0 /\ requeues[r] = 0
        /\ {stage[q], stage[r]} \subseteq {"submitted", "confirmNew", "waiting", "confirmRetry", "confirmDue"}
        => nonce[q] < nonce[r]

\* The wallet waits for a nonce at which the node, that forgot a transaction, has
\* none.
StalledOnForgotten == pc = "stalled" /\ drops > 0 /\ latest \in Nonce /\ mempool[latest] = NoTx

\* Every request is answered, whatever fails: retries, reprices, requeues and
\* cancellations all end while the chain keeps mining what it holds. Except that the
\* wallet may stall for ever, though only for a transaction that the node forgot.
EveryRequestAnswered ==
    \A r \in Request : stage[r] = "requested" ~> (stage[r] = "answered" \/ []StalledOnForgotten)

\* A reprice that fails is retried "as the original tx may still resolve", to "keep
\* waiting until original tx is rejected": when the retry comes and the original has
\* been mined with success, the order is waited for and not given up.
OriginalAwaitedAfterFailedReprice ==
    [][\A r \in Request :
            /\ stage[r] = "confirmDue" /\ tries[r] >= 1 /\ ~repriced[r]
            /\ Succeeded(r)
            => stage'[r] \in {"confirmDue", "waiting"}]_vars
=============================================================================
