------------------------------- MODULE Submitter -------------------------------
(***************************************************************************)
(* The submitter of a chain, from the announcement of a proof to the       *)
(* confirmed transaction. Its loop takes due orders from the pending queue *)
(* into the eval queue and evaluated ones into the submit queue, both      *)
(* ProcessingQueues, represented by what OrderPipeline says of them.       *)
(***************************************************************************)
EXTENDS WalletPort

CONSTANTS
    MaxPendingTransactions, MaxTries, NewOrdersDelay, EvaluationRetryInterval, MaxEvaluationDuration,
    Prioritised,\* bound: the orders whose message may be given priority
    MaxTime     \* bound: the last instant; an order comes early enough to expire

ASSUME SubmitterAssumption ==
    /\ MaxPendingTransactions \in Nat \ {0} /\ MaxTries \in Nat \ {0} /\ MaxTime \in Nat
    /\ NewOrdersDelay \in Nat /\ EvaluationRetryInterval \in Nat \ {0} /\ MaxEvaluationDuration \in Nat
    /\ Prioritised \subseteq Orders

VARIABLES
    now,
    loop,       \* where the main loop is: take (after the wait), evaluate, submit
    pending,    \* pendingQueue: [order, processAt]
    place,      \* new, pending, eval, submit (the queue an order is in), or gone
    stage,      \* in a queue: new, retry, asking (the evaluator), waiting (for the
                \* wallet), completed, dropped (skipped or rejected), again
                \* (skipped, with retryEvaluation)
    tries,      \* retryCount
    deadline,   \* evaluationDeadline
    priority,   \* of the order
    direct,     \* the order went to the eval queue without the pending queue
    urgent,     \* the priority flag of the message in the store
    evaluator,  \* the evaluator's thread runs
    urgentSeen  \* history: urgent at the start of the last evaluation

queueVars == <<place, stage, tries>>
orderVars == <<deadline, priority, direct>>
worldVars == <<now, urgent, evaluator>>
vars == <<portVars, loop, pending, queueVars, orderVars, worldVars, urgentSeen>>

Init ==
    /\ PortInit
    /\ now = 0 /\ loop = "take" /\ pending = <<>> /\ evaluator = TRUE
    /\ place = [o \in Orders |-> "new"] /\ stage = [o \in Orders |-> "new"]
    /\ tries = [o \in Orders |-> 0] /\ deadline = [o \in Orders |-> 0]
    /\ priority = [o \in Orders |-> FALSE] /\ direct = [o \in Orders |-> FALSE]
    /\ urgent = [o \in Orders |-> FALSE]
    /\ urgentSeen = [o \in Orders |-> FALSE]

In(queue, stages) == {o \in Orders : place[o] = queue /\ stage[o] \in stages}
Busy == \E o \in Orders : stage[o] = "asking"

-----------------------------------------------------------------------------
\* Around the submitter: time, the operator, the evaluator's end.

Tick ==
    /\ now < MaxTime
    /\ now' = now + 1
    /\ UNCHANGED <<portVars, loop, pending, queueVars, orderVars, urgent, evaluator, urgentSeen>>

Prioritise(o) ==
    /\ o \in Prioritised /\ ~urgent[o] /\ place[o] \in {"new", "pending", "eval"}
    /\ urgent' = [urgent EXCEPT ![o] = TRUE]
    /\ UNCHANGED <<portVars, loop, pending, queueVars, orderVars, now, evaluator, urgentSeen>>

\* An end of the evaluator is felt when it is asked.
EvaluatorExits ==
    /\ evaluator /\ Busy
    /\ evaluator' = FALSE
    /\ UNCHANGED <<portVars, loop, pending, queueVars, orderVars, now, urgent, urgentSeen>>

-----------------------------------------------------------------------------
\* The listener of the proof channel.

Entries(orders, at) == [j \in 1..Len(orders) |-> [order |-> orders[j], processAt |-> at]]

\* Mutant: the orders are put at the end.
InsertedLast(queue, orders, at) == queue \o Entries(orders, at)

\* addPendingOrder, for one order after the other: before the first that is due later.
Inserted(queue, orders, at) ==
    LET first == CHOOSE n \in 1..(Len(queue) + 1) :
                    /\ n <= Len(queue) => queue[n].processAt > at
                    /\ \A m \in 1..(n - 1) : queue[m].processAt <= at
    IN  SubSeq(queue, 1, first - 1) \o Entries(orders, at) \o SubSeq(queue, first, Len(queue))

AddSubmitOrder(o) ==
    /\ place[o] = "new" /\ now + MaxEvaluationDuration <= MaxTime
    /\ priority' = [priority EXCEPT ![o] = urgent[o]]
    /\ deadline' = [deadline EXCEPT ![o] = now + MaxEvaluationDuration]
    /\ direct' = [direct EXCEPT ![o] = urgent[o]]
    /\ place' = [place EXCEPT ![o] = IF urgent[o] THEN "eval" ELSE "pending"]
    /\ pending' = IF urgent[o] THEN pending ELSE Inserted(pending, <<o>>, now + NewOrdersDelay)
    /\ UNCHANGED <<portVars, loop, stage, tries, worldVars, urgentSeen>>

-----------------------------------------------------------------------------
\* The main loop.

\* Mutant: the orders in the submit queue are not counted.
CapacityOfEval ==
    LET size == Cardinality({o \in Orders : place[o] = "eval"})
    IN  IF size > MaxPendingTransactions THEN 0 ELSE MaxPendingTransactions - size

Capacity ==
    LET size == Cardinality({o \in Orders : place[o] \in {"eval", "submit"}})
    IN  IF size > MaxPendingTransactions THEN 0 ELSE MaxPendingTransactions - size

\* Mutant: the last order to retry is left in its queue.
MayBeDueButLast(queue, due) ==
    /\ due \subseteq In(queue, {"retry"})
    /\ Cardinality(In(queue, {"retry"})) = 1 => due = {}
    /\ now = MaxTime /\ Cardinality(In(queue, {"retry"})) > 1 => due = In(queue, {"retry"})

\* getOrdersToRetry: any of the orders to retry may be due, at the end of time
\* all of them are.
MayBeDue(queue, due) ==
    /\ due \subseteq In(queue, {"retry"})
    /\ now = MaxTime => due = In(queue, {"retry"})

\* What only an evaluation reads matters no more once it is done.
Forget(done) ==
    /\ deadline' = [o \in Orders |-> IF o \in done THEN 0 ELSE deadline[o]]
    /\ priority' = [o \in Orders |-> priority[o] /\ o \notin done]
    /\ urgent' = [o \in Orders |-> urgent[o] /\ o \notin done]
    /\ urgentSeen' = [o \in Orders |-> urgentSeen[o] /\ o \notin done]

\* The due orders at the head of the pending queue, as many as there is room
\* for, go to the eval queue.
ProcessPendingQueue(retried) ==
    /\ loop = "take" /\ MayBeDue("eval", retried)
    /\ loop' = "evaluate"
    /\ LET due == {j \in DOMAIN pending :
                      j <= Capacity /\ \A k \in 1..j : pending[k].processAt <= now}
           taken == {pending[j].order : j \in due}
       IN  /\ pending' = SubSeq(pending, Cardinality(due) + 1, Len(pending))
           /\ place' = [o \in Orders |-> IF o \in taken THEN "eval" ELSE place[o]]
           /\ stage' = [o \in Orders |-> IF o \in taken \cup retried THEN "new" ELSE stage[o]]
           /\ tries' = [o \in Orders |-> IF o \in taken THEN 0 ELSE
                                         IF o \in retried THEN tries[o] + 1 ELSE tries[o]]
    /\ UNCHANGED <<portVars, orderVars, worldVars, urgentSeen>>

\* handleOrderError of the processing queue.
Fail(o, retry) ==
    stage' = [stage EXCEPT ![o] =
        IF retry /\ tries[o] < MaxTries - 1 THEN "retry" ELSE "dropped"]

\* Mutant: the flag in the store is not looked at again.
IsPriority(o) == priority[o]

\* Double check of the priority, in case it was requested meanwhile.
PriorityNow(o) == priority[o] \/ urgent[o]

\* EvalQueue.handleOrder up to the evaluator: a query fails or the relay state
\* is missing; the estimate reverts; the message has been relayed; priority.
EvaluateOrder(o) ==
    /\ loop = "evaluate" /\ o \in In("eval", {"new"}) /\ ~Busy
    /\ urgentSeen' = [urgentSeen EXCEPT ![o] = urgent[o]]
    /\ priority' = [priority EXCEPT ![o] = PriorityNow(o)]
    /\ \/ \E retry \in BOOLEAN : Fail(o, retry)
       \/ stage' = [stage EXCEPT ![o] = "dropped"]
       \/ stage' = [stage EXCEPT ![o] = IF PriorityNow(o) THEN "completed" ELSE "asking"]
    /\ UNCHANGED <<portVars, loop, pending, place, tries, deadline, direct, worldVars>>

\* The evaluator's answer: not null, profitable or not, or null. The evaluator
\* answers as long as it runs: a request has no timeout.
EvaluatorAnswers(o) ==
    /\ evaluator /\ stage[o] = "asking"
    /\ \/ stage' = [stage EXCEPT ![o] = "completed"]
       \/ stage' = [stage EXCEPT ![o] = "again"]
       \/ Fail(o, TRUE)
    /\ UNCHANGED <<portVars, loop, pending, place, tries, orderVars, worldVars, urgentSeen>>

\* processNoSubmitEvalOrders.
Expires(o) == now + EvaluationRetryInterval > deadline[o]

\* The orders in which a round may have handled a set of orders.
Rounds(S) == {round \in [1..Cardinality(S) -> S] :
                /\ \A o \in S : \E j \in DOMAIN round : round[j] = o
                /\ \A j, k \in DOMAIN round : round[j] = round[k] => j = k}

\* When each order of the round has been handled. Those with retryEvaluation go
\* back to the pending queue or are dropped, as the skipped and rejected ones
\* are; completed ones go to the submit queue, with those to retry there.
CollectEvaluated(retried) ==
    LET completed == In("eval", {"completed"})
        again == {o \in In("eval", {"again"}) : ~Expires(o)}
        gone == In("eval", {"dropped", "again"}) \ again
    IN  /\ loop = "evaluate" /\ In("eval", {"new", "asking"}) = {} /\ MayBeDue("submit", retried)
        /\ loop' = "submit"
        /\ \E round \in Rounds(again) :
              pending' = Inserted(pending, round, now + EvaluationRetryInterval)
        /\ place' = [o \in Orders |->
                       IF o \in completed THEN "submit"
                       ELSE IF o \in again THEN "pending"
                       ELSE IF o \in gone THEN "gone" ELSE place[o]]
        /\ stage' = [o \in Orders |->
                       IF o \in completed \cup retried \cup again \cup gone THEN "new" ELSE stage[o]]
        /\ tries' = [o \in Orders |->
                       IF o \in completed \cup again \cup gone THEN 0
                       ELSE IF o \in retried THEN tries[o] + 1 ELSE tries[o]]
        /\ Forget(completed \cup gone)
        /\ direct' = [o \in Orders |-> direct[o] /\ o \notin gone]
        /\ UNCHANGED <<portVars, now, evaluator>>

\* SubmitQueue.handleOrder: before a retry the call is simulated, which may fail
\* or revert, as it does if the message has been relayed.
SubmitOrder(o) ==
    /\ loop = "submit" /\ o \in In("submit", {"new"})
    /\ \/ /\ tries[o] > 0
          /\ \E retry \in BOOLEAN : Fail(o, retry)
          /\ UNCHANGED portVars
       \/ /\ stage' = [stage EXCEPT ![o] = "waiting"]
          /\ SubmitTransaction(o)
    /\ UNCHANGED <<loop, pending, place, tries, orderVars, worldVars, urgentSeen>>

\* The promises resolve: completed, or handleOrderError; an error of another kind
\* than a crash may be a revert, which is not to be retried.
TransactionResults(retry) ==
    /\ Receive
    /\ stage' = [o \in Orders |->
          IF o \notin Resolved THEN stage[o]
          ELSE IF Head(toSubmitter).result = "confirmed" THEN "completed"
          ELSE IF (retry \/ Head(toSubmitter) = Crashed) /\ tries[o] < MaxTries - 1 THEN "retry"
          ELSE "dropped"]
    /\ UNCHANGED <<loop, pending, place, tries, orderVars, worldVars, urgentSeen>>

\* The finished orders of the submit queue are flushed.
SubmissionEnds ==
    LET gone == In("submit", {"completed", "dropped"})
    IN  /\ loop = "submit" /\ In("submit", {"new"}) = {}
        /\ loop' = "take"
        /\ place' = [o \in Orders |-> IF o \in gone THEN "gone" ELSE place[o]]
        /\ stage' = [o \in Orders |-> IF o \in gone THEN "new" ELSE stage[o]]
        /\ tries' = [o \in Orders |-> IF o \in gone THEN 0 ELSE tries[o]]
        /\ direct' = [o \in Orders |-> direct[o] /\ o \notin gone]
        /\ UNCHANGED <<portVars, pending, deadline, priority, worldVars, urgentSeen>>

-----------------------------------------------------------------------------
PortUnchanged == UNCHANGED <<loop, pending, queueVars, orderVars, worldVars, urgentSeen>>

WalletStep ==
    /\ \/ HandleWalletPortData
       \/ \E r \in held : SendTransaction(r) \/ \E result \in Results : SendResult(r, result)
    /\ PortUnchanged

LoopStep ==
    \/ \E retried \in SUBSET Orders : ProcessPendingQueue(retried) \/ CollectEvaluated(retried)
    \/ \E o \in Orders : EvaluateOrder(o) \/ SubmitOrder(o)
    \/ SubmissionEnds

Next ==
    \/ Tick \/ EvaluatorExits
    \/ \E o \in Orders : Prioritise(o) \/ AddSubmitOrder(o)
    \/ LoopStep
    \/ \E o \in Orders : EvaluatorAnswers(o)
    \/ (\E retry \in BOOLEAN : TransactionResults(retry)) \/ WalletStep \/ (WorkerExits /\ PortUnchanged)

\* Time passes, the loop goes on when what it awaits has answered, the evaluator
\* answers while it runs, the wallet answers what it holds, ports deliver.
Fairness ==
    /\ WF_vars(Tick) /\ WF_vars(LoopStep) /\ WF_vars(\E retry \in BOOLEAN : TransactionResults(retry))
    /\ WF_vars(\E o \in Orders : EvaluatorAnswers(o))
    /\ WF_vars(WalletStep)

Spec == Init /\ [][Next]_vars
FairSpec == Spec /\ Fairness

-----------------------------------------------------------------------------
\* The type invariant of the submitter and the port.
TypeOK ==
    /\ PortTypeOK
    /\ now \in 0..MaxTime /\ loop \in {"take", "evaluate", "submit"}
    /\ pending \in Seq([order : Orders, processAt : 0..(MaxTime + NewOrdersDelay)])
    /\ place \in [Orders -> {"new", "pending", "eval", "submit", "gone"}]
    /\ stage \in [Orders -> {"new", "retry", "asking", "waiting", "completed", "dropped", "again"}]
    /\ tries \in [Orders -> 0..(MaxTries - 1)] /\ deadline \in [Orders -> 0..MaxTime]

\* The orders that waited for room never exceed maxPendingTransactions, over
\* both queues and whatever priority orders come in between.
CapacityForOthers ==
    Cardinality({o \in Orders : place[o] \in {"eval", "submit"} /\ ~direct[o]}) <= MaxPendingTransactions

\* The pending queue stays in order, and holds each order waiting there once,
\* with the listener and the loop both adding and the loop taking.
PendingQueueInOrder ==
    /\ \A j, k \in DOMAIN pending : j < k => pending[j].processAt <= pending[k].processAt
    /\ \A j, k \in DOMAIN pending : pending[j].order = pending[k].order => j = k
    /\ {o \in Orders : place[o] = "pending"} = {pending[j].order : j \in DOMAIN pending}

\* Another transaction is sent for an order only after the failure of one was
\* told; a crash is told even if the transaction had been sent, or is sent by
\* the next worker because its request was on its way.
SentAgainOnlyAfterFailure == \A o \in Orders : txs[o] <= 1

\* A message with priority, given before the last evaluation began, is not
\* dropped for lack of profit.
PriorityNotUnprofitable ==
    [][\A o \in Orders : place'[o] = "gone" /\ stage[o] = "again" => ~urgentSeen[o]]_vars

\* Each order is settled, whatever fails and if the wallet crashes: some time no
\* order is in the queues any more. But if the evaluator ends, the loop may wait
\* for its answer for ever.
OrdersSettle == <>[](~evaluator \/ \A o \in Orders : place[o] \in {"new", "gone"})
=============================================================================
