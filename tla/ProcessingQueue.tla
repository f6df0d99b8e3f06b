--------------------------- MODULE ProcessingQueue ---------------------------
(***************************************************************************)
(* The ProcessingQueue class and the loop of its callers (the wallet and   *)
(* the submitter workers): addOrders, processOrders, getFinishedOrders.    *)
(* A worker is single threaded, so a step runs from one await to the next. *)
(* The orders' own logic (handleOrder, handleFailedOrder, the hooks) is    *)
(* left open: it may return null, a promise, or throw, and may ask for a   *)
(* retry or not.                                                           *)
(***************************************************************************)
EXTENDS Integers, Sequences, FiniteSets

CONSTANTS
    Orders,         \* the orders callers may add
    NoOrder,        \* no order is being handled
    MaxTries,       \* maxTries
    MaxConcurrent   \* maxConcurrentOrders (Infinity: any value >= |Orders|)

ASSUME OrdersAssumption == IsFiniteSet(Orders) /\ NoOrder \notin Orders
ASSUME MaxTriesAssumption == MaxTries \in Nat \ {0}
ASSUME MaxConcurrentAssumption == MaxConcurrent \in Nat \ {0}

VARIABLES
    size,           \* _size
    newQueue,       \* newQueue; orders stay in it while they are handled
    retryQueue,     \* retryQueue
    due,            \* how many orders at the head of retryQueue are due
    batch,          \* retries processOrders has removed and not yet handled
    i,              \* how many orders of newQueue processOrders has taken
    cur,            \* the order processOrder is awaiting, or NoOrder
    stage,          \* where each order is
    retryCount,     \* retryCount of each order
    pendingCount,   \* _pendingCount
    owed,           \* `_pendingCount--` callbacks not yet run
    pc              \* where the caller's loop is

vars == <<size, newQueue, retryQueue, due, batch, i, cur, stage, retryCount,
          pendingCount, owed, pc>>

(* An order is "failing", "skipping" or "completing" from the moment its   *)
(* handling ended until the hooks return and it reaches its list.          *)
Active == {"batch", "handling", "pending", "completing", "skipping", "failing", "retry"}
Finished == {"completed", "skipped", "rejected"}
Stages == {"outside", "adding", "new"} \cup Active \cup Finished

At(S) == {o \in Orders : stage[o] \in S}
Elements(s) == {s[j] : j \in 1..Len(s)}

\* Orders whose promise was counted in _pendingCount and has not yet led to a list.
Promised == {o \in At({"pending", "completing", "skipping", "failing"}) : o # cur}

concurrentOrders == pendingCount + Len(retryQueue)

Init ==
    /\ size = 0
    /\ newQueue = <<>>
    /\ retryQueue = <<>>
    /\ due = 0
    /\ batch = <<>>
    /\ i = 0
    /\ cur = NoOrder
    /\ stage = [o \in Orders |-> "outside"]
    /\ retryCount = [o \in Orders |-> 0]
    /\ pendingCount = 0
    /\ owed = 0
    /\ pc = "call"

-----------------------------------------------------------------------------
(* addOrders: the size is raised before the await of onOrderInit, the      *)
(* order reaches the queue after it. Calls of several callers interleave.  *)

AddOrder(o) ==
    /\ stage[o] = "outside"
    /\ size' = size + 1
    /\ stage' = [stage EXCEPT ![o] = "adding"]
    /\ UNCHANGED <<newQueue, retryQueue, due, batch, i, cur, retryCount,
                   pendingCount, owed, pc>>

PushOrder(o) ==
    /\ stage[o] = "adding"
    /\ newQueue' = Append(newQueue, o)
    /\ stage' = [stage EXCEPT ![o] = "new"]
    /\ UNCHANGED <<size, retryQueue, due, batch, i, cur, retryCount,
                   pendingCount, owed, pc>>

-----------------------------------------------------------------------------
(* processOrders                                                           *)

\* retryInterval has passed for one more order; retryQueue is chronological.
RetryTimePasses ==
    /\ due < Len(retryQueue)
    /\ due' = due + 1
    /\ UNCHANGED <<size, newQueue, retryQueue, batch, i, cur, stage, retryCount,
                   pendingCount, owed, pc>>

\* Mutant: the bound is off by one.
HasCapacityAtBound == concurrentOrders <= MaxConcurrent

HasCapacity == concurrentOrders < MaxConcurrent

\* getOrdersToRetry, then the early return or the start of the loops.
ProcessOrders ==
    LET retries == {retryQueue[j] : j \in 1..due}
        rest == SubSeq(retryQueue, due + 1, Len(retryQueue))
    IN
    /\ pc = "call"
    /\ batch' = SubSeq(retryQueue, 1, due)
    /\ retryQueue' = rest
    /\ due' = 0
    /\ retryCount' = [o \in Orders |->
                        IF o \in retries THEN retryCount[o] + 1 ELSE retryCount[o]]
    /\ stage' = [o \in Orders |-> IF o \in retries THEN "batch" ELSE stage[o]]
    /\ pc' = IF \/ due > 0
                \/ newQueue # <<>> /\ pendingCount + Len(rest) < MaxConcurrent
             THEN "processing" ELSE "collect"
    /\ UNCHANGED <<size, newQueue, i, cur, pendingCount, owed>>

TakeRetry ==
    /\ pc = "processing" /\ cur = NoOrder /\ batch # <<>>
    /\ cur' = Head(batch)
    /\ batch' = Tail(batch)
    /\ stage' = [stage EXCEPT ![Head(batch)] = "handling"]
    /\ UNCHANGED <<size, newQueue, retryQueue, due, i, retryCount,
                   pendingCount, owed, pc>>

TakeNew ==
    /\ pc = "processing" /\ cur = NoOrder /\ batch = <<>>
    /\ i < Len(newQueue)
    /\ HasCapacity
    /\ i' = i + 1
    /\ cur' = newQueue[i + 1]
    /\ stage' = [stage EXCEPT ![newQueue[i + 1]] = "handling"]
    /\ retryCount' = [retryCount EXCEPT ![newQueue[i + 1]] = 0]
    /\ UNCHANGED <<size, newQueue, retryQueue, due, batch, pendingCount, owed, pc>>

RemoveProcessed(s, n) == SubSeq(s, n + 1, Len(s))

\* Mutant: the queue is cleared, and not cut by what was processed.
EndProcessingClears ==
    /\ pc = "processing" /\ cur = NoOrder /\ batch = <<>>
    /\ i >= Len(newQueue) \/ ~HasCapacity
    /\ newQueue' = <<>>
    /\ i' = 0
    /\ pc' = "collect"
    /\ UNCHANGED <<size, retryQueue, due, batch, cur, stage, retryCount,
                   pendingCount, owed>>

EndProcessing ==
    /\ pc = "processing" /\ cur = NoOrder /\ batch = <<>>
    /\ i >= Len(newQueue) \/ ~HasCapacity
    /\ newQueue' = RemoveProcessed(newQueue, i)
    /\ i' = 0
    /\ pc' = "collect"
    /\ UNCHANGED <<size, retryQueue, due, batch, cur, stage, retryCount,
                   pendingCount, owed>>

-----------------------------------------------------------------------------
(* processOrder: handleOrder returns null, a promise, or throws.           *)

HandleReturnsNull ==
    /\ cur # NoOrder /\ stage[cur] = "handling"
    /\ stage' = [stage EXCEPT ![cur] = "skipping"]
    /\ UNCHANGED <<size, newQueue, retryQueue, due, batch, i, cur, retryCount,
                   pendingCount, owed, pc>>

HandleReturnsPromise ==
    /\ cur # NoOrder /\ stage[cur] = "handling"
    /\ stage' = [stage EXCEPT ![cur] = "pending"]
    /\ pendingCount' = pendingCount + 1
    /\ cur' = NoOrder
    /\ UNCHANGED <<size, newQueue, retryQueue, due, batch, i, retryCount, owed, pc>>

HandleThrows ==
    /\ cur # NoOrder /\ stage[cur] = "handling"
    /\ stage' = [stage EXCEPT ![cur] = "failing"]
    /\ UNCHANGED <<size, newQueue, retryQueue, due, batch, i, cur, retryCount,
                   pendingCount, owed, pc>>

HandleOrder == HandleReturnsNull \/ HandleReturnsPromise \/ HandleThrows

\* The promise resolves to a result or to null, or rejects.
Settle(o) ==
    /\ stage[o] = "pending"
    /\ \E s \in {"completing", "skipping", "failing"} : stage' = [stage EXCEPT ![o] = s]
    /\ UNCHANGED <<size, newQueue, retryQueue, due, batch, i, cur, retryCount,
                   pendingCount, owed, pc>>

\* Mutant: the error callback of a promise forgets the counter.
LeaveUncounted(o) ==
    /\ cur' = IF o = cur THEN NoOrder ELSE cur
    /\ owed' = IF o # cur /\ stage[o] # "failing" THEN owed + 1 ELSE owed

\* The handler of an awaited order returns to the loop; that of a promise
\* leaves its `_pendingCount--` to a later microtask.
Leave(o) ==
    IF o = cur THEN cur' = NoOrder /\ UNCHANGED owed
               ELSE owed' = owed + 1 /\ UNCHANGED cur

HandleOrderSuccess(o) ==
    /\ stage[o] \in {"completing", "skipping"}
    /\ stage' = [stage EXCEPT ![o] = IF @ = "completing" THEN "completed" ELSE "skipped"]
    /\ Leave(o)
    /\ UNCHANGED <<size, newQueue, retryQueue, due, batch, i, retryCount,
                   pendingCount, pc>>

\* Mutant: one try too many.
MaxTriesExceeded(o) == retryCount[o] >= MaxTries

MaxTriesReached(o) == retryCount[o] >= MaxTries - 1

HandleOrderError(o) ==
    /\ stage[o] = "failing"
    /\ Leave(o)
    /\ \/ /\ MaxTriesReached(o)
          /\ stage' = [stage EXCEPT ![o] = "rejected"]
          /\ UNCHANGED retryQueue
       \/ /\ ~MaxTriesReached(o)
          /\ stage' = [stage EXCEPT ![o] = "retry"]
          /\ retryQueue' = Append(retryQueue, o)
       \/ /\ ~MaxTriesReached(o)
          /\ stage' = [stage EXCEPT ![o] = "skipped"]
          /\ UNCHANGED retryQueue
    /\ UNCHANGED <<size, newQueue, due, batch, i, retryCount, pendingCount, pc>>

DecrementPending ==
    /\ owed > 0
    /\ owed' = owed - 1
    /\ pendingCount' = pendingCount - 1
    /\ UNCHANGED <<size, newQueue, retryQueue, due, batch, i, cur, stage,
                   retryCount, pc>>

-----------------------------------------------------------------------------
(* getFinishedOrders, which the callers' loops run after processOrders.    *)

\* Mutant: the skipped orders are not subtracted.
GetFinishedUncounted ==
    /\ pc = "collect"
    /\ size' = size - Cardinality(At({"completed", "rejected"}))
    /\ stage' = [o \in Orders |-> IF stage[o] \in Finished THEN "outside" ELSE stage[o]]
    /\ pc' = "call"
    /\ UNCHANGED <<newQueue, retryQueue, due, batch, i, cur, retryCount,
                   pendingCount, owed>>

GetFinishedOrders ==
    /\ pc = "collect"
    /\ size' = size - Cardinality(At(Finished))
    /\ stage' = [o \in Orders |-> IF stage[o] \in Finished THEN "outside" ELSE stage[o]]
    /\ pc' = "call"
    /\ UNCHANGED <<newQueue, retryQueue, due, batch, i, cur, retryCount,
                   pendingCount, owed>>

Loop == ProcessOrders \/ TakeRetry \/ TakeNew \/ EndProcessing \/ GetFinishedOrders

Callback(o) == HandleOrderSuccess(o) \/ HandleOrderError(o)

Next ==
    \/ \E o \in Orders : AddOrder(o) \/ PushOrder(o) \/ Settle(o) \/ Callback(o)
    \/ RetryTimePasses
    \/ Loop
    \/ HandleOrder
    \/ DecrementPending

Spec == Init /\ [][Next]_vars

(* The callers loop forever; every await of the handlers (RPC calls with   *)
(* timeouts, tx.wait with a timeout) ends; timers fire; microtasks run.    *)
Fairness ==
    /\ WF_vars(Loop) /\ WF_vars(HandleOrder) /\ WF_vars(RetryTimePasses)
    /\ WF_vars(DecrementPending)
    /\ \A o \in Orders : /\ WF_vars(PushOrder(o))
                         /\ WF_vars(Settle(o))
                         /\ WF_vars(Callback(o))

FairSpec == Spec /\ Fairness

-----------------------------------------------------------------------------
TypeOK ==
    /\ size \in Int
    /\ newQueue \in Seq(Orders)
    /\ retryQueue \in Seq(Orders)
    /\ due \in 0..Len(retryQueue)
    /\ batch \in Seq(Orders)
    /\ i \in 0..Len(newQueue)
    /\ cur \in Orders \cup {NoOrder}
    /\ stage \in [Orders -> Stages]
    /\ retryCount \in [Orders -> Nat]
    /\ pendingCount \in Int
    /\ owed \in Nat
    /\ pc \in {"call", "processing", "collect"}

\* The orders counted by the callers' capacity checks are exactly those that
\* were added and not yet collected: getFinishedOrders subtracts each order
\* that addOrders added, once, whatever list it ended in.
SizeCountsOrders == size = Cardinality({o \in Orders : stage[o] # "outside"})

\* _pendingCount covers every outstanding promise, and exceeds their number
\* only by the decrements whose microtask has not run yet.
PendingCountCoversPromises == pendingCount = Cardinality(Promised) + owed

\* No more than maxConcurrentOrders orders are started and unresolved, counting
\* the one being handled and the retries that are in neither queue nor counter
\* while processOrders holds them.
ConcurrencyBound == Cardinality(At(Active)) <= MaxConcurrent

Injective(s) == \A j, k \in 1..Len(s) : s[j] = s[k] => j = k

\* addOrders may append to newQueue, and promises to retryQueue, while
\* processOrders walks over them: still no order is lost, handled twice, or in
\* two queues, and the prefix cut by the final splice holds no unhandled order.
QueuesHoldOrdersOnce ==
    /\ Injective(newQueue) /\ Injective(retryQueue) /\ Injective(batch)
    /\ Elements(RemoveProcessed(newQueue, i)) = At({"new"})
    /\ Elements(retryQueue) = At({"retry"})
    /\ Elements(batch) = At({"batch"})

\* An order is handled at most MaxTries times, and it is rejected only when the
\* last of its tries failed (callers report rejected orders as 'Max tries reached').
TriesBounded ==
    \A o \in Orders :
        /\ retryCount[o] < MaxTries
        /\ stage[o] = "retry" => retryCount[o] < MaxTries - 1
        /\ stage[o] = "rejected" => retryCount[o] = MaxTries - 1

\* The queue implements the pipeline it promises: started first in, first out,
\* at most MaxConcurrent at a time, and every outcome handed back once.
Pipeline ==
    INSTANCE OrderPipeline WITH
        backlog <- RemoveProcessed(newQueue, i),
        active <- At(Active),
        finished <- At(Finished)

ImplementsPipeline == Pipeline!Spec

\* Every order that was added is handed back to the caller, completed, skipped
\* or rejected, however often it fails and however many others wait.
EveryOrderReturned == \A o \in Orders : stage[o] = "adding" ~> stage[o] = "outside"
=============================================================================
