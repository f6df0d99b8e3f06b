------------------------ MODULE ProcessingQueueProofs ------------------------
(***************************************************************************)
(* Theorems about ProcessingQueue, for any finite set of orders, any       *)
(* number of tries and any concurrency.                                    *)
(***************************************************************************)
EXTENDS ProcessingQueue, FiniteSetTheorems, SequenceTheorems, TLAPS

-----------------------------------------------------------------------------
(* Sets of orders and the sequences the queues are made of.                *)

\* Sets of orders are finite and have a cardinality.
LEMMA OrderSetsFinite ==
    ASSUME NEW S \in SUBSET Orders
    PROVE  IsFiniteSet(S) /\ Cardinality(S) \in Nat
BY OrdersAssumption, FS_Subset, FS_CardinalityType

\* push adds one element at the end and keeps the elements distinct.
LEMMA AppendFacts ==
    ASSUME NEW S, NEW s \in Seq(S), NEW e \in S
    PROVE  /\ Append(s, e) \in Seq(S)
           /\ Len(Append(s, e)) = Len(s) + 1
           /\ \A j \in 1..Len(s) : Append(s, e)[j] = s[j]
           /\ Append(s, e)[Len(s) + 1] = e
           /\ Elements(Append(s, e)) = Elements(s) \cup {e}
           /\ Injective(s) /\ e \notin Elements(s) => Injective(Append(s, e))
<1>1. /\ Append(s, e) \in Seq(S)
      /\ Len(Append(s, e)) = Len(s) + 1
      /\ \A j \in 1..Len(s) : Append(s, e)[j] = s[j]
      /\ Append(s, e)[Len(s) + 1] = e
      /\ Len(s) \in Nat
  OBVIOUS
<1>2. 1..(Len(s) + 1) = (1..Len(s)) \cup {Len(s) + 1}
  BY <1>1
<1>3. Elements(Append(s, e)) = Elements(s) \cup {e}
  <2>1. ASSUME NEW x \in Elements(Append(s, e)) PROVE x \in Elements(s) \cup {e}
    BY <1>1, <1>2, <2>1 DEF Elements
  <2>2. ASSUME NEW x \in Elements(s) PROVE x \in Elements(Append(s, e))
    BY <1>1, <1>2 DEF Elements
  <2>3. e \in Elements(Append(s, e))
    BY <1>1, <1>2 DEF Elements
  <2> QED BY <2>1, <2>2, <2>3
<1>4. Injective(s) /\ e \notin Elements(s) => Injective(Append(s, e))
  BY <1>1, <1>2 DEF Elements, Injective
<1> QED BY <1>1, <1>3, <1>4

\* splice(0, n) divides a sequence of distinct elements into two disjoint ones.
LEMMA CutFacts ==
    ASSUME NEW S, NEW s \in Seq(S), NEW n \in 0..Len(s)
    PROVE  /\ SubSeq(s, 1, n) \in Seq(S) /\ SubSeq(s, n + 1, Len(s)) \in Seq(S)
           /\ Len(SubSeq(s, 1, n)) = n /\ Len(SubSeq(s, n + 1, Len(s))) = Len(s) - n
           /\ \A j \in 1..n : SubSeq(s, 1, n)[j] = s[j]
           /\ \A j \in 1..(Len(s) - n) : SubSeq(s, n + 1, Len(s))[j] = s[n + j]
           /\ Elements(SubSeq(s, 1, n)) = {s[j] : j \in 1..n}
           /\ Elements(SubSeq(s, n + 1, Len(s))) = {s[j] : j \in (n + 1)..Len(s)}
           /\ Elements(s) = {s[j] : j \in 1..n} \cup {s[j] : j \in (n + 1)..Len(s)}
           /\ Injective(s) =>
                /\ Injective(SubSeq(s, 1, n)) /\ Injective(SubSeq(s, n + 1, Len(s)))
                /\ {s[j] : j \in 1..n} \cap {s[j] : j \in (n + 1)..Len(s)} = {}
<1> DEFINE front == SubSeq(s, 1, n)
           back == SubSeq(s, n + 1, Len(s))
<1>1. Len(s) \in Nat /\ n \in Nat /\ n <= Len(s)
  OBVIOUS
<1>2. front \in Seq(S) /\ Len(front) = n /\ \A j \in 1..n : front[j] = s[j]
  BY <1>1
<1>3. back \in Seq(S) /\ Len(back) = Len(s) - n /\ \A j \in 1..(Len(s) - n) : back[j] = s[n + j]
  BY <1>1
<1> HIDE DEF front, back
<1>4. Elements(front) = {s[j] : j \in 1..n}
  BY <1>2 DEF Elements
<1>5. Elements(back) = {s[j] : j \in (n + 1)..Len(s)}
  <2>1. ASSUME NEW j \in 1..(Len(s) - n) PROVE back[j] \in {s[k] : k \in (n + 1)..Len(s)}
    BY <1>1, <1>3
  <2>2. ASSUME NEW k \in (n + 1)..Len(s) PROVE s[k] \in Elements(back)
    <3>1. k - n \in 1..(Len(s) - n) /\ n + (k - n) = k
      BY <1>1
    <3>2. s[k] = back[k - n]
      BY <1>3, <3>1
    <3> QED BY <1>3, <3>1, <3>2 DEF Elements
  <2> QED BY <1>3, <2>1, <2>2 DEF Elements
<1>6. 1..Len(s) = (1..n) \cup ((n + 1)..Len(s)) /\ (1..n) \cap ((n + 1)..Len(s)) = {}
  BY <1>1
<1>7. Elements(s) = {s[j] : j \in 1..n} \cup {s[j] : j \in (n + 1)..Len(s)}
  BY <1>6 DEF Elements
<1>8. ASSUME Injective(s)
      PROVE  /\ Injective(front) /\ Injective(back)
             /\ {s[j] : j \in 1..n} \cap {s[j] : j \in (n + 1)..Len(s)} = {}
  <2>1. Injective(front)
    BY <1>1, <1>2, <1>8 DEF Injective
  <2>2. ASSUME NEW j \in 1..(Len(s) - n), NEW k \in 1..(Len(s) - n), back[j] = back[k] PROVE j = k
    <3>1. n + j \in 1..Len(s) /\ n + k \in 1..Len(s)
      BY <1>1
    <3>2. s[n + j] = s[n + k]
      BY <1>3, <2>2
    <3>3. n + j = n + k
      BY <1>8, <3>1, <3>2 DEF Injective
    <3> QED BY <1>1, <3>3
  <2>3. Injective(back)
    BY <1>3, <2>2 DEF Injective
  <2>4. ASSUME NEW j \in 1..n, NEW k \in (n + 1)..Len(s) PROVE s[j] # s[k]
    BY <1>6, <1>8 DEF Injective
  <2> QED BY <2>1, <2>3, <2>4
<1> QED BY <1>2, <1>3, <1>4, <1>5, <1>7, <1>8 DEF front, back

\* Taking the head of a sequence of distinct elements removes exactly that element.
LEMMA TailFacts ==
    ASSUME NEW S, NEW s \in Seq(S), s # <<>>
    PROVE  /\ Head(s) \in S /\ Tail(s) \in Seq(S) /\ Head(s) \in Elements(s)
           /\ Injective(s) => Injective(Tail(s)) /\ Elements(Tail(s)) = Elements(s) \ {Head(s)}
<1>1. Len(s) \in Nat \ {0} /\ Head(s) = s[1] /\ s[1] \in S /\ Tail(s) \in Seq(S)
  OBVIOUS
<1>2. Len(Tail(s)) = Len(s) - 1 /\ \A j \in 1..(Len(s) - 1) : Tail(s)[j] = s[j + 1]
  OBVIOUS
<1>3. Head(s) \in Elements(s)
  BY <1>1 DEF Elements
<1>4. ASSUME Injective(s) PROVE Injective(Tail(s)) /\ Elements(Tail(s)) = Elements(s) \ {Head(s)}
  <2>1. Injective(Tail(s))
    <3> SUFFICES ASSUME NEW j \in 1..(Len(s) - 1), NEW k \in 1..(Len(s) - 1), s[j + 1] = s[k + 1]
                 PROVE  j = k
      BY <1>2 DEF Injective
    <3>1. j + 1 \in 1..Len(s) /\ k + 1 \in 1..Len(s)
      BY <1>1
    <3> QED BY <1>1, <1>4, <3>1 DEF Injective
  <2>2. ASSUME NEW j \in 1..(Len(s) - 1) PROVE s[j + 1] \in Elements(s) /\ s[j + 1] # s[1]
    <3>1. j + 1 \in 1..Len(s) /\ 1 \in 1..Len(s) /\ j + 1 # 1
      BY <1>1
    <3> QED BY <1>4, <3>1 DEF Injective, Elements
  <2>3. ASSUME NEW k \in 1..Len(s), s[k] # s[1] PROVE s[k] \in Elements(Tail(s))
    <3>1. k - 1 \in 1..(Len(s) - 1) /\ (k - 1) + 1 = k
      BY <1>1, <2>3
    <3>2. s[k] = Tail(s)[k - 1]
      BY <1>2, <3>1
    <3> QED BY <1>2, <3>1, <3>2 DEF Elements
  <2> QED BY <1>1, <1>2, <2>1, <2>2, <2>3 DEF Elements
<1> QED BY <1>1, <1>3, <1>4

\* A sequence of distinct elements is as long as it has elements.
LEMMA LengthIsCardinality ==
    ASSUME NEW s \in Seq(Orders), Injective(s)
    PROVE  Cardinality(Elements(s)) = Len(s)
<1>1. Len(s) \in Nat /\ IsFiniteSet(1..Len(s)) /\ Cardinality(1..Len(s)) = Len(s)
  <2>1. Len(s) \in Nat
    OBVIOUS
  <2> QED BY <2>1, FS_Interval
<1> DEFINE f == [j \in 1..Len(s) |-> s[j]]
<1>2. f \in Bijection(1..Len(s), Elements(s))
  BY DEF Bijection, Injection, Surjection, IsInjective, Injective, Elements
<1>3. ExistsBijection(1..Len(s), Elements(s))
  BY <1>2 DEF ExistsBijection
<1> QED BY <1>1, <1>3, FS_Bijection
\* Every variable of the queue keeps its type along every behaviour.
THEOREM TypeCorrect == Spec => []TypeOK
<1>1. Init => TypeOK
  BY DEF Init, TypeOK, Stages
<1>2. TypeOK /\ [Next]_vars => TypeOK'
  <2> SUFFICES ASSUME TypeOK, [Next]_vars PROVE TypeOK'
    OBVIOUS
  <2> USE DEF TypeOK
  <2>1. ASSUME NEW o \in Orders, AddOrder(o) PROVE TypeOK'
    BY <2>1 DEF AddOrder, Stages
  <2>2. ASSUME NEW o \in Orders, PushOrder(o) PROVE TypeOK'
    BY <2>2 DEF PushOrder, Stages
  <2>3. ASSUME NEW o \in Orders, Settle(o) PROVE TypeOK'
    BY <2>3 DEF Settle, Stages, Active
  <2>4. ASSUME NEW o \in Orders, HandleOrderSuccess(o) PROVE TypeOK'
    BY <2>4 DEF HandleOrderSuccess, Leave, Stages, Finished
  <2>5. ASSUME NEW o \in Orders, HandleOrderError(o) PROVE TypeOK'
    <3>1. \/ retryQueue' = retryQueue /\ stage' = [stage EXCEPT ![o] = "rejected"]
          \/ retryQueue' = retryQueue /\ stage' = [stage EXCEPT ![o] = "skipped"]
          \/ retryQueue' = Append(retryQueue, o) /\ stage' = [stage EXCEPT ![o] = "retry"]
      BY <2>5 DEF HandleOrderError
    <3>2. stage' \in [Orders -> Stages]
      BY <3>1 DEF Stages, Finished, Active
    <3>3. retryQueue \in Seq(Orders) /\ due \in 0..Len(retryQueue)
      OBVIOUS
    <3>4. cur' \in Orders \cup {NoOrder} /\ owed' \in Nat
      BY <2>5 DEF HandleOrderError, Leave
    <3>5. retryQueue' \in Seq(Orders) /\ due \in 0..Len(retryQueue')
      <4> HIDE DEF TypeOK
      <4>1. CASE retryQueue' = retryQueue
        BY <3>3, <4>1
      <4>2. CASE retryQueue' = Append(retryQueue, o)
        <5>1. Append(retryQueue, o) \in Seq(Orders)
              /\ Len(Append(retryQueue, o)) = Len(retryQueue) + 1
          BY <3>3, AppendFacts
        <5> QED BY <3>3, <4>2, <5>1
      <4> QED BY <3>1, <4>1, <4>2
    <3> QED BY <2>5, <3>2, <3>4, <3>5 DEF HandleOrderError
  <2>6. CASE RetryTimePasses
    BY <2>6 DEF RetryTimePasses
  <2>7. CASE ProcessOrders
    <3>1. stage' \in [Orders -> Stages]
      BY <2>7 DEF ProcessOrders, Stages, Active
    <3>2. retryCount' \in [Orders -> Nat]
      BY <2>7 DEF ProcessOrders
    <3>3. /\ SubSeq(retryQueue, 1, due) \in Seq(Orders)
          /\ SubSeq(retryQueue, due + 1, Len(retryQueue)) \in Seq(Orders)
      <4>1. retryQueue \in Seq(Orders) /\ due \in 0..Len(retryQueue)
        OBVIOUS
      <4> QED BY ONLY <4>1, CutFacts
    <3>4. /\ batch' \in Seq(Orders)
          /\ retryQueue' \in Seq(Orders)
          /\ due' = 0
          /\ pc' \in {"call", "processing", "collect"}
      <4> HIDE DEF TypeOK
      <4> QED BY <2>7, <3>3 DEF ProcessOrders
    <3>5. due' \in 0..Len(retryQueue')
      BY <3>4
    <3> QED BY <2>7, <3>1, <3>2, <3>4, <3>5 DEF ProcessOrders
  <2>8. CASE TakeRetry
    BY <2>8 DEF TakeRetry, Stages, Active
  <2>9. CASE TakeNew
    BY <2>9 DEF TakeNew, Stages, Active
  <2>10. CASE EndProcessing
    BY <2>10 DEF EndProcessing, RemoveProcessed
  <2>11. CASE GetFinishedOrders
    <3>1. Cardinality(At(Finished)) \in Nat
      BY OrderSetsFinite DEF At
    <3> QED BY <2>11, <3>1 DEF GetFinishedOrders, Stages
  <2>12. CASE HandleReturnsNull
    BY <2>12 DEF HandleReturnsNull, Stages, Active
  <2>13. CASE HandleReturnsPromise
    BY <2>13 DEF HandleReturnsPromise, Stages, Active
  <2>14. CASE HandleThrows
    BY <2>14 DEF HandleThrows, Stages, Active
  <2>15. CASE DecrementPending
    BY <2>15 DEF DecrementPending
  <2>16. CASE UNCHANGED vars
    BY <2>16 DEF vars
  <2> QED
    BY <2>1, <2>2, <2>3, <2>4, <2>5, <2>6, <2>7, <2>8, <2>9, <2>10, <2>11, <2>12,
       <2>13, <2>14, <2>15, <2>16
       DEF Next, Loop, HandleOrder, Callback
<1> QED BY <1>1, <1>2, PTL DEF Spec

-----------------------------------------------------------------------------
(* The queues. processOrders is the only one to cut them, and what it has  *)
(* cut or taken is in `batch`, in `cur` or before `i`; the invariant ties  *)
(* these to the stages of the orders.                                      *)

LoopInv ==
    /\ pc # "processing" => cur = NoOrder /\ batch = <<>> /\ i = 0
    /\ cur # NoOrder => stage[cur] \in {"handling", "skipping", "failing"}
    /\ \A o \in Orders : stage[o] = "handling" => o = cur

QueueInv ==
    /\ TypeOK
    /\ LoopInv
    /\ QueuesHoldOrdersOnce
    /\ Elements(newQueue) \cap At({"outside", "adding"}) = {}

\* The first i orders of newQueue have been taken; the others are the new ones.
LEMMA RemoveProcessedFacts ==
    ASSUME NEW s \in Seq(Orders), NEW n \in 0..Len(s)
    PROVE  /\ RemoveProcessed(s, n) \in Seq(Orders)
           /\ Elements(RemoveProcessed(s, n)) = {s[j] : j \in (n + 1)..Len(s)}
           /\ Elements(RemoveProcessed(s, n)) \subseteq Elements(s)
           /\ Injective(s) => Injective(RemoveProcessed(s, n))
           /\ n = 0 => Elements(RemoveProcessed(s, n)) = Elements(s)
<1> DEFINE back == SubSeq(s, n + 1, Len(s))
<1>1. /\ back \in Seq(Orders)
      /\ Elements(back) = {s[j] : j \in (n + 1)..Len(s)}
      /\ Elements(s) = {s[j] : j \in 1..n} \cup {s[j] : j \in (n + 1)..Len(s)}
      /\ Injective(s) => Injective(back)
  BY CutFacts
<1>2. n = 0 => {s[j] : j \in (n + 1)..Len(s)} = Elements(s)
  BY DEF Elements
<1> HIDE DEF back
<1>3. RemoveProcessed(s, n) = back
  BY DEF RemoveProcessed, back
<1> QED BY ONLY <1>1, <1>2, <1>3

\* A step that neither touches a queue nor moves an order into or out of one.
LEMMA QueuesUntouched ==
    ASSUME QueuesHoldOrdersOnce,
           UNCHANGED <<newQueue, retryQueue, batch, i>>,
           \A o \in Orders : stage'[o] # stage[o] =>
               stage[o] \notin {"new", "retry", "batch"} /\ stage'[o] \notin {"new", "retry", "batch"}
    PROVE  QueuesHoldOrdersOnce'
<1>1. At({"new"})' = At({"new"}) /\ At({"retry"})' = At({"retry"}) /\ At({"batch"})' = At({"batch"})
  BY DEF At
<1> QED BY <1>1 DEF QueuesHoldOrdersOnce

LEMMA QueueStep ==
    ASSUME QueueInv, TypeOK', [Next]_vars
    PROVE  QueueInv'
<1> SUFFICES LoopInv' /\ QueuesHoldOrdersOnce' /\ (Elements(newQueue) \cap At({"outside", "adding"}) = {})'
  BY DEF QueueInv
<1>0. /\ newQueue \in Seq(Orders) /\ retryQueue \in Seq(Orders) /\ batch \in Seq(Orders)
      /\ stage \in [Orders -> Stages] /\ i \in 0..Len(newQueue) /\ due \in 0..Len(retryQueue)
      /\ cur \in Orders \cup {NoOrder} /\ i \in Nat
  BY DEF QueueInv, TypeOK
<1>q. /\ Injective(newQueue) /\ Injective(retryQueue) /\ Injective(batch)
      /\ Elements(RemoveProcessed(newQueue, i)) = At({"new"})
      /\ Elements(retryQueue) = At({"retry"}) /\ Elements(batch) = At({"batch"})
      /\ QueuesHoldOrdersOnce
  BY DEF QueueInv, QueuesHoldOrdersOnce
<1>l. /\ pc # "processing" => cur = NoOrder /\ batch = <<>> /\ i = 0
      /\ cur # NoOrder => stage[cur] \in {"handling", "skipping", "failing"}
      /\ \A o \in Orders : stage[o] = "handling" => o = cur
      /\ NoOrder \notin Orders
  BY OrdersAssumption DEF QueueInv, LoopInv
<1>e. Elements(newQueue) \cap At({"outside", "adding"}) = {}
  BY DEF QueueInv
<1>1. ASSUME NEW o \in Orders, AddOrder(o)
      PROVE  LoopInv' /\ QueuesHoldOrdersOnce' /\ (Elements(newQueue) \cap At({"outside", "adding"}) = {})'
  <2>1. stage[o] = "outside" /\ stage' = [stage EXCEPT ![o] = "adding"]
        /\ UNCHANGED <<newQueue, retryQueue, batch, i, cur, pc>>
    BY <1>1 DEF AddOrder
  <2>2. LoopInv'
    BY <1>0, <1>l, <2>1 DEF LoopInv
  <2>3. QueuesHoldOrdersOnce'
    BY <1>0, <1>q, <2>1, QueuesUntouched
  <2>4. At({"outside", "adding"})' = At({"outside", "adding"})
    BY <1>0, <2>1 DEF At
  <2> QED BY <1>e, <2>1, <2>2, <2>3, <2>4 DEF Elements
<1>2. ASSUME NEW o \in Orders, PushOrder(o)
      PROVE  LoopInv' /\ QueuesHoldOrdersOnce' /\ (Elements(newQueue) \cap At({"outside", "adding"}) = {})'
  <2>1. stage[o] = "adding" /\ stage' = [stage EXCEPT ![o] = "new"] /\ newQueue' = Append(newQueue, o)
        /\ UNCHANGED <<retryQueue, batch, i, cur, pc>>
    BY <1>2 DEF PushOrder
  <2>2. LoopInv'
    BY <1>0, <1>l, <2>1 DEF LoopInv
  <2>3. o \notin Elements(newQueue)
    BY <1>e, <2>1 DEF At
  <2>4. /\ newQueue' \in Seq(Orders) /\ Len(newQueue') = Len(newQueue) + 1
        /\ \A j \in 1..Len(newQueue) : newQueue'[j] = newQueue[j]
        /\ newQueue'[Len(newQueue) + 1] = o
        /\ Elements(newQueue') = Elements(newQueue) \cup {o}
        /\ Injective(newQueue')
    BY ONLY <1>0, <1>q, <2>1, <2>3, AppendFacts
  <2>5. At({"new"})' = At({"new"}) \cup {o} /\ At({"retry"})' = At({"retry"})
        /\ At({"batch"})' = At({"batch"})
        /\ At({"outside", "adding"})' = At({"outside", "adding"}) \ {o}
    BY <1>0, <2>1 DEF At
  <2>6. Elements(RemoveProcessed(newQueue', i)) = Elements(RemoveProcessed(newQueue, i)) \cup {o}
    <3>1. Elements(RemoveProcessed(newQueue, i)) = {newQueue[j] : j \in (i + 1)..Len(newQueue)}
      BY <1>0, RemoveProcessedFacts
    <3>2. Elements(RemoveProcessed(newQueue', i)) = {newQueue'[j] : j \in (i + 1)..(Len(newQueue) + 1)}
      <4>1. i \in 0..Len(newQueue')
        BY ONLY <1>0, <2>4
      <4> QED BY ONLY <2>4, <4>1, RemoveProcessedFacts
    <3>3. (i + 1)..(Len(newQueue) + 1) = ((i + 1)..Len(newQueue)) \cup {Len(newQueue) + 1}
      BY ONLY <1>0
    <3>4. \A j \in (i + 1)..Len(newQueue) : newQueue'[j] = newQueue[j]
      BY ONLY <1>0, <2>4
    <3> QED BY ONLY <2>4, <3>1, <3>2, <3>3, <3>4
  <2> QED BY <1>q, <1>e, <2>1, <2>2, <2>4, <2>5, <2>6
          DEF QueuesHoldOrdersOnce
<1>3. ASSUME NEW o \in Orders, Settle(o) \/ HandleOrderSuccess(o)
      PROVE  LoopInv' /\ QueuesHoldOrdersOnce' /\ (Elements(newQueue) \cap At({"outside", "adding"}) = {})'
  <2>1. /\ UNCHANGED <<newQueue, retryQueue, batch, i, pc>>
        /\ stage[o] \in {"pending", "completing", "skipping"}
        /\ stage' \in [Orders -> Stages]
        /\ stage'[o] \in {"completing", "skipping", "failing", "completed", "skipped"}
        /\ \A x \in Orders : x # o => stage'[x] = stage[x]
        /\ \/ cur' = cur /\ o # cur
           \/ cur' = NoOrder /\ o = cur
           \/ cur' = cur /\ stage[o] = "pending"
    BY <1>3, <1>0, <1>l DEF Settle, HandleOrderSuccess, Leave, TypeOK
  <2>2. LoopInv'
    BY <1>0, <1>l, <2>1 DEF LoopInv
  <2>3. QueuesHoldOrdersOnce'
    BY <1>0, <1>q, <2>1, QueuesUntouched
  <2>4. At({"outside", "adding"})' = At({"outside", "adding"})
    BY <1>0, <2>1 DEF At
  <2> QED BY <1>e, <2>1, <2>2, <2>3, <2>4 DEF Elements
<1>4. ASSUME NEW o \in Orders, HandleOrderError(o)
      PROVE  LoopInv' /\ QueuesHoldOrdersOnce' /\ (Elements(newQueue) \cap At({"outside", "adding"}) = {})'
  <2>1. /\ UNCHANGED <<newQueue, batch, i, pc>>
        /\ stage[o] = "failing"
        /\ \A x \in Orders : x # o => stage'[x] = stage[x]
        /\ \/ cur' = cur /\ o # cur
           \/ cur' = NoOrder /\ o = cur
        /\ \/ retryQueue' = retryQueue /\ stage'[o] \in {"rejected", "skipped"}
           \/ retryQueue' = Append(retryQueue, o) /\ stage'[o] = "retry"
    BY <1>4, <1>0 DEF HandleOrderError, Leave, TypeOK
  <2>2. LoopInv'
    BY <1>0, <1>l, <2>1 DEF LoopInv
  <2>3. ASSUME retryQueue' = retryQueue, stage'[o] \in {"rejected", "skipped"}
        PROVE  QueuesHoldOrdersOnce'
    <3>1. \A x \in Orders : stage'[x] # stage[x] =>
             stage[x] \notin {"new", "retry", "batch"} /\ stage'[x] \notin {"new", "retry", "batch"}
      BY <2>1, <2>3
    <3> QED BY <1>q, <2>1, <2>3, <3>1, QueuesUntouched
  <2>4. ASSUME retryQueue' = Append(retryQueue, o), stage'[o] = "retry"
        PROVE  QueuesHoldOrdersOnce'
    <3>1. o \notin Elements(retryQueue)
      BY <1>q, <2>1 DEF At
    <3>2. Elements(retryQueue') = Elements(retryQueue) \cup {o} /\ Injective(retryQueue')
      BY ONLY <1>0, <1>q, <2>4, <3>1, AppendFacts
    <3>3. At({"retry"})' = At({"retry"}) \cup {o} /\ At({"new"})' = At({"new"})
          /\ At({"batch"})' = At({"batch"})
      BY <1>0, <2>1, <2>4 DEF At
    <3> QED BY <1>q, <2>1, <3>2, <3>3 DEF QueuesHoldOrdersOnce
  <2>5. At({"outside", "adding"})' = At({"outside", "adding"})
    BY <1>0, <2>1 DEF At
  <2> QED BY <1>e, <2>1, <2>2, <2>3, <2>4, <2>5 DEF Elements
<1>5. CASE ProcessOrders
  <2> DEFINE taken == {retryQueue[j] : j \in 1..due}
             left == {retryQueue[j] : j \in (due + 1)..Len(retryQueue)}
  <2>1. /\ pc = "call"
        /\ batch' = SubSeq(retryQueue, 1, due)
        /\ retryQueue' = SubSeq(retryQueue, due + 1, Len(retryQueue))
        /\ stage' = [o \in Orders |-> IF o \in taken THEN "batch" ELSE stage[o]]
        /\ pc' \in {"processing", "collect"}
        /\ due = 0 => batch' = <<>>
        /\ due > 0 => pc' = "processing"
        /\ UNCHANGED <<newQueue, i, cur>>
    BY <1>5, <1>0 DEF ProcessOrders
  <2>2. batch = <<>> /\ cur = NoOrder /\ i = 0
    BY <1>l, <2>1
  <2>3. /\ Elements(batch') = taken /\ Elements(retryQueue') = left
        /\ Elements(retryQueue) = taken \cup left /\ taken \cap left = {}
        /\ Injective(batch') /\ Injective(retryQueue')
    <3>1. retryQueue \in Seq(Orders) /\ due \in 0..Len(retryQueue) /\ Injective(retryQueue)
      BY <1>0, <1>q
    <3>2. /\ Elements(SubSeq(retryQueue, 1, due)) = taken
          /\ Elements(SubSeq(retryQueue, due + 1, Len(retryQueue))) = left
          /\ Elements(retryQueue) = taken \cup left /\ taken \cap left = {}
          /\ Injective(SubSeq(retryQueue, 1, due))
          /\ Injective(SubSeq(retryQueue, due + 1, Len(retryQueue)))
      <4>1. /\ Elements(SubSeq(retryQueue, 1, due)) = taken
            /\ Elements(SubSeq(retryQueue, due + 1, Len(retryQueue))) = left
            /\ Elements(retryQueue) = taken \cup left
        BY ONLY <3>1, CutFacts
      <4>2. Injective(SubSeq(retryQueue, 1, due))
        BY ONLY <3>1, CutFacts
      <4>3. Injective(SubSeq(retryQueue, due + 1, Len(retryQueue)))
        BY ONLY <3>1, CutFacts
      <4>4. taken \cap left = {}
        <5> SUFFICES ASSUME NEW j \in 1..due, NEW k \in (due + 1)..Len(retryQueue)
                     PROVE  retryQueue[j] # retryQueue[k]
          OBVIOUS
        <5>1. j \in 1..Len(retryQueue) /\ k \in 1..Len(retryQueue) /\ j # k
          BY ONLY <3>1
        <5> QED BY ONLY <3>1, <5>1 DEF Injective
      <4> QED BY <4>1, <4>2, <4>3, <4>4
    <3> QED BY <2>1, <3>2
  <2>4. At({"batch"}) = {}
    BY <1>q, <2>2 DEF Elements
  <2>5. taken \subseteq At({"retry"})
    BY <1>q, <2>3
  <2> HIDE DEF taken, left
  <2>6. \A o \in Orders : stage'[o] = IF o \in taken THEN "batch" ELSE stage[o]
    BY <2>1
  <2>7. At({"batch"})' = taken
    BY <1>0, <2>4, <2>5, <2>6 DEF At
  <2>8. At({"retry"})' = left
    BY <1>0, <1>q, <2>3, <2>5, <2>6 DEF At
  <2>9. At({"new"})' = At({"new"}) /\ At({"outside", "adding"})' = At({"outside", "adding"})
    BY <1>0, <2>5, <2>6 DEF At
  <2>10. LoopInv'
    <3>1. \A o \in Orders : stage'[o] # "handling"
      BY <1>0, <1>l, <2>2, <2>6
    <3>2. due = 0 \/ due > 0
      BY <1>0
    <3> QED BY <2>1, <2>2, <3>1, <3>2 DEF LoopInv
  <2> QED BY <1>q, <1>e, <2>1, <2>3, <2>7, <2>8, <2>9, <2>10
          DEF QueuesHoldOrdersOnce
<1>6. CASE TakeRetry
  <2>1. /\ pc = "processing" /\ cur = NoOrder /\ batch # <<>>
        /\ cur' = Head(batch) /\ batch' = Tail(batch)
        /\ stage' = [stage EXCEPT ![Head(batch)] = "handling"]
        /\ UNCHANGED <<newQueue, retryQueue, i, pc>>
    BY <1>6 DEF TakeRetry
  <2>2. /\ Head(batch) \in Orders /\ Head(batch) \in Elements(batch)
        /\ Injective(batch') /\ Elements(batch') = Elements(batch) \ {Head(batch)}
    BY ONLY <1>0, <1>q, <2>1, TailFacts
  <2>3. stage[Head(batch)] = "batch"
    BY <1>q, <2>2 DEF At
  <2> DEFINE o == Head(batch)
  <2> HIDE DEF o
  <2>4. /\ o \in Orders /\ stage[o] = "batch" /\ cur' = o
        /\ stage' = [stage EXCEPT ![o] = "handling"]
        /\ Elements(batch') = Elements(batch) \ {o}
    BY <2>1, <2>2, <2>3 DEF o
  <2>5. LoopInv'
    BY <1>0, <1>l, <2>1, <2>4 DEF LoopInv
  <2>6. At({"batch"})' = At({"batch"}) \ {o} /\ At({"new"})' = At({"new"})
        /\ At({"retry"})' = At({"retry"})
        /\ At({"outside", "adding"})' = At({"outside", "adding"})
    BY <1>0, <2>4 DEF At
  <2> QED BY <1>q, <1>e, <2>1, <2>2, <2>4, <2>5, <2>6
          DEF QueuesHoldOrdersOnce
<1>7. CASE TakeNew
  <2> DEFINE o == newQueue[i + 1]
  <2>1. /\ pc = "processing" /\ cur = NoOrder /\ batch = <<>> /\ i < Len(newQueue)
        /\ i' = i + 1 /\ cur' = o
        /\ stage' = [stage EXCEPT ![o] = "handling"]
        /\ UNCHANGED <<newQueue, retryQueue, batch, pc>>
    BY <1>7 DEF TakeNew
  <2>2. i + 1 \in 1..Len(newQueue) /\ i + 1 \in (i + 1)..Len(newQueue) /\ i + 1 \in 0..Len(newQueue)
    BY <1>0, <2>1
  <2>3. /\ Elements(RemoveProcessed(newQueue, i)) = {newQueue[j] : j \in (i + 1)..Len(newQueue)}
        /\ Elements(RemoveProcessed(newQueue, i + 1)) = {newQueue[j] : j \in (i + 2)..Len(newQueue)}
    <3>1. /\ Elements(RemoveProcessed(newQueue, i)) = {newQueue[j] : j \in (i + 1)..Len(newQueue)}
          /\ Elements(RemoveProcessed(newQueue, i + 1)) = {newQueue[j] : j \in ((i + 1) + 1)..Len(newQueue)}
      BY ONLY <1>0, <2>2, RemoveProcessedFacts
    <3>2. (i + 1) + 1 = i + 2
      BY ONLY <1>0
    <3> QED BY ONLY <3>1, <3>2
  <2>4. (i + 1)..Len(newQueue) = {i + 1} \cup ((i + 2)..Len(newQueue))
        /\ i + 1 \notin (i + 2)..Len(newQueue)
        /\ (i + 2)..Len(newQueue) \subseteq 1..Len(newQueue)
    BY ONLY <1>0, <2>1
  <2>5. o \notin {newQueue[j] : j \in (i + 2)..Len(newQueue)}
    BY <1>q, <2>2, <2>4 DEF Injective
  <2>6. Elements(RemoveProcessed(newQueue, i + 1)) = Elements(RemoveProcessed(newQueue, i)) \ {o}
    BY <2>3, <2>4, <2>5
  <2>7. o \in Elements(RemoveProcessed(newQueue, i))
    BY <2>2, <2>3
  <2> HIDE DEF o
  <2>8. o \in Orders /\ stage[o] = "new"
    BY <1>q, <2>7 DEF At
  <2>9. LoopInv'
    BY <1>0, <1>l, <2>1, <2>8 DEF LoopInv
  <2>10. At({"batch"})' = At({"batch"}) /\ At({"new"})' = At({"new"}) \ {o}
         /\ At({"retry"})' = At({"retry"})
         /\ At({"outside", "adding"})' = At({"outside", "adding"})
    BY <1>0, <2>1, <2>8 DEF At
  <2> QED BY <1>q, <1>e, <2>1, <2>6, <2>9, <2>10 DEF QueuesHoldOrdersOnce
<1>8. CASE EndProcessing
  <2>1. /\ cur = NoOrder /\ batch = <<>>
        /\ newQueue' = RemoveProcessed(newQueue, i) /\ i' = 0 /\ pc' = "collect"
        /\ UNCHANGED <<retryQueue, batch, cur, stage>>
    BY <1>8 DEF EndProcessing
  <2>2. newQueue' \in Seq(Orders) /\ Injective(newQueue')
        /\ Elements(newQueue') \subseteq Elements(newQueue)
    BY ONLY <1>0, <1>q, <2>1, RemoveProcessedFacts
  <2>3. Elements(RemoveProcessed(newQueue', 0)) = Elements(newQueue')
    <3>1. 0 \in 0..Len(newQueue')
      BY ONLY <2>2
    <3> QED BY ONLY <2>2, <3>1, RemoveProcessedFacts
  <2>4. LoopInv'
    BY <1>0, <1>l, <2>1 DEF LoopInv
  <2>5. \A S : At(S)' = At(S)
    BY <2>1 DEF At
  <2> QED BY <1>q, <1>e, <2>1, <2>2, <2>3, <2>4, <2>5
          DEF QueuesHoldOrdersOnce
<1>9. CASE GetFinishedOrders
  <2>1. /\ pc = "collect" /\ pc' = "call"
        /\ stage' = [o \in Orders |-> IF stage[o] \in Finished THEN "outside" ELSE stage[o]]
        /\ UNCHANGED <<newQueue, retryQueue, batch, i, cur>>
    BY <1>9 DEF GetFinishedOrders
  <2>2. i = 0 /\ cur = NoOrder /\ batch = <<>>
    BY <1>l, <2>1
  <2>3. \A o \in Orders : stage'[o] # stage[o] => stage[o] \in Finished /\ stage'[o] = "outside"
    BY <1>0, <2>1
  <2>4. LoopInv'
    BY <1>0, <1>l, <2>1, <2>2, <2>3 DEF LoopInv
  <2>5. QueuesHoldOrdersOnce'
    BY <1>0, <1>q, <2>1, <2>3, QueuesUntouched DEF Finished
  <2>6. Elements(newQueue) = At({"new"})
    BY <1>0, <1>q, <2>2, RemoveProcessedFacts
  <2>7. At({"new"}) \cap At({"outside", "adding"})' = {}
    BY <1>0, <2>3 DEF At, Finished
  <2> QED BY <2>1, <2>4, <2>5, <2>6, <2>7
<1>10. CASE HandleOrder
  <2>1. /\ cur # NoOrder /\ stage[cur] = "handling" /\ cur \in Orders
        /\ \E s \in {"skipping", "pending", "failing"} :
             stage' = [stage EXCEPT ![cur] = s] /\ ((cur' = cur /\ s # "pending") \/ cur' = NoOrder)
        /\ UNCHANGED <<newQueue, retryQueue, batch, i, pc>>
    BY <1>10, <1>0 DEF HandleOrder, HandleReturnsNull, HandleReturnsPromise, HandleThrows
  <2>2. LoopInv'
    BY <1>0, <1>l, <2>1 DEF LoopInv
  <2>3. QueuesHoldOrdersOnce'
    BY <1>0, <1>q, <2>1, QueuesUntouched
  <2>4. At({"outside", "adding"})' = At({"outside", "adding"})
    BY <1>0, <2>1 DEF At
  <2> QED BY <1>e, <2>1, <2>2, <2>3, <2>4
<1>11. CASE RetryTimePasses \/ DecrementPending \/ UNCHANGED vars
  <2>1. UNCHANGED <<newQueue, retryQueue, batch, i, cur, stage, pc>>
    BY <1>11 DEF RetryTimePasses, DecrementPending, vars
  <2>2. LoopInv'
    BY <1>l, <2>1 DEF LoopInv
  <2>3. QueuesHoldOrdersOnce'
    BY <1>q, <2>1, QueuesUntouched
  <2>4. At({"outside", "adding"})' = At({"outside", "adding"})
    BY <2>1 DEF At
  <2> QED BY <1>e, <2>1, <2>2, <2>3, <2>4
<1> QED
  BY <1>1, <1>2, <1>3, <1>4, <1>5, <1>6, <1>7, <1>8, <1>9, <1>10, <1>11
     DEF Next, Loop, Callback

\* The queues' invariant holds along every behaviour.
LEMMA QueueInvariant == Spec => []QueueInv
<1>1. Init => QueueInv
  <2> SUFFICES ASSUME Init PROVE QueueInv
    OBVIOUS
  <2>1. TypeOK
    BY DEF Init, TypeOK, Stages
  <2>2. LoopInv
    BY DEF Init, LoopInv
  <2>3. Elements(newQueue) = {} /\ Elements(retryQueue) = {} /\ Elements(batch) = {}
        /\ Injective(newQueue) /\ Injective(retryQueue) /\ Injective(batch)
    BY DEF Init, Elements, Injective
  <2>4. Elements(RemoveProcessed(newQueue, i)) = {}
    <3>1. newQueue \in Seq(Orders) /\ i \in 0..Len(newQueue)
      BY <2>1 DEF TypeOK
    <3> QED BY <2>3, <3>1, RemoveProcessedFacts
  <2>5. At({"new"}) = {} /\ At({"retry"}) = {} /\ At({"batch"}) = {}
    BY DEF Init, At
  <2> QED BY <2>1, <2>2, <2>3, <2>4, <2>5 DEF QueueInv, QueuesHoldOrdersOnce
<1>2. QueueInv /\ TypeOK' /\ [Next]_vars => QueueInv'
  BY QueueStep
<1> QED BY <1>1, <1>2, TypeCorrect, PTL DEF Spec

\* No order is lost, handled twice or in two queues, whatever is added and
\* whatever settles while processOrders runs.
THEOREM OrdersHeldOnce == Spec => []QueuesHoldOrdersOnce
<1>1. QueueInv => QueuesHoldOrdersOnce
  BY DEF QueueInv
<1> QED BY <1>1, QueueInvariant, PTL


-----------------------------------------------------------------------------
(* What a step does to the stages, seen from one order.                    *)

\* The orders `retries` names in ProcessOrders are at stage "retry".
LEMMA DueOrdersAreRetries ==
    ASSUME QueueInv
    PROVE  {retryQueue[j] : j \in 1..due} \subseteq At({"retry"})
<1>1. retryQueue \in Seq(Orders) /\ due \in 0..Len(retryQueue)
  BY DEF QueueInv, TypeOK
<1>2. {retryQueue[j] : j \in 1..due} \subseteq Elements(retryQueue)
  BY <1>1 DEF Elements
<1> QED BY <1>2 DEF QueueInv, QueuesHoldOrdersOnce

\* The order TakeNew and TakeRetry take is at stage "new" or "batch".
LEMMA TakenOrders ==
    ASSUME QueueInv
    PROVE  /\ TakeNew => newQueue[i + 1] \in At({"new"})
           /\ TakeRetry => Head(batch) \in At({"batch"})
<1>1. newQueue \in Seq(Orders) /\ i \in 0..Len(newQueue) /\ batch \in Seq(Orders)
  BY DEF QueueInv, TypeOK
<1>2. ASSUME TakeNew PROVE newQueue[i + 1] \in At({"new"})
  <2>1. i + 1 \in (i + 1)..Len(newQueue)
    BY <1>1, <1>2 DEF TakeNew
  <2>2. newQueue[i + 1] \in Elements(RemoveProcessed(newQueue, i))
    BY <1>1, <2>1, RemoveProcessedFacts
  <2> QED BY <2>2 DEF QueueInv, QueuesHoldOrdersOnce
<1>3. ASSUME TakeRetry PROVE Head(batch) \in At({"batch"})
  <2>1. Head(batch) \in Elements(batch)
    BY <1>1, <1>3, TailFacts DEF TakeRetry
  <2> QED BY <2>1 DEF QueueInv, QueuesHoldOrdersOnce
<1> QED BY <1>2, <1>3

\* Every order a step moves goes along one of these edges of its life cycle.
Moves(o) ==
    \/ stage[o] = "outside" /\ stage'[o] = "adding" /\ AddOrder(o)
    \/ stage[o] = "adding" /\ stage'[o] = "new" /\ PushOrder(o)
    \/ stage[o] = "new" /\ stage'[o] = "handling" /\ TakeNew /\ o = newQueue[i + 1]
    \/ stage[o] = "batch" /\ stage'[o] = "handling" /\ TakeRetry /\ o = Head(batch)
    \/ stage[o] = "handling" /\ stage'[o] \in {"skipping", "failing"} /\ o = cur
         /\ (HandleReturnsNull \/ HandleThrows)
    \/ stage[o] = "handling" /\ stage'[o] = "pending" /\ HandleReturnsPromise /\ o = cur
    \/ stage[o] = "pending" /\ stage'[o] \in {"completing", "skipping", "failing"} /\ Settle(o)
    \/ stage[o] \in {"completing", "skipping"} /\ stage'[o] \in {"completed", "skipped"}
         /\ HandleOrderSuccess(o)
    \/ stage[o] = "failing" /\ stage'[o] = "rejected" /\ HandleOrderError(o) /\ MaxTriesReached(o)
    \/ stage[o] = "failing" /\ stage'[o] \in {"retry", "skipped"} /\ HandleOrderError(o)
         /\ ~MaxTriesReached(o)
    \/ stage[o] = "retry" /\ stage'[o] = "batch" /\ ProcessOrders
    \/ stage[o] \in Finished /\ stage'[o] = "outside" /\ GetFinishedOrders

LEMMA StepMoves ==
    ASSUME QueueInv, [Next]_vars, NEW o \in Orders
    PROVE  stage'[o] = stage[o] \/ Moves(o)
<1>0. stage \in [Orders -> Stages]
  BY DEF QueueInv, TypeOK
<1>1. ASSUME NEW x \in Orders, AddOrder(x) PROVE stage'[o] = stage[o] \/ Moves(o)
  BY <1>0, <1>1 DEF AddOrder, Moves
<1>2. ASSUME NEW x \in Orders, PushOrder(x) PROVE stage'[o] = stage[o] \/ Moves(o)
  BY <1>0, <1>2 DEF PushOrder, Moves
<1>3. ASSUME NEW x \in Orders, Settle(x) PROVE stage'[o] = stage[o] \/ Moves(o)
  BY <1>0, <1>3 DEF Settle, Moves
<1>4. ASSUME NEW x \in Orders, HandleOrderSuccess(x) PROVE stage'[o] = stage[o] \/ Moves(o)
  BY <1>0, <1>4 DEF HandleOrderSuccess, Moves
<1>5. ASSUME NEW x \in Orders, HandleOrderError(x) PROVE stage'[o] = stage[o] \/ Moves(o)
  BY <1>0, <1>5 DEF HandleOrderError, Moves
<1>6. CASE ProcessOrders
  BY <1>0, <1>6, DueOrdersAreRetries DEF ProcessOrders, Moves, At
<1>7. CASE TakeRetry
  BY <1>0, <1>7, TakenOrders DEF TakeRetry, Moves, At
<1>8. CASE TakeNew
  BY <1>0, <1>8, TakenOrders DEF TakeNew, Moves, At
<1>9. CASE GetFinishedOrders
  BY <1>0, <1>9 DEF GetFinishedOrders, Moves
<1>10. CASE HandleOrder
  BY <1>0, <1>10 DEF HandleOrder, HandleReturnsNull, HandleReturnsPromise, HandleThrows, Moves
<1>11. CASE EndProcessing \/ RetryTimePasses \/ DecrementPending \/ UNCHANGED vars
  BY <1>11 DEF EndProcessing, RetryTimePasses, DecrementPending, vars
<1> QED
  BY <1>1, <1>2, <1>3, <1>4, <1>5, <1>6, <1>7, <1>8, <1>9, <1>10, <1>11
     DEF Next, Loop, Callback


-----------------------------------------------------------------------------
(* Tries.                                                                  *)

LEMMA TriesStep ==
    ASSUME QueueInv, TypeOK', TriesBounded, [Next]_vars
    PROVE  TriesBounded'
<1>0. /\ retryCount \in [Orders -> Nat] /\ retryCount' \in [Orders -> Nat]
      /\ stage \in [Orders -> Stages]
      /\ MaxTries \in Nat \ {0}
  BY MaxTriesAssumption DEF QueueInv, TypeOK
<1>1. SUFFICES ASSUME NEW o \in Orders
               PROVE  /\ retryCount'[o] < MaxTries
                      /\ stage'[o] = "retry" => retryCount'[o] < MaxTries - 1
                      /\ stage'[o] = "rejected" => retryCount'[o] = MaxTries - 1
  BY DEF TriesBounded
<1>2. /\ retryCount[o] \in Nat /\ retryCount[o] < MaxTries
      /\ stage[o] = "retry" => retryCount[o] < MaxTries - 1
      /\ stage[o] = "rejected" => retryCount[o] = MaxTries - 1
  BY <1>0 DEF TriesBounded
<1>3. CASE TakeNew
  <2>1. CASE o = newQueue[i + 1]
    <3>1. retryCount'[o] = 0 /\ stage'[o] = "handling"
      BY <1>0, <1>3, <2>1 DEF TakeNew
    <3> QED BY <1>0, <3>1
  <2>2. CASE o # newQueue[i + 1]
    <3>1. retryCount'[o] = retryCount[o] /\ stage'[o] = stage[o]
      BY <1>0, <1>3, <2>2 DEF TakeNew
    <3> QED BY <1>2, <3>1
  <2> QED BY <2>1, <2>2
<1>4. CASE ProcessOrders
  <2>1. CASE o \in {retryQueue[j] : j \in 1..due}
    <3>1. stage[o] = "retry"
      BY <2>1, DueOrdersAreRetries DEF At
    <3>2. retryCount'[o] = retryCount[o] + 1 /\ stage'[o] = "batch"
      BY <1>4, <2>1 DEF ProcessOrders
    <3> QED BY <1>0, <1>2, <3>1, <3>2
  <2>2. CASE o \notin {retryQueue[j] : j \in 1..due}
    <3>1. retryCount'[o] = retryCount[o] /\ stage'[o] = stage[o]
      BY <1>4, <2>2 DEF ProcessOrders
    <3> QED BY <1>2, <3>1
  <2> QED BY <2>1, <2>2
<1>5. CASE ~TakeNew /\ ~ProcessOrders
  <2>1. retryCount' = retryCount
    BY <1>5 DEF Next, Loop, HandleOrder, Callback, AddOrder, PushOrder, Settle, HandleOrderSuccess,
                HandleOrderError, RetryTimePasses, TakeRetry, EndProcessing, GetFinishedOrders,
                HandleReturnsNull, HandleReturnsPromise, HandleThrows, DecrementPending, vars
  <2>2. stage'[o] = stage[o] \/ Moves(o)
    BY StepMoves
  <2>3. stage'[o] = "retry" => stage[o] = "retry" \/ ~MaxTriesReached(o)
    BY <2>2 DEF Moves, Finished
  <2>4. stage'[o] = "rejected" => stage[o] = "rejected" \/ MaxTriesReached(o)
    BY <2>2 DEF Moves, Finished
  <2> QED BY <1>0, <1>2, <2>1, <2>3, <2>4 DEF MaxTriesReached
<1> QED BY <1>3, <1>4, <1>5

\* Each order is tried at most MaxTries times and rejected only after its last try.
THEOREM TriesAreBounded == Spec => []TriesBounded
<1>1. Init => TriesBounded
  BY MaxTriesAssumption DEF Init, TriesBounded
<1>2. QueueInv /\ TypeOK' /\ TriesBounded /\ [Next]_vars => TriesBounded'
  BY TriesStep
<1> QED BY <1>1, <1>2, QueueInvariant, TypeCorrect, PTL DEF Spec

-----------------------------------------------------------------------------
(* Counters. `size` follows the orders inside the queue, `_pendingCount`   *)
(* the promises, and the latter together with retryQueue bounds the orders *)
(* that are started and unresolved.                                        *)

Inside == {o \in Orders : stage[o] # "outside"}

LEMMA SizeStep ==
    ASSUME QueueInv, SizeCountsOrders, [Next]_vars
    PROVE  SizeCountsOrders'
<1>0. stage \in [Orders -> Stages] /\ IsFiniteSet(Inside) /\ Cardinality(Inside) \in Nat
  BY OrderSetsFinite DEF QueueInv, TypeOK, Inside
<1>1. size = Cardinality(Inside)
  BY DEF SizeCountsOrders, Inside
<1>2. SUFFICES size' = Cardinality(Inside')
  BY DEF SizeCountsOrders, Inside
<1>3. ASSUME NEW o \in Orders, AddOrder(o) PROVE size' = Cardinality(Inside')
  <2>1. o \notin Inside /\ Inside' = Inside \cup {o} /\ size' = size + 1
    BY <1>0, <1>3 DEF AddOrder, Inside
  <2> QED BY <1>0, <1>1, <2>1, FS_AddElement
<1>4. CASE GetFinishedOrders
  <2>1. Inside' = Inside \ At(Finished) /\ At(Finished) \subseteq Inside
    BY <1>0, <1>4 DEF GetFinishedOrders, Inside, At, Finished
  <2>2. /\ IsFiniteSet(At(Finished)) /\ Cardinality(At(Finished)) \in Nat
        /\ IsFiniteSet(Inside') /\ Cardinality(Inside') \in Nat
    BY OrderSetsFinite DEF At, Inside
  <2>3. Inside' \cup At(Finished) = Inside /\ Inside' \cap At(Finished) = {}
    BY <2>1
  <2>4. Cardinality(Inside) = Cardinality(Inside') + Cardinality(At(Finished)) - Cardinality({})
    BY <2>2, <2>3, FS_Union
  <2>5. Cardinality({}) = 0
    BY FS_EmptySet
  <2>6. size' = size - Cardinality(At(Finished))
    BY <1>4 DEF GetFinishedOrders
  <2> QED BY <1>0, <1>1, <2>2, <2>4, <2>5, <2>6
<1>5. CASE ~GetFinishedOrders /\ \A o \in Orders : ~AddOrder(o)
  <2>1. size' = size
    BY <1>5 DEF Next, Loop, HandleOrder, Callback, PushOrder, Settle, HandleOrderSuccess,
                HandleOrderError, RetryTimePasses, ProcessOrders, TakeRetry, TakeNew, EndProcessing,
                HandleReturnsNull, HandleReturnsPromise, HandleThrows, DecrementPending, vars
  <2>2. ASSUME NEW o \in Orders PROVE stage'[o] = "outside" <=> stage[o] = "outside"
    <3>1. stage'[o] = stage[o] \/ Moves(o)
      BY StepMoves
    <3> QED BY <1>5, <3>1 DEF Moves, Finished
  <2>3. Inside' = Inside
    BY <2>2 DEF Inside
  <2> QED BY <1>1, <2>1, <2>3
<1> QED BY <1>3, <1>4, <1>5

\* The callers' capacity checks count every order that is in the queue, and no other.
THEOREM SizeIsExact == Spec => []SizeCountsOrders
<1>1. Init => SizeCountsOrders
  <2> SUFFICES ASSUME Init PROVE SizeCountsOrders
    OBVIOUS
  <2>1. {o \in Orders : stage[o] # "outside"} = {}
    BY DEF Init
  <2> QED BY <2>1, FS_EmptySet DEF Init, SizeCountsOrders
<1>2. QueueInv /\ SizeCountsOrders /\ [Next]_vars => SizeCountsOrders'
  BY SizeStep
<1> QED BY <1>1, <1>2, QueueInvariant, PTL DEF Spec


LEMMA PendingStep ==
    ASSUME QueueInv, TypeOK', PendingCountCoversPromises, [Next]_vars
    PROVE  PendingCountCoversPromises'
<1>0. /\ stage \in [Orders -> Stages] /\ cur \in Orders \cup {NoOrder} /\ owed \in Nat
      /\ NoOrder \notin Orders
      /\ IsFiniteSet(Promised) /\ Cardinality(Promised) \in Nat
  BY OrdersAssumption, OrderSetsFinite DEF QueueInv, TypeOK, Promised, At
<1>1. pendingCount = Cardinality(Promised) + owed
  BY DEF PendingCountCoversPromises
<1>l. /\ pc # "processing" => cur = NoOrder
      /\ \A o \in Orders : stage[o] = "handling" => o = cur
  BY DEF QueueInv, LoopInv
<1>2. SUFFICES pendingCount' = Cardinality(Promised') + owed'
  BY DEF PendingCountCoversPromises
<1>3. CASE HandleReturnsPromise
  <2>1. /\ cur \notin Promised /\ Promised' = Promised \cup {cur}
        /\ pendingCount' = pendingCount + 1 /\ owed' = owed
    BY <1>0, <1>3 DEF HandleReturnsPromise, Promised, At
  <2>2. Cardinality(Promised \cup {cur}) = Cardinality(Promised) + 1
    BY ONLY <1>0, <2>1, FS_AddElement
  <2> QED BY <1>0, <1>1, <2>1, <2>2
<1>4. ASSUME NEW o \in Orders, Callback(o) PROVE pendingCount' = Cardinality(Promised') + owed'
  <2>1. /\ pendingCount' = pendingCount
        /\ stage[o] \in {"completing", "skipping", "failing"}
        /\ stage' \in [Orders -> Stages]
        /\ stage'[o] \in {"completed", "skipped", "rejected", "retry"}
        /\ \A x \in Orders : x # o => stage'[x] = stage[x]
    BY <1>0, <1>4 DEF Callback, HandleOrderSuccess, HandleOrderError, TypeOK
  <2>2. \/ o = cur /\ cur' = NoOrder /\ owed' = owed
        \/ o # cur /\ cur' = cur /\ owed' = owed + 1
    BY <1>4 DEF Callback, HandleOrderSuccess, HandleOrderError, Leave
  <2>3. CASE o = cur
    <3>1. Promised' = Promised
      <4>1. ASSUME NEW x \in Orders PROVE x \in Promised' <=> x \in Promised
        <5>1. CASE x = o
          BY <1>0, <2>1, <2>2, <2>3, <5>1 DEF Promised, At
        <5>2. CASE x # o
          BY <1>0, <2>1, <2>2, <2>3, <5>2 DEF Promised, At
        <5> QED BY <5>1, <5>2
      <4> QED BY <4>1 DEF Promised, At
    <3> QED BY <1>1, <2>1, <2>2, <2>3, <3>1
  <2>4. CASE o # cur
    <3>1. o \in Promised
      BY <2>1, <2>4 DEF Promised, At
    <3>2. Promised' = Promised \ {o}
      BY <1>0, <2>1, <2>2, <2>4 DEF Promised, At
    <3>3. Cardinality(Promised') = Cardinality(Promised) - 1
      BY <1>0, <3>1, <3>2, FS_RemoveElement
    <3> QED BY <1>0, <1>1, <2>1, <2>2, <2>4, <3>3
  <2> QED BY <2>3, <2>4
<1>5. CASE DecrementPending
  <2>1. Promised' = Promised /\ owed' = owed - 1 /\ pendingCount' = pendingCount - 1
    BY <1>5 DEF DecrementPending, Promised, At
  <2> QED BY <1>0, <1>1, <2>1
<1>6. CASE HandleReturnsNull \/ HandleThrows
  <2>1. /\ cur \in Orders /\ cur' = cur /\ UNCHANGED <<pendingCount, owed>>
        /\ \A x \in Orders : x # cur => stage'[x] = stage[x]
    BY <1>0, <1>6 DEF HandleReturnsNull, HandleThrows
  <2>2. Promised' = Promised
    BY <2>1 DEF Promised, At
  <2> QED BY <1>1, <2>1, <2>2
<1>7. CASE TakeNew \/ TakeRetry
  <2>1. cur = NoOrder /\ UNCHANGED <<pendingCount, owed>>
    BY <1>7 DEF TakeNew, TakeRetry
  <2>2. PICK o \in Orders : /\ stage[o] \in {"new", "batch"} /\ cur' = o
                            /\ \A x \in Orders : x # o => stage'[x] = stage[x]
    BY <1>0, <1>7, TakenOrders DEF TakeNew, TakeRetry, At
  <2>3. ASSUME NEW x \in Orders PROVE x \in Promised' <=> x \in Promised
    <3>1. CASE x = o
      BY <2>2, <3>1 DEF Promised, At
    <3>2. CASE x # o
      BY <1>0, <2>1, <2>2, <3>2 DEF Promised, At
    <3> QED BY <3>1, <3>2
  <2>4. Promised' = Promised
    BY <2>3 DEF Promised, At
  <2> QED BY <1>1, <2>1, <2>4
<1>8. ASSUME UNCHANGED <<cur, pendingCount, owed>>,
             \A o \in Orders : stage'[o] \in {"pending", "completing", "skipping", "failing"}
                                 <=> stage[o] \in {"pending", "completing", "skipping", "failing"}
      PROVE  pendingCount' = Cardinality(Promised') + owed'
  <2>1. Promised' = Promised
    BY <1>8 DEF Promised, At
  <2> QED BY <1>1, <1>8, <2>1
<1>9. ASSUME NEW o \in Orders, AddOrder(o) \/ PushOrder(o) \/ Settle(o)
      PROVE  pendingCount' = Cardinality(Promised') + owed'
  BY <1>0, <1>8, <1>9 DEF AddOrder, PushOrder, Settle
<1>10. CASE ProcessOrders
  BY <1>0, <1>8, <1>10, DueOrdersAreRetries DEF ProcessOrders, At
<1>11. CASE GetFinishedOrders
  BY <1>0, <1>8, <1>11 DEF GetFinishedOrders, Finished
<1>12. CASE EndProcessing \/ RetryTimePasses \/ UNCHANGED vars
  BY <1>8, <1>12 DEF EndProcessing, RetryTimePasses, vars
<1> QED
  BY <1>3, <1>4, <1>5, <1>6, <1>7, <1>9, <1>10, <1>11, <1>12 DEF Next, Loop, HandleOrder

\* _pendingCount never forgets a promise and never keeps one for good.
THEOREM PendingCountIsExact == Spec => []PendingCountCoversPromises
<1>1. Init => PendingCountCoversPromises
  <2> SUFFICES ASSUME Init PROVE PendingCountCoversPromises
    OBVIOUS
  <2>1. Promised = {}
    BY DEF Init, Promised, At
  <2> QED BY <2>1, FS_EmptySet DEF Init, PendingCountCoversPromises
<1>2. QueueInv /\ TypeOK' /\ PendingCountCoversPromises /\ [Next]_vars => PendingCountCoversPromises'
  BY PendingStep
<1> QED BY <1>1, <1>2, QueueInvariant, TypeCorrect, PTL DEF Spec

\* An order is only started while a place is free for it: pendingCount and
\* retryQueue together cover every order that is started and unresolved.
LEMMA RoomForNew ==
    ASSUME QueueInv, PendingCountCoversPromises, TakeNew
    PROVE  Cardinality(At(Active)) < MaxConcurrent
<1>0. /\ IsFiniteSet(At({"retry"})) /\ Cardinality(At({"retry"})) \in Nat
      /\ IsFiniteSet(Promised) /\ Cardinality(Promised) \in Nat
      /\ MaxConcurrent \in Nat /\ owed \in Nat /\ retryQueue \in Seq(Orders)
  BY OrderSetsFinite, MaxConcurrentAssumption DEF QueueInv, TypeOK, Promised, At
<1>1. cur = NoOrder /\ batch = <<>> /\ pendingCount + Len(retryQueue) < MaxConcurrent
  BY DEF TakeNew, HasCapacity, concurrentOrders
<1>2. At({"batch"}) = {} /\ At({"retry"}) = Elements(retryQueue) /\ Injective(retryQueue)
  BY <1>1 DEF QueueInv, QueuesHoldOrdersOnce, Elements
<1>3. Cardinality(At({"retry"})) = Len(retryQueue)
  BY <1>0, <1>2, LengthIsCardinality
<1>4. \A x \in Orders : stage[x] # "handling" /\ x # cur
  BY <1>1, OrdersAssumption DEF QueueInv, LoopInv
<1>5. At(Active) = Promised \cup At({"retry"}) /\ Promised \cap At({"retry"}) = {}
  BY <1>2, <1>4 DEF Active, Promised, At
<1>6. Cardinality(At(Active)) = Cardinality(Promised) + Cardinality(At({"retry"})) - Cardinality({})
  BY <1>0, <1>5, FS_Union
<1>7. Cardinality({}) = 0 /\ Len(retryQueue) \in Nat
  BY <1>0, FS_EmptySet
<1>8. pendingCount = Cardinality(Promised) + owed
  BY DEF PendingCountCoversPromises
<1> QED BY <1>0, <1>1, <1>3, <1>6, <1>7, <1>8

LEMMA ConcurrencyStep ==
    ASSUME QueueInv, PendingCountCoversPromises, ConcurrencyBound, [Next]_vars
    PROVE  ConcurrencyBound'
<1>0. /\ IsFiniteSet(At(Active)) /\ Cardinality(At(Active)) \in Nat
      /\ MaxConcurrent \in Nat /\ stage \in [Orders -> Stages]
  BY OrderSetsFinite, MaxConcurrentAssumption DEF QueueInv, TypeOK, At
<1>1. CASE TakeNew
  <2> DEFINE o == newQueue[i + 1]
  <2>1. stage' = [stage EXCEPT ![o] = "handling"]
    BY <1>1 DEF TakeNew
  <2>2. o \in Orders /\ stage[o] = "new"
    BY <1>1, TakenOrders DEF At
  <2> HIDE DEF o
  <2>8. Cardinality(At(Active)) < MaxConcurrent
    BY <1>1, RoomForNew
  <2>9. At(Active)' = At(Active) \cup {o}
    BY <1>0, <2>1, <2>2 DEF At, Active
  <2>10. Cardinality(At(Active)') = Cardinality(At(Active)) + 1
    <3>1. o \notin At(Active)
      BY <2>2 DEF At, Active
    <3>2. Cardinality(At(Active) \cup {o}) = Cardinality(At(Active)) + 1
      BY ONLY <1>0, <3>1, FS_AddElement
    <3> QED BY <2>9, <3>2
  <2>11. Cardinality(At(Active)') \in Nat
    BY OrderSetsFinite DEF At
  <2> QED BY <1>0, <2>8, <2>10, <2>11 DEF ConcurrencyBound
<1>2. CASE ~TakeNew
  <2>1. ASSUME NEW o \in Orders, stage'[o] \in Active PROVE stage[o] \in Active
    <3>1. stage'[o] = stage[o] \/ Moves(o)
      BY StepMoves
    <3> QED BY <1>2, <2>1, <3>1 DEF Moves, Active, Finished
  <2>2. At(Active)' \subseteq At(Active)
    BY <2>1 DEF At
  <2>3. Cardinality(At(Active)') <= Cardinality(At(Active))
    BY <1>0, <2>2, FS_Subset
  <2>4. Cardinality(At(Active)') \in Nat
    BY OrderSetsFinite DEF At
  <2> QED BY <1>0, <2>3, <2>4 DEF ConcurrencyBound
<1> QED BY <1>1, <1>2

\* No more than maxConcurrentOrders orders are ever started and unresolved.
THEOREM ConcurrencyIsBounded == Spec => []ConcurrencyBound
<1>1. Init => ConcurrencyBound
  <2> SUFFICES ASSUME Init PROVE ConcurrencyBound
    OBVIOUS
  <2>1. At(Active) = {}
    BY DEF Init, At, Active
  <2> QED BY <2>1, FS_EmptySet, MaxConcurrentAssumption DEF ConcurrencyBound
<1>2. QueueInv /\ PendingCountCoversPromises /\ ConcurrencyBound /\ [Next]_vars => ConcurrencyBound'
  BY ConcurrencyStep
<1> QED BY <1>1, <1>2, QueueInvariant, PendingCountIsExact, PTL DEF Spec

-----------------------------------------------------------------------------
(* The pipeline. What is left of newQueue beyond `i` is the backlog; the   *)
(* splice at the end of processOrders does not change it, and taking an    *)
(* order takes its head.                                                   *)

\* The orders of newQueue processOrders has not taken, in the order they came.
Waiting == RemoveProcessed(newQueue, i)

\* push, `i++` and splice, seen on the orders that still wait.
LEMMA WaitingFacts ==
    ASSUME NEW s \in Seq(Orders), NEW n \in 0..Len(s)
    PROVE  /\ RemoveProcessed(s, n) \in Seq(Orders)
           /\ \A o \in Orders : RemoveProcessed(Append(s, o), n) = Append(RemoveProcessed(s, n), o)
           /\ RemoveProcessed(RemoveProcessed(s, n), 0) = RemoveProcessed(s, n)
           /\ n < Len(s) => /\ RemoveProcessed(s, n) # <<>>
                            /\ Head(RemoveProcessed(s, n)) = s[n + 1]
                            /\ Tail(RemoveProcessed(s, n)) = RemoveProcessed(s, n + 1)
<1> DEFINE rest == SubSeq(s, n + 1, Len(s))
<1>1. Len(s) \in Nat /\ n \in Nat /\ n <= Len(s)
  OBVIOUS
<1>2. rest \in Seq(Orders) /\ Len(rest) = Len(s) - n /\ \A j \in 1..(Len(s) - n) : rest[j] = s[n + j]
  BY ONLY <1>1, s \in Seq(Orders)
<1>3. ASSUME NEW o \in Orders PROVE SubSeq(Append(s, o), n + 1, Len(Append(s, o))) = Append(rest, o)
  <2> DEFINE longer == SubSeq(Append(s, o), n + 1, Len(Append(s, o)))
  <2>1. /\ Append(s, o) \in Seq(Orders) /\ Len(Append(s, o)) = Len(s) + 1
        /\ \A j \in 1..Len(s) : Append(s, o)[j] = s[j]
        /\ Append(s, o)[Len(s) + 1] = o
    OBVIOUS
  <2>2. /\ longer \in Seq(Orders) /\ Len(longer) = Len(s) + 1 - n
        /\ \A j \in 1..(Len(s) + 1 - n) : longer[j] = Append(s, o)[n + j]
    BY ONLY <1>1, <2>1
  <2> HIDE DEF longer, rest
  <2>3. /\ Append(rest, o) \in Seq(Orders) /\ Len(Append(rest, o)) = Len(rest) + 1
        /\ \A j \in 1..Len(rest) : Append(rest, o)[j] = rest[j]
        /\ Append(rest, o)[Len(rest) + 1] = o
    BY <1>2
  <2>4. Len(longer) = Len(Append(rest, o))
    BY ONLY <1>1, <1>2, <2>2, <2>3
  <2>5. ASSUME NEW j \in 1..Len(longer) PROVE longer[j] = Append(rest, o)[j]
    <3>1. CASE j = Len(s) + 1 - n
      BY ONLY <1>1, <1>2, <2>1, <2>2, <2>3, <2>5, <3>1
    <3>2. CASE j # Len(s) + 1 - n
      <4>1. j \in 1..(Len(s) - n) /\ n + j \in 1..Len(s)
        <5>1. Len(longer) = Len(s) + 1 - n /\ Len(longer) \in Nat /\ j \in 1..Len(longer)
          BY <1>1, <2>2
        <5>2. j \in Nat /\ 1 <= j /\ j <= Len(s) - n
          BY <1>1, <3>2, <5>1
        <5> QED BY ONLY <1>1, <5>2
      <4> QED BY ONLY <1>1, <1>2, <2>1, <2>2, <2>3, <2>5, <4>1
    <3> QED BY <3>1, <3>2
  <2>6. longer = Append(rest, o)
    BY <2>2, <2>3, <2>4, <2>5, SeqEqual
  <2> QED BY <2>6 DEF longer
<1>4. SubSeq(rest, 1, Len(rest)) = rest
  BY <1>2
<1>5. ASSUME n < Len(s)
      PROVE  rest # <<>> /\ Head(rest) = s[n + 1] /\ Tail(rest) = SubSeq(s, n + 2, Len(s))
  <2> DEFINE shorter == SubSeq(s, n + 2, Len(s))
  <2>1. /\ shorter \in Seq(Orders) /\ Len(shorter) = Len(s) - n - 1
        /\ \A j \in 1..(Len(s) - n - 1) : shorter[j] = s[n + 1 + j]
    BY ONLY <1>1, <1>5, s \in Seq(Orders)
  <2> HIDE DEF shorter, rest
  <2>2. rest # <<>> /\ Head(rest) = rest[1] /\ rest[1] = s[n + 1]
    BY ONLY <1>1, <1>2, <1>5
  <2>3. /\ Tail(rest) \in Seq(Orders) /\ Len(Tail(rest)) = Len(rest) - 1
        /\ \A j \in 1..(Len(rest) - 1) : Tail(rest)[j] = rest[j + 1]
    BY ONLY <1>2, <2>2
  <2>4. ASSUME NEW j \in 1..(Len(s) - n - 1) PROVE Tail(rest)[j] = shorter[j]
    <3>1. j + 1 \in 1..(Len(s) - n) /\ n + (j + 1) = n + 1 + j /\ j \in 1..(Len(rest) - 1)
      BY ONLY <1>1, <1>2, <2>4
    <3> QED BY <1>2, <2>1, <2>3, <3>1
  <2>5. Tail(rest) = shorter
    BY ONLY <1>1, <1>2, <2>1, <2>3, <2>4
  <2> QED BY <2>2, <2>5 DEF shorter
<1>6. (n + 1) + 1 = n + 2 /\ 0 + 1 = 1
  BY <1>1
<1> HIDE DEF rest
<1>7. RemoveProcessed(s, n) = rest /\ RemoveProcessed(rest, 0) = SubSeq(rest, 1, Len(rest))
      /\ RemoveProcessed(s, n + 1) = SubSeq(s, n + 2, Len(s))
      /\ \A o \in Orders : RemoveProcessed(Append(s, o), n)
                             = SubSeq(Append(s, o), n + 1, Len(Append(s, o)))
  BY <1>6 DEF RemoveProcessed, rest
<1> QED BY ONLY <1>2, <1>3, <1>4, <1>5, <1>7

\* Which steps change what waits, and how. Only taking a new order depends on
\* the loop; the final splice changes newQueue and not what waits.
LEMMA WaitingStep ==
    ASSUME QueueInv, [Next]_vars
    PROVE  /\ \A o \in Orders : PushOrder(o) => Waiting' = Append(Waiting, o)
           /\ TakeNew => /\ Waiting # <<>> /\ Head(Waiting) = newQueue[i + 1]
                         /\ Waiting' = Tail(Waiting)
           /\ ~TakeNew /\ (\A o \in Orders : ~PushOrder(o)) => Waiting' = Waiting
<1>0. newQueue \in Seq(Orders) /\ i \in 0..Len(newQueue) /\ i \in Nat
  BY DEF QueueInv, TypeOK
<1>1. ASSUME NEW o \in Orders, PushOrder(o) PROVE Waiting' = Append(Waiting, o)
  <2>1. newQueue' = Append(newQueue, o) /\ i' = i
    BY <1>1 DEF PushOrder
  <2>2. RemoveProcessed(Append(newQueue, o), i) = Append(RemoveProcessed(newQueue, i), o)
    BY <1>0, WaitingFacts
  <2> QED BY <2>1, <2>2 DEF Waiting
<1>2. ASSUME TakeNew
      PROVE  Waiting # <<>> /\ Head(Waiting) = newQueue[i + 1] /\ Waiting' = Tail(Waiting)
  <2>1. newQueue' = newQueue /\ i' = i + 1 /\ i < Len(newQueue)
    BY <1>2 DEF TakeNew
  <2>2. /\ RemoveProcessed(newQueue, i) # <<>>
        /\ Head(RemoveProcessed(newQueue, i)) = newQueue[i + 1]
        /\ Tail(RemoveProcessed(newQueue, i)) = RemoveProcessed(newQueue, i + 1)
    BY <1>0, <2>1, WaitingFacts
  <2> QED BY <2>1, <2>2 DEF Waiting
<1>3. ASSUME ~TakeNew, \A o \in Orders : ~PushOrder(o) PROVE Waiting' = Waiting
  <2>1. CASE EndProcessing
    <3>1. newQueue' = RemoveProcessed(newQueue, i) /\ i' = 0
      BY <2>1 DEF EndProcessing
    <3>2. RemoveProcessed(RemoveProcessed(newQueue, i), 0) = RemoveProcessed(newQueue, i)
      BY <1>0, WaitingFacts
    <3> QED BY <3>1, <3>2 DEF Waiting
  <2>2. CASE ~EndProcessing
    <3>1. newQueue' = newQueue /\ i' = i
      BY <1>3, <2>2 DEF Next, Loop, HandleOrder, Callback, AddOrder, Settle, HandleOrderSuccess,
                HandleOrderError, RetryTimePasses, ProcessOrders, TakeRetry, GetFinishedOrders,
                HandleReturnsNull, HandleReturnsPromise, HandleThrows, DecrementPending, vars
    <3> QED BY <3>1 DEF Waiting
  <2> QED BY <2>1, <2>2
<1> QED BY <1>1, <1>2, <1>3

\* The refinement mapping, step by step: addOrders accepts when it pushes, the
\* loop starts what it takes, the handlers finish or keep, the caller collects.
LEMMA PipelineStep ==
    ASSUME QueueInv, PendingCountCoversPromises, [Next]_vars
    PROVE  [Pipeline!Next]_(Pipeline!vars)
<1>0. stage \in [Orders -> Stages] /\ newQueue \in Seq(Orders) /\ i \in 0..Len(newQueue)
  BY DEF QueueInv, TypeOK
<1>1. ASSUME NEW o \in Orders, PushOrder(o) PROVE Pipeline!Accept(o)
  <2>1. Waiting' = Append(Waiting, o) /\ stage[o] = "adding" /\ stage' = [stage EXCEPT ![o] = "new"]
    BY <1>1, WaitingStep DEF PushOrder
  <2>2. o \notin Elements(Waiting)
    BY <2>1 DEF QueueInv, QueuesHoldOrdersOnce, Waiting, At
  <2>3. o \notin At(Active) /\ o \notin At(Finished)
    BY <2>1 DEF At, Active, Finished
  <2>4. At(Active)' = At(Active) /\ At(Finished)' = At(Finished)
    BY <1>0, <2>1 DEF At, Active, Finished
  <2> QED BY <2>1, <2>2, <2>3, <2>4
          DEF Pipeline!Accept, Pipeline!InBacklog, Waiting, Elements
<1>2. CASE TakeNew
  <2> DEFINE o == newQueue[i + 1]
  <2>1. Waiting # <<>> /\ Head(Waiting) = o /\ Waiting' = Tail(Waiting)
    BY <1>2, WaitingStep
  <2>2. o \in Orders /\ stage[o] = "new" /\ stage' = [stage EXCEPT ![o] = "handling"]
    BY <1>2, TakenOrders DEF At, TakeNew
  <2> HIDE DEF o
  <2>3. At(Active)' = At(Active) \cup {o} /\ At(Finished)' = At(Finished)
    BY <1>0, <2>2 DEF At, Active, Finished
  <2>4. Cardinality(At(Active)) < MaxConcurrent
    BY <1>2, RoomForNew
  <2>5. At(Active)' = At(Active) \cup {Head(Waiting)}
    BY <2>1, <2>3
  <2>c. Pipeline!Cardinality(At(Active)) = Cardinality(At(Active))
    BY Zenon DEF Cardinality, Pipeline!Cardinality
  <2>6. Pipeline!Start
    BY ONLY <2>1, <2>3, <2>4, <2>5, <2>c, Zenon DEF Pipeline!Start, Waiting
  <2> QED BY <2>6 DEF Pipeline!Next
<1>3. ASSUME NEW o \in Orders, Callback(o) PROVE Pipeline!Finish(o) \/ UNCHANGED Pipeline!vars
  <2>1. Waiting' = Waiting
    BY <1>3 DEF Callback, HandleOrderSuccess, HandleOrderError, Waiting
  <2>2. /\ stage[o] \in {"completing", "skipping", "failing"}
        /\ stage'[o] \in {"completed", "skipped", "rejected", "retry"}
        /\ \A x \in Orders : x # o => stage'[x] = stage[x]
    BY <1>0, <1>3 DEF Callback, HandleOrderSuccess, HandleOrderError
  <2>3. CASE stage'[o] = "retry"
    <3>1. At(Active)' = At(Active) /\ At(Finished)' = At(Finished)
      BY <2>2, <2>3 DEF At, Active, Finished
    <3> QED BY <2>1, <3>1 DEF Pipeline!vars, Waiting
  <2>4. CASE stage'[o] # "retry"
    <3>1. o \in At(Active)
      BY <2>2 DEF At, Active
    <3>2. At(Active)' = At(Active) \ {o} /\ At(Finished)' = At(Finished) \cup {o}
      BY <2>2, <2>4 DEF At, Active, Finished
    <3> QED BY <2>1, <3>1, <3>2 DEF Pipeline!Finish, Waiting
  <2> QED BY <2>3, <2>4
<1>4. CASE GetFinishedOrders
  <2>1. Waiting' = Waiting
    BY <1>4 DEF GetFinishedOrders, Waiting
  <2>2. At(Active)' = At(Active) /\ At(Finished)' = {}
    BY <1>0, <1>4 DEF GetFinishedOrders, At, Active, Finished
  <2>3. Pipeline!Collect
    BY <2>1, <2>2 DEF Pipeline!Collect, Waiting
  <2> QED BY <2>3 DEF Pipeline!Next
<1>5. ASSUME ~TakeNew, ~GetFinishedOrders, \A o \in Orders : ~PushOrder(o) /\ ~Callback(o)
      PROVE  UNCHANGED Pipeline!vars
  <2>1. Waiting' = Waiting
    BY <1>5, WaitingStep
  <2>2. ASSUME NEW o \in Orders
        PROVE  (stage'[o] \in Active <=> stage[o] \in Active)
               /\ (stage'[o] \in Finished <=> stage[o] \in Finished)
    <3>1. stage'[o] = stage[o] \/ Moves(o)
      BY StepMoves
    <3> QED BY <1>5, <3>1 DEF Moves, Callback, Active, Finished
  <2>3. At(Active)' = At(Active) /\ At(Finished)' = At(Finished)
    BY <2>2 DEF At
  <2> QED BY <2>1, <2>3 DEF Pipeline!vars, Waiting
<1> QED BY <1>1, <1>2, <1>3, <1>4, <1>5 DEF Pipeline!Next

\* The queue of addOrders, processOrders and getFinishedOrders is a first-in
\* first-out pipeline: it starts orders as they came, never more than
\* maxConcurrentOrders at a time, and hands every outcome back once.
THEOREM QueueImplementsPipeline == Spec => ImplementsPipeline
<1>1. Init => Pipeline!Init
  <2> SUFFICES ASSUME Init PROVE Pipeline!Init
    OBVIOUS
  <2>1. newQueue = <<>> /\ i = 0 /\ \A o \in Orders : stage[o] = "outside"
    BY DEF Init
  <2>2. RemoveProcessed(newQueue, i) = <<>>
    BY <2>1 DEF RemoveProcessed
  <2>3. At(Active) = {} /\ At(Finished) = {}
    BY <2>1 DEF At, Active, Finished
  <2> QED BY <2>2, <2>3 DEF Pipeline!Init
<1>2. QueueInv /\ PendingCountCoversPromises /\ [Next]_vars => [Pipeline!Next]_(Pipeline!vars)
  BY PipelineStep
<1> QED
  BY <1>1, <1>2, QueueInvariant, PendingCountIsExact, PTL DEF Spec, ImplementsPipeline, Pipeline!Spec
=============================================================================
