---------------------------- MODULE SubmitterProofs ----------------------------
(***************************************************************************)
(* Theorems about Submitter and, beneath it, WalletPort, for any orders,   *)
(* any capacity and number of tries, and any number of wallet crashes.     *)
(***************************************************************************)
EXTENDS Submitter, FiniteSetTheorems, WellFoundedInduction, TLAPS

-----------------------------------------------------------------------------
(* The inductive invariant. Types, and the stages an order has in a queue. *)

TypeInv ==
    /\ TypeOK
    /\ priority \in [Orders -> BOOLEAN] /\ direct \in [Orders -> BOOLEAN]
    /\ urgent \in [Orders -> BOOLEAN] /\ urgentSeen \in [Orders -> BOOLEAN]
    /\ evaluator \in BOOLEAN
    /\ \A o \in Orders : stage[o] = "retry" => tries[o] < MaxTries - 1

StageInv ==
    /\ \A o \in Orders : stage[o] \in {"asking", "again"} => place[o] = "eval" /\ ~urgentSeen[o]
    /\ \A o \in Orders : stage[o] = "waiting" => place[o] = "submit"
    /\ \A o \in Orders : place[o] \in {"new", "pending", "gone"} => stage[o] = "new"
    /\ \A o \in Orders : listener[o] # 0 <=> stage[o] = "waiting"

(* The port: the ids of the requests on it are distinct and were given out *)
(* before, and only the broadcast has none.                                *)

PortInv ==
    /\ nextId >= 1
    /\ \A j \in DOMAIN toWallet : toWallet[j].id \in 1..(nextId - 1)
    /\ \A r \in held : r.id \in 1..(nextId - 1)
    /\ \A j \in DOMAIN toSubmitter : toSubmitter[j] = Crashed \/ toSubmitter[j].id >= 1
    /\ \A j, k \in DOMAIN toWallet : toWallet[j].id = toWallet[k].id => j = k
    /\ \A j \in DOMAIN toWallet, r \in held : toWallet[j].id # r.id
    /\ \A r, s \in held : r.id = s.id => r = s
    /\ NoPromiseForgotten

(* The transactions sent for an order and the requests that may still send *)
(* one: together at most one while its promise is pending or was kept, and *)
(* none otherwise.                                                         *)

Unsent(o) ==
    {i \in Nat : \/ \E j \in DOMAIN toWallet : toWallet[j] = [id |-> i, order |-> o]
                 \/ [id |-> i, order |-> o, sent |-> FALSE] \in held}

Allowed(o) ==
    IF stage[o] = "waiting" \/ (place[o] = "submit" /\ stage[o] = "completed") \/ place[o] = "gone"
    THEN 1 ELSE 0

SentInv == \A o \in Orders : txs[o] + Cardinality(Unsent(o)) <= Allowed(o)

\* The orders in the eval and the submit queue.
InWork == {o \in Orders : place[o] \in {"eval", "submit"}}

CapacityInv == IsFiniteSet(InWork) /\ CapacityForOthers

IInv == TypeInv /\ StageInv /\ PortInv /\ SentInv /\ CapacityInv /\ PendingQueueInOrder

-----------------------------------------------------------------------------
(* The port.                                                               *)

Message == [id : Nat, order : Orders]
News == [id : Nat, order : Orders, result : Results] \cup {Crashed}
Request == [id : Nat, order : Orders, sent : BOOLEAN]

LEMMA PortTypes ==
    ASSUME PortTypeOK
    PROVE  /\ nextId \in Nat /\ listener \in [Orders -> Nat] /\ crashes \in Nat
           /\ toWallet \in Seq(Message) /\ held \in SUBSET Request /\ toSubmitter \in Seq(News)
           /\ txs \in [Orders -> Int]
BY PortAssumption DEF PortTypeOK, Message, News, Request

\* What appending to and taking from a queue do to its messages.
LEMMA Appended ==
    ASSUME NEW S, NEW s \in Seq(S), NEW e \in S
    PROVE  /\ Append(s, e) \in Seq(S)
           /\ DOMAIN Append(s, e) = DOMAIN s \cup {Len(s) + 1}
           /\ \A j \in DOMAIN s : Append(s, e)[j] = s[j]
           /\ Append(s, e)[Len(s) + 1] = e
<1>1. /\ Append(s, e) \in Seq(S) /\ Len(s) \in Nat
      /\ Len(Append(s, e)) = Len(s) + 1 /\ DOMAIN s = 1..Len(s)
      /\ \A j \in 1..Len(s) : Append(s, e)[j] = s[j]
      /\ Append(s, e)[Len(s) + 1] = e
  OBVIOUS
<1>2. DOMAIN Append(s, e) = DOMAIN s \cup {Len(s) + 1}
  BY <1>1
<1> QED
  BY <1>1, <1>2

LEMMA Taken ==
    ASSUME NEW S, NEW s \in Seq(S), s # <<>>
    PROVE  /\ Head(s) \in S /\ Tail(s) \in Seq(S)
           /\ 1 \in DOMAIN s /\ Head(s) = s[1]
           /\ \A j \in DOMAIN Tail(s) : /\ j + 1 \in DOMAIN s /\ j + 1 # 1 /\ j \in Nat
                                        /\ Tail(s)[j] = s[j + 1]
           /\ \A k \in DOMAIN s : k = 1 \/ (k - 1 \in DOMAIN Tail(s) /\ Tail(s)[k - 1] = s[k])
<1>1. /\ Head(s) \in S /\ Tail(s) \in Seq(S) /\ Len(s) \in Nat /\ Len(s) > 0
      /\ Head(s) = s[1] /\ Len(Tail(s)) = Len(s) - 1
      /\ DOMAIN s = 1..Len(s) /\ DOMAIN Tail(s) = 1..(Len(s) - 1)
      /\ \A j \in 1..(Len(s) - 1) : Tail(s)[j] = s[j + 1]
  OBVIOUS
<1>2. \A j \in DOMAIN Tail(s) : j + 1 \in DOMAIN s /\ j + 1 # 1 /\ j \in Nat /\ Tail(s)[j] = s[j + 1]
  BY <1>1
<1>3. \A k \in DOMAIN s : k = 1 \/ (k - 1 \in DOMAIN Tail(s) /\ Tail(s)[k - 1] = s[k])
  BY <1>1
<1> QED
  BY <1>1, <1>2, <1>3

PortStep ==
    \/ \E o \in Orders : SubmitTransaction(o)
    \/ HandleWalletPortData
    \/ \E r \in held : SendTransaction(r) \/ \E result \in Results : SendResult(r, result)
    \/ WorkerExits \/ Receive \/ UNCHANGED portVars

LEMMA PortTypeStep ==
    ASSUME PortTypeOK, PortStep
    PROVE  PortTypeOK'
<1>t. /\ nextId \in Nat /\ listener \in [Orders -> Nat] /\ crashes \in Nat
      /\ toWallet \in Seq(Message) /\ held \in SUBSET Request /\ toSubmitter \in Seq(News)
      /\ txs \in [Orders -> Int] /\ crashes \in 0..MaxCrashes
  BY PortTypes DEF PortTypeOK
<1>g. ASSUME nextId' \in Nat, listener' \in [Orders -> Nat], crashes' \in 0..MaxCrashes,
             toWallet' \in Seq(Message), held' \in SUBSET Request, toSubmitter' \in Seq(News),
             txs' \in [Orders -> Int]
      PROVE  PortTypeOK'
  BY <1>g DEF PortTypeOK, Message, News, Request
<1>1. ASSUME NEW o \in Orders, SubmitTransaction(o) PROVE PortTypeOK'
  <2>1. [id |-> nextId, order |-> o] \in Message
    BY <1>t DEF Message
  <2>2. toWallet' \in Seq(Message)
    BY <1>1, <1>t, <2>1, Appended DEF SubmitTransaction
  <2>3. nextId' \in Nat /\ listener' \in [Orders -> Nat]
    BY <1>1, <1>t DEF SubmitTransaction
  <2> QED
    BY <1>1, <1>g, <1>t, <2>2, <2>3 DEF SubmitTransaction
<1>2. CASE HandleWalletPortData
  <2>1. Head(toWallet) \in Message /\ Tail(toWallet) \in Seq(Message)
    BY <1>2, <1>t, Taken DEF HandleWalletPortData
  <2>2. [id |-> Head(toWallet).id, order |-> Head(toWallet).order, sent |-> FALSE] \in Request
    BY <2>1 DEF Message, Request
  <2>3. toWallet' \in Seq(Message) /\ held' \in SUBSET Request
    BY <1>2, <1>t, <2>1, <2>2 DEF HandleWalletPortData
  <2> QED
    BY <1>2, <1>g, <1>t, <2>3 DEF HandleWalletPortData
<1>3. ASSUME NEW r \in held, SendTransaction(r) PROVE PortTypeOK'
  <2>1. [r EXCEPT !.sent = TRUE] \in Request
    BY <1>t DEF Request
  <2>2. held' \in SUBSET Request
    BY <1>3, <1>t, <2>1 DEF SendTransaction
  <2>3. txs' \in [Orders -> Int]
    BY <1>3, <1>t DEF SendTransaction, Request
  <2> QED
    BY <1>3, <1>g, <1>t, <2>2, <2>3 DEF SendTransaction
<1>4. ASSUME NEW r \in held, NEW result \in Results, SendResult(r, result) PROVE PortTypeOK'
  <2>1. [id |-> r.id, order |-> r.order, result |-> result] \in News
    BY <1>t DEF Request, News
  <2>2. toSubmitter' \in Seq(News) /\ held' \in SUBSET Request
    BY <1>4, <1>t, <2>1, Appended DEF SendResult
  <2> QED
    BY <1>4, <1>g, <1>t, <2>2 DEF SendResult
<1>5. CASE WorkerExits
  <2>1. Crashed \in News
    BY DEF News
  <2>2. toSubmitter' \in Seq(News) /\ held' \in SUBSET Request
    BY <1>5, <1>t, <2>1, Appended DEF WorkerExits
  <2>3. crashes' \in 0..MaxCrashes
    BY <1>5, <1>t, PortAssumption DEF WorkerExits
  <2> QED
    BY <1>5, <1>g, <1>t, <2>2, <2>3 DEF WorkerExits
<1>6. CASE Receive
  <2>1. toSubmitter' \in Seq(News)
    BY <1>6, <1>t, Taken DEF Receive
  <2>2. listener' \in [Orders -> Nat] /\ txs' \in [Orders -> Int]
    BY <1>6, <1>t DEF Receive
  <2> QED
    BY <1>6, <1>g, <1>t, <2>1, <2>2 DEF Receive
<1>7. CASE UNCHANGED portVars
  BY <1>7 DEF PortTypeOK, portVars
<1> QED
  BY <1>1, <1>2, <1>3, <1>4, <1>5, <1>6, <1>7 DEF PortStep

LEMMA PortInvStep ==
    ASSUME PortTypeOK, PortInv, PortStep
    PROVE  PortInv'
<1>t. /\ nextId \in Nat /\ listener \in [Orders -> Nat] /\ crashes \in Nat
      /\ toWallet \in Seq(Message) /\ held \in SUBSET Request /\ toSubmitter \in Seq(News)
      /\ txs \in [Orders -> Int]
  BY PortTypes
<1>p. \A o \in Orders : listener[o] # 0 => Requests(listener[o])
  BY DEF PortInv, NoPromiseForgotten
<1>1. ASSUME NEW o \in Orders, SubmitTransaction(o) PROVE PortInv'
  <2> DEFINE e == [id |-> nextId, order |-> o]
  <2>1. /\ toWallet' = Append(toWallet, e) /\ nextId' = nextId + 1
        /\ UNCHANGED <<held, toSubmitter>> /\ e \in Message
    BY <1>1, <1>t DEF SubmitTransaction, Message
  <2> HIDE DEF e
  <2>2. /\ DOMAIN toWallet' = DOMAIN toWallet \cup {Len(toWallet) + 1}
        /\ \A j \in DOMAIN toWallet : toWallet'[j] = toWallet[j]
        /\ toWallet'[Len(toWallet) + 1] = e /\ e.id = nextId
    BY <1>t, <2>1, Appended DEF e
  <2>3. /\ \A j \in DOMAIN toWallet : toWallet[j].id \in 1..(nextId - 1)
        /\ \A r \in held : r.id \in 1..(nextId - 1)
        /\ nextId >= 1
    BY DEF PortInv
  <2>4. /\ nextId' >= 1
        /\ \A j \in DOMAIN toWallet' : toWallet'[j].id \in 1..(nextId' - 1)
        /\ \A r \in held' : r.id \in 1..(nextId' - 1)
    BY <1>t, <2>1, <2>2, <2>3
  <2>5. \A j, k \in DOMAIN toWallet' : toWallet'[j].id = toWallet'[k].id => j = k
    BY <1>t, <2>2, <2>3 DEF PortInv
  <2>6. \A j \in DOMAIN toWallet', r \in held' : toWallet'[j].id # r.id
    BY <1>t, <2>1, <2>2, <2>3 DEF PortInv
  <2>7. ASSUME NEW q \in Orders, listener'[q] # 0 PROVE Requests(listener[q])'
    <3>1. CASE q = o
      <4>1. listener'[q] = nextId
        BY <1>1, <1>t, <3>1 DEF SubmitTransaction
      <4> QED
        BY <2>2, <4>1 DEF Requests
    <3>2. CASE q # o
      <4>1. listener'[q] = listener[q] /\ Requests(listener[q])
        BY <1>1, <1>p, <1>t, <2>7, <3>2 DEF SubmitTransaction
      <4> QED
        BY <2>1, <2>2, <4>1 DEF Requests
    <3> QED
      BY <3>1, <3>2
  <2> QED
    BY <2>1, <2>4, <2>5, <2>6, <2>7 DEF PortInv, NoPromiseForgotten
<1>2. CASE HandleWalletPortData
  <2> DEFINE h == Head(toWallet)
             e == [id |-> h.id, order |-> h.order, sent |-> FALSE]
  <2>1. /\ held' = held \cup {e} /\ toWallet' = Tail(toWallet)
        /\ UNCHANGED <<nextId, listener, toSubmitter>>
    BY <1>2 DEF HandleWalletPortData
  <2>2. /\ h \in Message /\ 1 \in DOMAIN toWallet /\ h = toWallet[1]
        /\ \A j \in DOMAIN toWallet' : /\ j + 1 \in DOMAIN toWallet /\ j + 1 # 1 /\ j \in Nat
                                       /\ toWallet'[j] = toWallet[j + 1]
        /\ \A k \in DOMAIN toWallet : k = 1 \/ (k - 1 \in DOMAIN toWallet' /\ toWallet'[k - 1] = toWallet[k])
    BY <1>2, <1>t, <2>1, Taken DEF HandleWalletPortData
  <2>3. e.id = toWallet[1].id
    BY <2>2
  <2> HIDE DEF h, e
  <2>4. \A j \in DOMAIN toWallet' : toWallet'[j].id \in 1..(nextId' - 1)
    BY <2>1, <2>2 DEF PortInv
  <2>5. \A r \in held' : r.id \in 1..(nextId' - 1)
    BY <2>1, <2>2, <2>3 DEF PortInv
  <2>6. \A j, k \in DOMAIN toWallet' : toWallet'[j].id = toWallet'[k].id => j = k
    <3> SUFFICES ASSUME NEW j \in DOMAIN toWallet', NEW k \in DOMAIN toWallet',
                        toWallet'[j].id = toWallet'[k].id
                 PROVE  j = k
      OBVIOUS
    <3>1. j + 1 = k + 1
      BY <2>2 DEF PortInv
    <3> QED
      BY <2>2, <3>1
  <2>7. \A j \in DOMAIN toWallet', r \in held' : toWallet'[j].id # r.id
    BY <2>1, <2>2, <2>3 DEF PortInv
  <2>8. \A r, s \in held' : r.id = s.id => r = s
    BY <2>1, <2>2, <2>3 DEF PortInv
  <2>9. ASSUME NEW q \in Orders, listener'[q] # 0 PROVE Requests(listener[q])'
    <3>1. Requests(listener'[q])
      BY <1>p, <2>1, <2>9
    <3>2. ASSUME NEW j \in DOMAIN toWallet, toWallet[j].id = listener'[q]
          PROVE  Requests(listener[q])'
      BY <2>1, <2>2, <2>3, <3>2 DEF Requests
    <3> QED
      BY <2>1, <3>1, <3>2 DEF Requests
  <2> QED
    BY <2>1, <2>4, <2>5, <2>6, <2>7, <2>8, <2>9 DEF PortInv, NoPromiseForgotten
<1>3. ASSUME NEW r \in held, SendTransaction(r) PROVE PortInv'
  <2> DEFINE e == [r EXCEPT !.sent = TRUE]
  <2>1. held' = (held \ {r}) \cup {e} /\ UNCHANGED <<nextId, listener, toWallet, toSubmitter>>
    BY <1>3 DEF SendTransaction
  <2>2. e.id = r.id
    BY <1>t DEF Request
  <2> HIDE DEF e
  <2>3. \A s \in held' : s.id \in 1..(nextId' - 1)
    BY <2>1, <2>2 DEF PortInv
  <2>4. \A j \in DOMAIN toWallet', s \in held' : toWallet'[j].id # s.id
    BY <2>1, <2>2 DEF PortInv
  <2>5. \A s, u \in held' : s.id = u.id => s = u
    BY <2>1, <2>2 DEF PortInv
  <2>6. ASSUME NEW q \in Orders, listener'[q] # 0 PROVE Requests(listener[q])'
    <3>1. Requests(listener'[q])
      BY <1>p, <2>1, <2>6
    <3> QED
      BY <2>1, <2>2, <3>1 DEF Requests
  <2> QED
    BY <2>1, <2>3, <2>4, <2>5, <2>6 DEF PortInv, NoPromiseForgotten
<1>4. ASSUME NEW r \in held, NEW result \in Results, SendResult(r, result) PROVE PortInv'
  <2> DEFINE e == [id |-> r.id, order |-> r.order, result |-> result]
  <2>1. /\ held' = held \ {r} /\ toSubmitter' = Append(toSubmitter, e) /\ e \in News
        /\ UNCHANGED <<nextId, listener, toWallet>>
    BY <1>4, <1>t DEF SendResult, Request, News
  <2>2. e.id = r.id /\ r.id >= 1
    BY <1>t DEF PortInv, Request
  <2> HIDE DEF e
  <2>3. /\ DOMAIN toSubmitter' = DOMAIN toSubmitter \cup {Len(toSubmitter) + 1}
        /\ \A j \in DOMAIN toSubmitter : toSubmitter'[j] = toSubmitter[j]
        /\ toSubmitter'[Len(toSubmitter) + 1] = e
    BY <1>t, <2>1, Appended
  <2>4. \A j \in DOMAIN toSubmitter' : toSubmitter'[j] = Crashed \/ toSubmitter'[j].id >= 1
    BY <2>2, <2>3 DEF PortInv
  <2>5. ASSUME NEW q \in Orders, listener'[q] # 0 PROVE Requests(listener[q])'
    <3>1. Requests(listener'[q])
      BY <1>p, <2>1, <2>5
    <3> QED
      BY <2>1, <2>2, <2>3, <3>1 DEF Requests
  <2> QED
    BY <2>1, <2>4, <2>5 DEF PortInv, NoPromiseForgotten
<1>5. CASE WorkerExits
  <2>1. /\ held' = {} /\ toSubmitter' = Append(toSubmitter, Crashed) /\ Crashed \in News
        /\ UNCHANGED <<nextId, listener, toWallet>>
    BY <1>5 DEF WorkerExits, News
  <2>2. /\ DOMAIN toSubmitter' = DOMAIN toSubmitter \cup {Len(toSubmitter) + 1}
        /\ \A j \in DOMAIN toSubmitter : toSubmitter'[j] = toSubmitter[j]
        /\ toSubmitter'[Len(toSubmitter) + 1] = Crashed
    BY <1>t, <2>1, Appended
  <2>3. \A j \in DOMAIN toSubmitter' : toSubmitter'[j] = Crashed \/ toSubmitter'[j].id >= 1
    BY <2>2 DEF PortInv
  <2>4. \A q \in Orders : Requests(listener[q])'
    BY <2>2 DEF Requests
  <2> QED
    BY <2>1, <2>3, <2>4 DEF PortInv, NoPromiseForgotten
<1>6. CASE Receive
  <2> DEFINE h == Head(toSubmitter)
  <2>1. /\ toSubmitter' = Tail(toSubmitter) /\ UNCHANGED <<nextId, toWallet, held>>
        /\ listener' = [o \in Orders |-> IF o \in Resolved THEN 0 ELSE listener[o]]
    BY <1>6 DEF Receive
  <2>2. /\ h \in News /\ 1 \in DOMAIN toSubmitter /\ h = toSubmitter[1]
        /\ \A j \in DOMAIN toSubmitter' : j + 1 \in DOMAIN toSubmitter /\ toSubmitter'[j] = toSubmitter[j + 1]
        /\ \A k \in DOMAIN toSubmitter :
              k = 1 \/ (k - 1 \in DOMAIN toSubmitter' /\ toSubmitter'[k - 1] = toSubmitter[k])
    BY <1>6, <1>t, <2>1, Taken DEF Receive
  <2>3. \A j \in DOMAIN toSubmitter' : toSubmitter'[j] = Crashed \/ toSubmitter'[j].id >= 1
    BY <2>2 DEF PortInv
  <2>4. ASSUME NEW q \in Orders, listener'[q] # 0 PROVE Requests(listener[q])'
    <3>1. /\ listener'[q] = listener[q] /\ q \notin Resolved /\ Requests(listener[q])
      BY <1>p, <2>1, <2>4
    <3>2. h.id # listener[q] /\ h # Crashed
      BY <2>4, <3>1 DEF Resolved
    <3>3. h.id # Crashed.id
      BY <2>2, <3>2 DEF PortInv, Crashed
    <3>4. ASSUME NEW j \in DOMAIN toSubmitter, toSubmitter[j].id \in {listener[q], Crashed.id}
          PROVE  Requests(listener[q])'
      <4>1. j # 1
        BY <2>2, <3>2, <3>3, <3>4
      <4>2. j - 1 \in DOMAIN toSubmitter' /\ toSubmitter'[j - 1] = toSubmitter[j]
        BY <2>2, <4>1
      <4> HIDE DEF h
      <4> QED
        BY <3>1, <3>4, <4>2 DEF Requests, Crashed
    <3> QED
      BY <2>1, <3>1, <3>4 DEF Requests
  <2> QED
    BY <2>1, <2>3, <2>4 DEF PortInv, NoPromiseForgotten
<1>7. CASE UNCHANGED portVars
  BY <1>7 DEF PortInv, NoPromiseForgotten, Requests, portVars
<1> QED
  BY <1>1, <1>2, <1>3, <1>4, <1>5, <1>6, <1>7 DEF PortStep

-----------------------------------------------------------------------------
(* The pending queue.                                                      *)

Entry == [order : Orders, processAt : 0..(MaxTime + NewOrdersDelay)]

\* Every set of numbers has a least one.
LEMMA LeastElement ==
    ASSUME NEW T \in SUBSET Nat, T # {}
    PROVE  \E x \in T : \A y \in T : x <= y
<1> DEFINE R == OpToRel(<, Nat)
<1>1. \A a, b \in Nat : a < b => <<a, b>> \in R
  BY Zenon DEF OpToRel
<1>2. IsWellFoundedOn(R, Nat)
  BY NatLessThanWellFounded, Zenon
<1> HIDE DEF R
<1>3. PICK x \in T : \A y \in T : ~(<<y, x>> \in R)
  BY <1>2, WFMin, Zenon
<1>4. \A y \in T : ~(y < x)
  BY <1>1, <1>3
<1> QED
  BY <1>4

LEMMA Concat ==
    ASSUME NEW S, NEW s \in Seq(S), NEW t \in Seq(S)
    PROVE  /\ s \o t \in Seq(S) /\ Len(s \o t) = Len(s) + Len(t)
           /\ \A j \in 1..Len(s) : (s \o t)[j] = s[j]
           /\ \A j \in 1..Len(t) : (s \o t)[Len(s) + j] = t[j]
OBVIOUS

\* A queue in order, as PendingQueueInOrder says of the pending one.
Ordered(queue) == \A j, k \in DOMAIN queue : j < k => queue[j].processAt <= queue[k].processAt

\* Orders are inserted in one piece, between those due no later and the others.
LEMMA InsertedShape ==
    ASSUME NEW queue \in Seq(Entry), Ordered(queue), NEW orders \in Seq(Orders), NEW at \in Nat
    PROVE  LET res == Inserted(queue, orders, at)
               n == Len(orders)
           IN  \E p \in 1..(Len(queue) + 1) :
                  /\ \A j \in 1..(p - 1) : j \in DOMAIN queue /\ queue[j].processAt <= at
                  /\ \A j \in p..Len(queue) : j \in DOMAIN queue /\ queue[j].processAt > at
                  /\ DOMAIN res = 1..(Len(queue) + n) /\ Len(res) = Len(queue) + n
                  /\ res \in Seq(Entry \cup [order : Orders, processAt : {at}])
                  /\ \A j \in 1..(p - 1) : res[j] = queue[j]
                  /\ \A j \in 1..n : res[p - 1 + j] = [order |-> orders[j], processAt |-> at]
                  /\ \A j \in p..Len(queue) : res[n + j] = queue[j]
<1> DEFINE Here(x) == /\ x <= Len(queue) => queue[x].processAt > at
                      /\ \A m \in 1..(x - 1) : queue[m].processAt <= at
           Later == {x \in 1..(Len(queue) + 1) : x <= Len(queue) => queue[x].processAt > at}
           p == CHOOSE x \in 1..(Len(queue) + 1) : Here(x)
           n == Len(orders)
           res == Inserted(queue, orders, at)
           E == Entry \cup [order : Orders, processAt : {at}]
<1>1. Len(queue) \in Nat /\ n \in Nat /\ DOMAIN queue = 1..Len(queue) /\ DOMAIN orders = 1..n
  OBVIOUS
<1>2. \A j \in 1..Len(queue) : queue[j] \in Entry /\ queue[j].processAt \in Nat
  <2>1. 0..(MaxTime + NewOrdersDelay) \subseteq Nat
    BY SubmitterAssumption
  <2>2. \A j \in 1..Len(queue) : queue[j] \in Entry
    BY <1>1
  <2> QED
    BY <2>1, <2>2 DEF Entry
<1>3. p \in 1..(Len(queue) + 1) /\ Here(p)
  <2>1. Len(queue) + 1 \in Later /\ Later \subseteq Nat
    BY <1>1
  <2>2. PICK x \in Later : \A y \in Later : x <= y
    BY <2>1, LeastElement
  <2>3. \A m \in 1..(x - 1) : queue[m].processAt <= at
    <3> SUFFICES ASSUME NEW m \in 1..(x - 1), ~(queue[m].processAt <= at) PROVE FALSE
      OBVIOUS
    <3>1. m \in 1..Len(queue) /\ queue[m].processAt \in Nat
      BY <1>1, <1>2
    <3>2. m \in Later
      BY <1>1, <3>1
    <3> QED
      BY <1>1, <2>2, <3>2
  <2>4. \E y \in 1..(Len(queue) + 1) : Here(y)
    BY <2>2, <2>3
  <2> HIDE DEF Here
  <2> QED
    BY <2>4
<1>4. /\ \A j \in 1..(p - 1) : j \in DOMAIN queue /\ queue[j].processAt <= at
      /\ \A j \in p..Len(queue) : j \in DOMAIN queue /\ queue[j].processAt > at
  <2>1. \A j \in 1..(p - 1) : j \in DOMAIN queue /\ queue[j].processAt <= at
    BY <1>1, <1>3
  <2>2. ASSUME NEW j \in p..Len(queue) PROVE j \in DOMAIN queue /\ queue[j].processAt > at
    <3> HIDE DEF p
    <3>1. p \in 1..Len(queue) /\ j \in 1..Len(queue) /\ queue[p].processAt > at
      BY <1>1, <1>3
    <3>2. p = j \/ queue[p].processAt <= queue[j].processAt
      BY <1>1, <3>1 DEF Ordered
    <3>3. queue[p].processAt \in Nat /\ queue[j].processAt \in Nat
      BY <1>2, <3>1
    <3> QED
      BY <1>1, <3>1, <3>2, <3>3
  <2> QED
    BY <2>1, <2>2
<1> DEFINE a == SubSeq(queue, 1, p - 1)
           b == Entries(orders, at)
           c == SubSeq(queue, p, Len(queue))
<1>5. res = a \o b \o c
  BY DEF Inserted
<1>6. /\ a \in Seq(E) /\ Len(a) = p - 1 /\ \A j \in 1..(p - 1) : a[j] = queue[j]
      /\ c \in Seq(E) /\ Len(c) = Len(queue) - p + 1 /\ \A j \in 1..(Len(queue) - p + 1) : c[j] = queue[p - 1 + j]
  <2> HIDE DEF p, E
  <2>1. queue \in Seq(E)
    BY <1>1, <1>2 DEF E
  <2>2. a \in Seq(E) /\ Len(a) = p - 1 /\ \A j \in 1..(p - 1) : a[j] = queue[j]
    BY <1>1, <1>3, <2>1
  <2>3. c \in Seq(E) /\ Len(c) = Len(queue) - p + 1
    BY <1>1, <1>3, <2>1
  <2>4. \A j \in 1..(Len(queue) - p + 1) : c[j] = queue[p - 1 + j]
    BY <1>1, <1>3, <2>1
  <2> QED
    BY <2>2, <2>3, <2>4
<1>7. /\ b \in Seq(E) /\ Len(b) = n
      /\ \A j \in 1..n : b[j] = [order |-> orders[j], processAt |-> at]
  <2>1. \A j \in 1..n : orders[j] \in Orders
    BY <1>1
  <2>2. b = [j \in 1..n |-> [order |-> orders[j], processAt |-> at]]
    BY DEF Entries
  <2>3. b \in [1..n -> E]
    BY <2>1, <2>2
  <2> QED
    BY <1>1, <2>2, <2>3
<1> HIDE DEF a, b, c, p, E, res, n
<1>8. /\ res \in Seq(E) /\ Len(res) = Len(queue) + n
      /\ \A j \in 1..(p - 1) : res[j] = a[j]
      /\ \A j \in 1..n : res[p - 1 + j] = b[j]
      /\ \A j \in 1..(Len(queue) - p + 1) : res[p - 1 + n + j] = c[j]
  <2>0. a \o b \in Seq(E) /\ Len(a \o b) = Len(a) + Len(b)
    BY <1>6, <1>7, Concat
  <2>1. a \o b \in Seq(E) /\ Len(a \o b) = p - 1 + n
    BY <1>6, <1>7, <2>0
  <2>2. \A j \in 1..(p - 1) : (a \o b)[j] = a[j]
    BY <1>6, <1>7, Concat
  <2>3. \A j \in 1..n : (a \o b)[p - 1 + j] = b[j]
    BY <1>6, <1>7, Concat
  <2> DEFINE ab == a \o b
  <2> HIDE DEF ab
  <2>4. ab \in Seq(E) /\ Len(ab) = p - 1 + n
    BY <2>1 DEF ab
  <2>5. res = ab \o c
    BY <1>5 DEF ab
  <2>6. /\ res \in Seq(E) /\ Len(res) = Len(ab) + Len(c)
        /\ \A j \in 1..Len(ab) : res[j] = ab[j]
        /\ \A j \in 1..Len(c) : res[Len(ab) + j] = c[j]
    <3>1. ab \in Seq(E) /\ c \in Seq(E)
      BY <1>6, <2>4
    <3>2. /\ ab \o c \in Seq(E) /\ Len(ab \o c) = Len(ab) + Len(c)
          /\ \A j \in 1..Len(ab) : (ab \o c)[j] = ab[j]
          /\ \A j \in 1..Len(c) : (ab \o c)[Len(ab) + j] = c[j]
      BY <3>1, Concat
    <3> QED
      BY <2>5, <3>2, Zenon
  <2>7. Len(res) = Len(queue) + n
    <3>1. Len(res) = (p - 1 + n) + (Len(queue) - p + 1) /\ p \in Nat
      BY <1>3, <1>6, <2>4, <2>6
    <3> QED
      BY <1>1, <3>1
  <2>9. \A j \in 1..(p - 1) : j \in 1..(p - 1 + n)
    BY <1>1, <1>3
  <2>10. \A j \in 1..n : p - 1 + j \in 1..(p - 1 + n)
    BY <1>1, <1>3
  <2> QED
    BY <1>6, <2>2, <2>3, <2>4, <2>6, <2>7, <2>9, <2>10 DEF ab
<1>9. ASSUME NEW j \in p..Len(queue) PROVE res[n + j] = queue[j]
  <2>1. j - p + 1 \in 1..(Len(queue) - p + 1) /\ p - 1 + n + (j - p + 1) = n + j /\ p - 1 + (j - p + 1) = j
    BY <1>1, <1>3
  <2> QED
    BY <1>6, <1>8, <2>1
<1>10. DOMAIN res = 1..(Len(queue) + n)
  BY <1>8
<1>11. /\ \A j \in 1..(p - 1) : res[j] = queue[j]
       /\ \A j \in 1..n : res[p - 1 + j] = [order |-> orders[j], processAt |-> at]
  BY <1>6, <1>7, <1>8
<1> QED
  BY <1>3, <1>4, <1>8, <1>9, <1>10, <1>11 DEF res, n, E

Distinct(queue) == \A j, k \in DOMAIN queue : queue[j].order = queue[k].order => j = k
OrdersOf(queue) == {queue[j].order : j \in DOMAIN queue}

\* A sequence whose elements all lie in a smaller set.
LEMMA Retyped ==
    ASSUME NEW S, NEW U, NEW s \in Seq(S), \A j \in DOMAIN s : s[j] \in U
    PROVE  s \in Seq(U)
OBVIOUS

\* Inserting keeps a queue in order, each order in it once.
LEMMA InsertedFacts ==
    ASSUME NEW queue \in Seq(Entry), Ordered(queue), Distinct(queue),
           NEW orders \in Seq(Orders), NEW at \in Nat,
           \A j \in DOMAIN orders : orders[j] \notin OrdersOf(queue),
           \A j, k \in DOMAIN orders : orders[j] = orders[k] => j = k,
           \A j \in DOMAIN orders : at \in 0..(MaxTime + NewOrdersDelay)
    PROVE  LET res == Inserted(queue, orders, at)
           IN  /\ res \in Seq(Entry) /\ Ordered(res) /\ Distinct(res)
               /\ OrdersOf(res) = OrdersOf(queue) \cup {orders[j] : j \in DOMAIN orders}
<1> DEFINE res == Inserted(queue, orders, at)
           n == Len(orders)
           l == Len(queue)
           new(i) == [order |-> orders[i], processAt |-> at]
<1>1. PICK p \in 1..(l + 1) :
        /\ \A j \in 1..(p - 1) : j \in DOMAIN queue /\ queue[j].processAt <= at
        /\ \A j \in p..l : j \in DOMAIN queue /\ queue[j].processAt > at
        /\ DOMAIN res = 1..(l + n) /\ Len(res) = l + n
        /\ res \in Seq(Entry \cup [order : Orders, processAt : {at}])
        /\ \A j \in 1..(p - 1) : res[j] = queue[j]
        /\ \A j \in 1..n : res[p - 1 + j] = new(j)
        /\ \A j \in p..l : res[n + j] = queue[j]
  <2>1. queue \in Seq(Entry) /\ Ordered(queue) /\ orders \in Seq(Orders) /\ at \in Nat
    OBVIOUS
  <2> QED
    BY ONLY <2>1, InsertedShape, Zenon
<1>2. l \in Nat /\ n \in Nat /\ DOMAIN queue = 1..l /\ DOMAIN orders = 1..n /\ p \in Nat /\ p <= l + 1 /\ p >= 1
  BY <1>1
<1>3. \A j \in 1..l : queue[j] \in Entry
  OBVIOUS
<1> HIDE DEF res, n, l
<1> DEFINE InA(j) == j \in 1..(p - 1) /\ res[j] = queue[j]
           InB(j, i) == i \in 1..n /\ j = p - 1 + i /\ res[j] = new(i)
           InC(j, i) == i \in p..l /\ j = n + i /\ res[j] = queue[i]
<1>4. \A j \in DOMAIN res : InA(j) \/ (\E i \in 1..n : InB(j, i)) \/ (\E i \in p..l : InC(j, i))
  <2> SUFFICES ASSUME NEW j \in DOMAIN res
               PROVE  InA(j) \/ (\E i \in 1..n : InB(j, i)) \/ (\E i \in p..l : InC(j, i))
    OBVIOUS
  <2>1. j \in Nat /\ j >= 1 /\ j <= l + n
    BY <1>1, <1>2
  <2>2. CASE j < p
    BY <1>1, <1>2, <2>1, <2>2
  <2>3. CASE p <= j /\ j < p + n
    <3>1. j - p + 1 \in 1..n /\ j = p - 1 + (j - p + 1)
      BY <1>2, <2>1, <2>3
    <3> QED
      BY <1>1, <3>1
  <2>4. CASE p + n <= j
    <3>1. j - n \in p..l /\ j = n + (j - n)
      BY <1>2, <2>1, <2>4
    <3> QED
      BY <1>1, <3>1
  <2> QED
    BY <1>2, <2>1, <2>2, <2>3, <2>4
<1>5. res \in Seq(Entry)
  <2>1. \A i \in 1..n : new(i) \in Entry
    <3> SUFFICES ASSUME NEW i \in 1..n PROVE new(i) \in Entry
      OBVIOUS
    <3>1. orders[i] \in Orders /\ at \in 0..(MaxTime + NewOrdersDelay)
      BY <1>2
    <3> QED
      BY <3>1 DEF Entry
  <2>2. \A j \in DOMAIN res : res[j] \in Entry
    BY <1>2, <1>3, <1>4, <2>1
  <2> HIDE DEF new
  <2> QED
    BY <1>1, <2>2, Retyped
<1>6. \A j \in 1..l : queue[j].processAt \in Nat
  <2>1. 0..(MaxTime + NewOrdersDelay) \subseteq Nat
    BY SubmitterAssumption
  <2> QED
    BY <1>3, <2>1 DEF Entry
<1>7. /\ \A j \in DOMAIN res : InA(j) => queue[j].processAt <= at /\ j \in 1..l
      /\ \A j, i : InC(j, i) => queue[i].processAt > at /\ i \in 1..l
  BY <1>1, <1>2
<1>8. Ordered(res)
  <2> SUFFICES ASSUME NEW j \in DOMAIN res, NEW k \in DOMAIN res, j < k
               PROVE  res[j].processAt <= res[k].processAt
    BY DEF Ordered
  <2>1. CASE InA(j)
    <3>1. CASE InA(k)
      BY <1>7, <2>1, <3>1, <1>2 DEF Ordered
    <3>2. ASSUME NEW i \in 1..n, InB(k, i) PROVE res[j].processAt <= res[k].processAt
      BY <1>7, <2>1, <3>2
    <3>3. ASSUME NEW i \in p..l, InC(k, i) PROVE res[j].processAt <= res[k].processAt
      <4>1. /\ queue[j].processAt \in Nat /\ queue[i].processAt \in Nat
            /\ queue[j].processAt <= at /\ queue[i].processAt > at
        BY <1>6, <1>7, <2>1, <3>3
      <4>2. res[j] = queue[j] /\ res[k] = queue[i]
        BY <2>1, <3>3
      <4> QED
        BY <4>1, <4>2
    <3> QED
      BY <1>4, <3>1, <3>2, <3>3
  <2>2. ASSUME NEW i \in 1..n, InB(j, i) PROVE res[j].processAt <= res[k].processAt
    <3>1. ~InA(k)
      BY <1>2, <2>2
    <3>2. ASSUME NEW x \in 1..n, InB(k, x) PROVE res[j].processAt <= res[k].processAt
      BY <2>2, <3>2
    <3>3. ASSUME NEW x \in p..l, InC(k, x) PROVE res[j].processAt <= res[k].processAt
      BY <1>6, <1>7, <2>2, <3>3
    <3> QED
      BY <1>4, <3>1, <3>2, <3>3
  <2>3. ASSUME NEW i \in p..l, InC(j, i) PROVE res[j].processAt <= res[k].processAt
    <3>1. ~InA(k)
      BY <1>2, <2>3
    <3>2. \A x \in 1..n : ~InB(k, x)
      BY <1>2, <2>3
    <3>3. ASSUME NEW x \in p..l, InC(k, x) PROVE res[j].processAt <= res[k].processAt
      <4>1. i < x /\ i \in 1..l /\ x \in 1..l
        BY <1>2, <2>3, <3>3
      <4> QED
        BY <1>2, <2>3, <3>3, <4>1 DEF Ordered
    <3> QED
      BY <1>4, <3>1, <3>2, <3>3
  <2> QED
    BY <1>4, <2>1, <2>2, <2>3
<1>9. Distinct(res)
  <2> SUFFICES ASSUME NEW j \in DOMAIN res, NEW k \in DOMAIN res, res[j].order = res[k].order
               PROVE  j = k
    BY DEF Distinct
  <2>1. \A i \in 1..l, x \in 1..n : queue[i].order # new(x).order
    BY <1>2 DEF OrdersOf
  <2>2. CASE InA(j)
    <3>1. CASE InA(k)
      BY <1>2, <1>7, <2>2, <3>1 DEF Distinct
    <3>2. \A x \in 1..n : ~InB(k, x)
      BY <1>7, <2>1, <2>2
    <3>3. ASSUME NEW x \in p..l, InC(k, x) PROVE FALSE
      <4>1. j = x
        BY <1>2, <1>7, <2>2, <3>3 DEF Distinct
      <4> QED
        BY <1>2, <2>2, <3>3, <4>1
    <3> QED
      BY <1>4, <3>1, <3>2, <3>3
  <2>3. ASSUME NEW i \in 1..n, InB(j, i) PROVE j = k
    <3>1. ~InA(k)
      BY <1>7, <2>1, <2>3
    <3>2. ASSUME NEW x \in 1..n, InB(k, x) PROVE j = k
      <4>1. orders[i] = orders[x]
        BY <2>3, <3>2
      <4>2. i = x
        BY <1>2, <4>1
      <4> QED
        BY <2>3, <3>2, <4>2
    <3>3. \A x \in p..l : ~InC(k, x)
      BY <1>7, <2>1, <2>3
    <3> QED
      BY <1>4, <3>1, <3>2, <3>3
  <2>4. ASSUME NEW i \in p..l, InC(j, i) PROVE j = k
    <3>1. ASSUME InA(k) PROVE FALSE
      <4>1. k = i
        BY <1>2, <1>7, <2>4, <3>1 DEF Distinct
      <4> QED
        BY <1>2, <2>4, <3>1, <4>1
    <3>2. \A x \in 1..n : ~InB(k, x)
      BY <1>7, <2>1, <2>4
    <3>3. ASSUME NEW x \in p..l, InC(k, x) PROVE j = k
      <4>1. i = x
        BY <1>2, <1>7, <2>4, <3>3 DEF Distinct
      <4> QED
        BY <2>4, <3>3, <4>1
    <3> QED
      BY <1>4, <3>1, <3>2, <3>3
  <2> QED
    BY <1>4, <2>2, <2>3, <2>4
<1>10. OrdersOf(res) = OrdersOf(queue) \cup {orders[j] : j \in DOMAIN orders}
  <2>1. ASSUME NEW j \in DOMAIN res
        PROVE  res[j].order \in OrdersOf(queue) \cup {orders[i] : i \in DOMAIN orders}
    <3>1. CASE InA(j)
      <4>1. j \in DOMAIN queue /\ res[j] = queue[j]
        BY <1>2, <1>7, <3>1
      <4> QED
        BY <4>1 DEF OrdersOf
    <3>2. ASSUME NEW i \in 1..n, InB(j, i)
          PROVE  res[j].order \in OrdersOf(queue) \cup {orders[x] : x \in DOMAIN orders}
      <4>1. i \in DOMAIN orders /\ res[j].order = orders[i]
        BY <1>2, <3>2
      <4> QED
        BY <4>1
    <3>3. ASSUME NEW i \in p..l, InC(j, i)
          PROVE  res[j].order \in OrdersOf(queue) \cup {orders[x] : x \in DOMAIN orders}
      <4>1. i \in DOMAIN queue /\ res[j] = queue[i]
        BY <1>2, <1>7, <3>3
      <4> QED
        BY <4>1 DEF OrdersOf
    <3> QED
      BY <1>4, <3>1, <3>2, <3>3
  <2>2. ASSUME NEW i \in 1..l PROVE queue[i].order \in OrdersOf(res)
    <3>1. CASE i < p
      <4>1. i \in 1..(p - 1) /\ i \in DOMAIN res
        BY <1>1, <1>2, <3>1
      <4> QED
        BY <1>1, <4>1 DEF OrdersOf
    <3>2. CASE i >= p
      <4>1. i \in p..l /\ n + i \in DOMAIN res
        BY <1>1, <1>2, <3>2
      <4> QED
        BY <1>1, <4>1 DEF OrdersOf
    <3> QED
      BY <1>2, <3>1, <3>2
  <2>3. ASSUME NEW i \in 1..n PROVE orders[i] \in OrdersOf(res)
    <3>1. p - 1 + i \in 1..(l + n)
      BY <1>2
    <3>2. res[p - 1 + i] = new(i)
      BY <1>1
    <3>3. res[p - 1 + i].order = orders[i]
      BY <3>2
    <3>4. p - 1 + i \in DOMAIN res
      BY <1>1, <3>1
    <3> QED
      BY <3>3, <3>4 DEF OrdersOf
  <2>4. OrdersOf(res) \subseteq OrdersOf(queue) \cup {orders[j] : j \in DOMAIN orders}
    BY <2>1 DEF OrdersOf
  <2>5. OrdersOf(queue) \subseteq OrdersOf(res)
    BY <1>2, <2>2 DEF OrdersOf
  <2> QED
    BY <1>2, <2>3, <2>4, <2>5
<1> QED
  BY <1>5, <1>8, <1>9, <1>10 DEF res

\* What the loop takes from the pending queue is a first part of it.
LEMMA FirstPart ==
    ASSUME NEW n \in Nat, NEW D \in SUBSET (1..n), \A j \in D : \A k \in 1..j : k \in D
    PROVE  \E m \in 0..n : D = 1..m /\ IsFiniteSet(D) /\ Cardinality(D) = m
<1> DEFINE T == {x \in 1..(n + 1) : x \notin D}
<1>1. n + 1 \in T /\ T \subseteq Nat
  OBVIOUS
<1>2. PICK x \in T : \A y \in T : x <= y
  BY <1>1, LeastElement
<1>3. x \in 1..(n + 1) /\ x \notin D
  BY <1>2
<1>4. \A j \in 1..(x - 1) : j \in D
  BY <1>2, <1>3
<1>5. \A j \in D : j \in 1..(x - 1)
  BY <1>3
<1>6. D = 1..(x - 1)
  BY <1>4, <1>5, Zenon
<1>0. x - 1 \in 0..n
  BY <1>3
<1>7. IsFiniteSet(1..(x - 1)) /\ Cardinality(1..(x - 1)) = x - 1
  BY <1>3, FS_Interval
<1> QED
  BY <1>0, <1>6, <1>7

PendingInv ==
    /\ pending \in Seq(Entry) /\ Ordered(pending) /\ Distinct(pending)
    /\ OrdersOf(pending) = {o \in Orders : place[o] = "pending"}

LEMMA PendingInvIs ==
    /\ TypeInv /\ PendingQueueInOrder => PendingInv
    /\ PendingInv => PendingQueueInOrder
BY DEF PendingInv, TypeInv, TypeOK, PendingQueueInOrder, Ordered, Distinct, OrdersOf, Entry

LEMMA CapacityType ==
    ASSUME CapacityInv
    PROVE  /\ Capacity \in Nat /\ Cardinality(InWork) \in Nat
           /\ Capacity = IF Cardinality(InWork) > MaxPendingTransactions THEN 0
                         ELSE MaxPendingTransactions - Cardinality(InWork)
<1>1. Cardinality(InWork) \in Nat /\ MaxPendingTransactions \in Nat
  BY SubmitterAssumption, FS_CardinalityType DEF CapacityInv
<1>2. Capacity = IF Cardinality(InWork) > MaxPendingTransactions THEN 0
                 ELSE MaxPendingTransactions - Cardinality(InWork)
  BY DEF Capacity, InWork
<1> QED
  BY <1>1, <1>2

\* The orders the loop takes, and the pending queue it leaves.
LEMMA Take ==
    ASSUME PendingInv, CapacityInv, NEW retried, ProcessPendingQueue(retried)
    PROVE  \E m \in 0..Len(pending) :
              /\ m <= Capacity
              /\ pending' = SubSeq(pending, m + 1, Len(pending))
              /\ LET taken == {pending[j].order : j \in 1..m}
                 IN  /\ taken \subseteq OrdersOf(pending)
                     /\ place' = [o \in Orders |-> IF o \in taken THEN "eval" ELSE place[o]]
                     /\ stage' = [o \in Orders |-> IF o \in taken \cup retried THEN "new" ELSE stage[o]]
                     /\ tries' = [o \in Orders |-> IF o \in taken THEN 0 ELSE
                                                   IF o \in retried THEN tries[o] + 1 ELSE tries[o]]
<1> DEFINE due == {j \in DOMAIN pending :
                      j <= Capacity /\ \A k \in 1..j : pending[k].processAt <= now}
<1>1. Len(pending) \in Nat /\ DOMAIN pending = 1..Len(pending) /\ Capacity \in Nat
  BY CapacityType DEF PendingInv
<1>2. \A j \in due : \A k \in 1..j : k \in due
  BY <1>1
<1>3. due \in SUBSET (1..Len(pending)) /\ \A j \in due : j <= Capacity
  BY <1>1
<1>4. /\ pending' = SubSeq(pending, Cardinality(due) + 1, Len(pending))
      /\ place' = [o \in Orders |-> IF o \in {pending[j].order : j \in due} THEN "eval" ELSE place[o]]
      /\ stage' = [o \in Orders |-> IF o \in {pending[j].order : j \in due} \cup retried THEN "new" ELSE stage[o]]
      /\ tries' = [o \in Orders |-> IF o \in {pending[j].order : j \in due} THEN 0 ELSE
                                    IF o \in retried THEN tries[o] + 1 ELSE tries[o]]
  BY Zenon DEF ProcessPendingQueue
<1> HIDE DEF due
<1>5. PICK m \in 0..Len(pending) : due = 1..m /\ IsFiniteSet(due) /\ Cardinality(due) = m
  BY <1>1, <1>2, <1>3, FirstPart
<1>6. m <= Capacity
  <2>1. m = 0 \/ m \in 1..m
    BY <1>5
  <2> QED
    BY <1>1, <1>3, <1>5, <2>1
<1>7. {pending[j].order : j \in 1..m} \subseteq OrdersOf(pending)
  BY <1>1, <1>5 DEF OrdersOf
<1> QED
  BY <1>4, <1>5, <1>6, <1>7

\* The rest of a queue in order.
LEMMA RestFacts ==
    ASSUME NEW queue \in Seq(Entry), Ordered(queue), Distinct(queue), NEW m \in 0..Len(queue)
    PROVE  LET res == SubSeq(queue, m + 1, Len(queue))
           IN  /\ res \in Seq(Entry) /\ Ordered(res) /\ Distinct(res)
               /\ OrdersOf(res) = OrdersOf(queue) \ {queue[j].order : j \in 1..m}
<1> DEFINE res == SubSeq(queue, m + 1, Len(queue))
<1>1. /\ Len(queue) \in Nat /\ m \in Nat /\ m <= Len(queue) /\ DOMAIN queue = 1..Len(queue)
      /\ res \in Seq(Entry) /\ Len(res) = Len(queue) - m /\ DOMAIN res = 1..(Len(queue) - m)
      /\ \A j \in 1..(Len(queue) - m) : res[j] = queue[m + j]
  OBVIOUS
<1> HIDE DEF res
<1>2. \A j \in DOMAIN res : m + j \in DOMAIN queue /\ res[j] = queue[m + j] /\ m + j \notin 1..m /\ j \in Nat
  BY <1>1
<1>3. Ordered(res)
  <2> SUFFICES ASSUME NEW j \in DOMAIN res, NEW k \in DOMAIN res, j < k
               PROVE  res[j].processAt <= res[k].processAt
    BY DEF Ordered
  <2>1. m + j < m + k
    BY <1>1, <1>2
  <2> QED
    BY <1>2, <2>1 DEF Ordered
<1>4. Distinct(res)
  <2> SUFFICES ASSUME NEW j \in DOMAIN res, NEW k \in DOMAIN res, res[j].order = res[k].order PROVE j = k
    BY DEF Distinct
  <2>1. m + j = m + k
    BY <1>2 DEF Distinct
  <2> QED
    BY <1>1, <1>2, <2>1
<1>5. \A j \in DOMAIN queue : j \in 1..m \/ (j - m \in DOMAIN res /\ res[j - m] = queue[j])
  <2> SUFFICES ASSUME NEW j \in DOMAIN queue, j \notin 1..m
               PROVE  j - m \in DOMAIN res /\ res[j - m] = queue[j]
    OBVIOUS
  <2>1. j - m \in 1..(Len(queue) - m) /\ m + (j - m) = j
    BY <1>1
  <2> QED
    BY <1>1, <2>1
<1>6. ASSUME NEW j \in DOMAIN res
      PROVE  res[j].order \in OrdersOf(queue) \ {queue[i].order : i \in 1..m}
  <2>1. m + j \in DOMAIN queue /\ res[j] = queue[m + j]
    BY <1>2
  <2>2. \A i \in 1..m : i \in DOMAIN queue /\ i # m + j
    BY <1>1, <1>2
  <2>3. \A i \in 1..m : queue[i].order # queue[m + j].order
    BY <2>1, <2>2 DEF Distinct
  <2> QED
    BY <2>1, <2>3 DEF OrdersOf
<1>7. OrdersOf(queue) \ {queue[i].order : i \in 1..m} \subseteq OrdersOf(res)
  BY <1>5 DEF OrdersOf
<1>8. OrdersOf(res) = OrdersOf(queue) \ {queue[j].order : j \in 1..m}
  BY <1>6, <1>7 DEF OrdersOf
<1> QED
  BY <1>1, <1>3, <1>4, <1>8 DEF res

LEMMA RoundFacts ==
    ASSUME NEW S \in SUBSET Orders, IsFiniteSet(S), NEW round \in Rounds(S)
    PROVE  /\ round \in Seq(Orders)
           /\ \A j, k \in DOMAIN round : round[j] = round[k] => j = k
           /\ {round[j] : j \in DOMAIN round} = S
<1>1. Cardinality(S) \in Nat
  BY FS_CardinalityType
<1>2. round \in [1..Cardinality(S) -> S]
  BY DEF Rounds
<1>3. round \in Seq(Orders)
  BY <1>1, <1>2
<1>4. {round[j] : j \in DOMAIN round} = S
  BY <1>2 DEF Rounds
<1> QED
  BY <1>3, <1>4 DEF Rounds

LEMMA TypeFacts ==
    ASSUME TypeInv
    PROVE  /\ now \in Nat /\ now <= MaxTime /\ MaxTime \in Nat /\ NewOrdersDelay \in Nat
           /\ EvaluationRetryInterval \in Nat /\ MaxEvaluationDuration \in Nat /\ MaxTries \in Nat
           /\ MaxTries >= 1
           /\ place \in [Orders -> {"new", "pending", "eval", "submit", "gone"}]
           /\ stage \in [Orders -> {"new", "retry", "asking", "waiting", "completed", "dropped", "again"}]
           /\ tries \in [Orders -> 0..(MaxTries - 1)] /\ deadline \in [Orders -> 0..MaxTime]
           /\ priority \in [Orders -> BOOLEAN] /\ direct \in [Orders -> BOOLEAN]
           /\ urgent \in [Orders -> BOOLEAN] /\ urgentSeen \in [Orders -> BOOLEAN]
BY SubmitterAssumption DEF TypeInv, TypeOK

\* The orders that go back to the pending queue.
Again == {o \in In("eval", {"again"}) : ~Expires(o)}

LEMMA AgainFacts ==
    ASSUME TypeInv, CapacityInv
    PROVE  /\ Again \in SUBSET Orders /\ IsFiniteSet(Again)
           /\ \A o \in Again : place[o] = "eval" /\ now + EvaluationRetryInterval <= MaxTime
<1>1. Again \subseteq InWork
  BY DEF Again, In, InWork
<1>2. IsFiniteSet(Again)
  BY <1>1, FS_Subset DEF CapacityInv
<1>3. ASSUME NEW o \in Again PROVE place[o] = "eval" /\ now + EvaluationRetryInterval <= MaxTime
  <2>1. o \in Orders /\ place[o] = "eval" /\ ~(now + EvaluationRetryInterval > deadline[o])
    BY DEF Again, In, Expires
  <2>2. deadline[o] \in 0..MaxTime
    BY <2>1, TypeFacts
  <2> QED
    BY <2>1, <2>2, TypeFacts
<1> QED
  BY <1>2, <1>3 DEF Again, In

\* A step keeps the pending queue in order, with the orders that wait there.
LEMMA PendingStep ==
    ASSUME TypeInv, StageInv, CapacityInv, PendingInv, [Next]_vars
    PROVE  PendingInv'
<1>t. /\ now \in Nat /\ now <= MaxTime /\ MaxTime \in Nat /\ NewOrdersDelay \in Nat
      /\ EvaluationRetryInterval \in Nat
      /\ place \in [Orders -> {"new", "pending", "eval", "submit", "gone"}]
  BY TypeFacts
<1>p. /\ pending \in Seq(Entry) /\ Ordered(pending) /\ Distinct(pending)
      /\ OrdersOf(pending) = {o \in Orders : place[o] = "pending"}
  BY DEF PendingInv
<1>g. ASSUME pending' = pending, \A o \in Orders : place'[o] = "pending" <=> place[o] = "pending"
      PROVE  PendingInv'
  <2>1. {o \in Orders : place'[o] = "pending"} = {o \in Orders : place[o] = "pending"}
    BY <1>g
  <2> QED
    BY <1>g, <1>p, <2>1 DEF PendingInv, Ordered, Distinct, OrdersOf
<1>1. ASSUME NEW o \in Orders, AddSubmitOrder(o) PROVE PendingInv'
  <2>1. CASE urgent[o]
    <3>1. \A q \in Orders : place'[q] = "pending" <=> place[q] = "pending"
      BY <1>1, <1>t, <2>1 DEF AddSubmitOrder
    <3> QED
      BY <1>1, <1>g, <2>1, <3>1 DEF AddSubmitOrder
  <2>2. CASE ~urgent[o]
    <3> DEFINE at == now + NewOrdersDelay
    <3>1. pending' = Inserted(pending, <<o>>, at) /\ place[o] = "new"
      BY <1>1, <2>2 DEF AddSubmitOrder
    <3>2. at \in Nat /\ at \in 0..(MaxTime + NewOrdersDelay)
      BY <1>t
    <3>3. <<o>> \in Seq(Orders) /\ DOMAIN <<o>> = 1..1 /\ <<o>>[1] = o
      OBVIOUS
    <3>4. o \notin OrdersOf(pending)
      BY <1>p, <3>1
    <3> HIDE DEF at
    <3>5. \A j, k \in 1..1 : j = k
      OBVIOUS
    <3>6. \A j \in 1..1 : j = 1
      OBVIOUS
    <3>7. /\ pending' \in Seq(Entry) /\ Ordered(pending') /\ Distinct(pending')
          /\ OrdersOf(pending') = OrdersOf(pending) \cup {<<o>>[j] : j \in DOMAIN <<o>>}
      BY <1>p, <3>1, <3>2, <3>3, <3>4, <3>5, <3>6, InsertedFacts
    <3>8. {<<o>>[j] : j \in DOMAIN <<o>>} = {o}
      BY <3>3, <3>6
    <3>9. {q \in Orders : place'[q] = "pending"} = {q \in Orders : place[q] = "pending"} \cup {o}
      BY <1>1, <1>t, <2>2 DEF AddSubmitOrder
    <3> QED
      BY <1>p, <3>7, <3>8, <3>9 DEF PendingInv, Ordered, Distinct, OrdersOf
  <2> QED
    BY <2>1, <2>2
<1>2. ASSUME NEW retried, ProcessPendingQueue(retried) PROVE PendingInv'
  <2>1. PICK m \in 0..Len(pending) :
              /\ pending' = SubSeq(pending, m + 1, Len(pending))
              /\ LET taken == {pending[j].order : j \in 1..m}
                 IN  place' = [o \in Orders |-> IF o \in taken THEN "eval" ELSE place[o]]
    BY <1>2, Take
  <2> DEFINE taken == {pending[j].order : j \in 1..m}
  <2>2. /\ pending' \in Seq(Entry) /\ Ordered(pending') /\ Distinct(pending')
        /\ OrdersOf(pending') = OrdersOf(pending) \ taken
    BY <1>p, <2>1, RestFacts
  <2>3. place' = [o \in Orders |-> IF o \in taken THEN "eval" ELSE place[o]]
    BY <2>1
  <2> HIDE DEF taken
  <2>4. {q \in Orders : place'[q] = "pending"} = {q \in Orders : place[q] = "pending"} \ taken
    BY <2>3
  <2> QED
    BY <1>p, <2>2, <2>4 DEF PendingInv, Ordered, Distinct, OrdersOf
<1>3. ASSUME NEW retried, CollectEvaluated(retried) PROVE PendingInv'
  <2> DEFINE at == now + EvaluationRetryInterval
  <2>1. PICK round \in Rounds(Again) : pending' = Inserted(pending, round, at)
    BY <1>3 DEF CollectEvaluated, Again
  <2>2. Again \in SUBSET Orders /\ \A o \in Again : place[o] = "eval" /\ at <= MaxTime
    BY AgainFacts
  <2>3. at \in Nat
    BY <1>t
  <2>4. \A o \in Orders : place'[o] = "pending" <=> o \in Again \/ place[o] = "pending"
    <3>1. \A o \in Orders : place'[o] =
             IF o \in In("eval", {"completed"}) THEN "submit"
             ELSE IF o \in Again THEN "pending"
             ELSE IF o \in In("eval", {"dropped", "again"}) \ Again THEN "gone" ELSE place[o]
      BY <1>3 DEF CollectEvaluated, Again
    <3>2. \A o \in Orders : /\ o \in In("eval", {"completed"}) => place[o] = "eval" /\ stage[o] = "completed"
                            /\ o \in In("eval", {"dropped", "again"}) => place[o] = "eval"
                            /\ o \in Again => stage[o] = "again"
      BY DEF In, Again
    <3> QED
      BY <3>1, <3>2, <2>2
  <2> HIDE DEF at
  <2>5. /\ round \in Seq(Orders) /\ \A j, k \in DOMAIN round : round[j] = round[k] => j = k
        /\ {round[j] : j \in DOMAIN round} = Again
    BY <2>1, AgainFacts, RoundFacts
  <2>6. \A j \in DOMAIN round : round[j] \in Again
    BY <2>5
  <2>7. \A j \in DOMAIN round : round[j] \notin OrdersOf(pending) /\ at \in 0..(MaxTime + NewOrdersDelay)
    BY <1>p, <1>t, <2>2, <2>3, <2>6
  <2>8. /\ pending' \in Seq(Entry) /\ Ordered(pending') /\ Distinct(pending')
        /\ OrdersOf(pending') = OrdersOf(pending) \cup {round[j] : j \in DOMAIN round}
    BY <1>p, <2>1, <2>3, <2>5, <2>7, InsertedFacts
  <2>9. {q \in Orders : place'[q] = "pending"} = {q \in Orders : place[q] = "pending"} \cup Again
    BY <2>2, <2>4
  <2> QED
    BY <1>p, <2>5, <2>8, <2>9 DEF PendingInv, Ordered, Distinct, OrdersOf
<1>4. CASE SubmissionEnds
  <2>1. \A o \in Orders : place'[o] = "pending" <=> place[o] = "pending"
    BY <1>4 DEF SubmissionEnds, In
  <2> QED
    BY <1>4, <1>g, <2>1 DEF SubmissionEnds
<1>5. ASSUME UNCHANGED <<pending, place>> PROVE PendingInv'
  BY <1>5, <1>g
<1>6. ASSUME NEW o \in Orders, Prioritise(o) \/ EvaluateOrder(o) \/ SubmitOrder(o) \/ EvaluatorAnswers(o)
      PROVE  PendingInv'
  BY <1>5, <1>6 DEF Prioritise, EvaluateOrder, SubmitOrder, EvaluatorAnswers, queueVars
<1>7. ASSUME Tick \/ EvaluatorExits \/ (\E retry \in BOOLEAN : TransactionResults(retry))
                  \/ WalletStep \/ (WorkerExits /\ PortUnchanged) \/ UNCHANGED vars
      PROVE  PendingInv'
  BY <1>5, <1>7 DEF Tick, EvaluatorExits, TransactionResults, WalletStep, PortUnchanged, queueVars, vars
<1> QED
  BY <1>1, <1>2, <1>3, <1>4, <1>6, <1>7 DEF Next, LoopStep

-----------------------------------------------------------------------------
(* Types.                                                                  *)

LEMMA StepOfPort ==
    ASSUME [Next]_vars
    PROVE  PortStep
<1>1. ASSUME NEW o \in Orders, SubmitOrder(o) PROVE PortStep
  BY <1>1 DEF SubmitOrder, PortStep
<1>2. ASSUME NEW retry \in BOOLEAN, TransactionResults(retry) PROVE PortStep
  BY <1>2 DEF TransactionResults, PortStep
<1>3. CASE WalletStep
  BY <1>3 DEF WalletStep, PortStep
<1>4. ASSUME NEW o \in Orders, AddSubmitOrder(o) \/ Prioritise(o) \/ EvaluateOrder(o) \/ EvaluatorAnswers(o)
      PROVE  PortStep
  BY <1>4 DEF AddSubmitOrder, Prioritise, EvaluateOrder, EvaluatorAnswers, PortStep
<1>5. ASSUME NEW retried, ProcessPendingQueue(retried) \/ CollectEvaluated(retried) PROVE PortStep
  BY <1>5 DEF ProcessPendingQueue, CollectEvaluated, PortStep
<1>6. ASSUME Tick \/ EvaluatorExits \/ SubmissionEnds \/ (WorkerExits /\ PortUnchanged) \/ UNCHANGED vars
      PROVE  PortStep
  BY <1>6 DEF Tick, EvaluatorExits, SubmissionEnds, PortStep, vars
<1> QED
  BY <1>1, <1>2, <1>3, <1>4, <1>5, <1>6 DEF Next, LoopStep

Stages == {"new", "retry", "asking", "waiting", "completed", "dropped", "again"}
Places == {"new", "pending", "eval", "submit", "gone"}

\* The stages of the orders, and the tries that are left to those to retry.
StagesOK ==
    /\ stage \in [Orders -> Stages] /\ tries \in [Orders -> 0..(MaxTries - 1)]
    /\ \A o \in Orders : stage[o] = "retry" => tries[o] < MaxTries - 1

\* What an evaluation reads.
FlagsOK ==
    /\ deadline \in [Orders -> 0..MaxTime]
    /\ priority \in [Orders -> BOOLEAN] /\ direct \in [Orders -> BOOLEAN]
    /\ urgent \in [Orders -> BOOLEAN] /\ urgentSeen \in [Orders -> BOOLEAN]

ClockOK ==
    now \in 0..MaxTime /\ loop \in {"take", "evaluate", "submit"} /\ evaluator \in BOOLEAN

LEMMA TypeParts ==
    /\ TypeInv => ClockOK /\ StagesOK /\ FlagsOK /\ place \in [Orders -> Places] /\ PortTypeOK
    /\ ClockOK /\ StagesOK /\ FlagsOK /\ place \in [Orders -> Places] /\ PortTypeOK /\ PendingInv => TypeInv
BY DEF TypeInv, TypeOK, ClockOK, StagesOK, FlagsOK, PendingInv, Entry, Stages, Places

LEMMA FailStages ==
    ASSUME StagesOK, NEW o \in Orders, NEW retry \in BOOLEAN, Fail(o, retry), UNCHANGED tries
    PROVE  StagesOK'
<1>1. stage' = [stage EXCEPT ![o] = IF retry /\ tries[o] < MaxTries - 1 THEN "retry" ELSE "dropped"]
  BY DEF Fail
<1> QED
  BY <1>1 DEF StagesOK, Stages

\* The stages after a retry of orders that had tries left.
LEMMA RetriedStages ==
    ASSUME StagesOK, NEW fresh, NEW none, NEW retried, \A o \in retried : o \in Orders /\ stage[o] = "retry",
           stage' = [o \in Orders |-> IF o \in fresh \/ o \in retried THEN "new" ELSE stage[o]],
           tries' = [o \in Orders |-> IF o \in none THEN 0 ELSE IF o \in retried THEN tries[o] + 1 ELSE tries[o]],
           none \subseteq fresh
    PROVE  StagesOK'
<1>m. MaxTries \in Nat /\ MaxTries >= 1
  BY SubmitterAssumption
<1>1. ASSUME NEW o \in Orders PROVE tries'[o] \in 0..(MaxTries - 1)
  <2>1. tries[o] \in 0..(MaxTries - 1)
    BY DEF StagesOK
  <2>2. CASE o \in none
    BY <1>m, <2>2
  <2>3. CASE o \notin none /\ o \in retried
    <3>1. tries[o] < MaxTries - 1
      BY <2>3 DEF StagesOK
    <3> QED
      BY <1>m, <2>1, <2>3, <3>1
  <2>4. CASE o \notin none /\ o \notin retried
    BY <2>1, <2>4
  <2> QED
    BY <2>2, <2>3, <2>4
<1>2. tries' \in [Orders -> 0..(MaxTries - 1)]
  BY <1>1, Zenon
<1>3. stage' \in [Orders -> Stages]
  BY DEF StagesOK, Stages
<1>4. ASSUME NEW o \in Orders, stage'[o] = "retry" PROVE tries'[o] < MaxTries - 1
  <2>1. o \notin fresh /\ o \notin retried /\ stage[o] = "retry"
    BY <1>4
  <2>2. tries'[o] = tries[o]
    BY <2>1
  <2> QED
    BY <2>1, <2>2 DEF StagesOK
<1> QED
  BY <1>2, <1>3, <1>4 DEF StagesOK

LEMMA StagesStep ==
    ASSUME TypeInv, PendingInv, CapacityInv, [Next]_vars
    PROVE  StagesOK'
<1>t. StagesOK /\ MaxTries \in Nat /\ MaxTries >= 1
  BY TypeParts, SubmitterAssumption
<1>1. ASSUME NEW retried, ProcessPendingQueue(retried) PROVE StagesOK'
  <2>1. PICK m \in 0..Len(pending) :
              LET taken == {pending[j].order : j \in 1..m}
              IN  /\ stage' = [o \in Orders |-> IF o \in taken \cup retried THEN "new" ELSE stage[o]]
                  /\ tries' = [o \in Orders |-> IF o \in taken THEN 0 ELSE
                                                IF o \in retried THEN tries[o] + 1 ELSE tries[o]]
    BY <1>1, Take
  <2> DEFINE taken == {pending[j].order : j \in 1..m}
  <2>2. /\ stage' = [o \in Orders |-> IF o \in taken \cup retried THEN "new" ELSE stage[o]]
        /\ tries' = [o \in Orders |-> IF o \in taken THEN 0 ELSE IF o \in retried THEN tries[o] + 1 ELSE tries[o]]
    BY <2>1
  <2>3. \A o \in retried : o \in Orders /\ stage[o] = "retry"
    BY <1>1 DEF ProcessPendingQueue, MayBeDue, In
  <2> HIDE DEF taken
  <2>4. stage' = [o \in Orders |-> IF o \in taken \/ o \in retried THEN "new" ELSE stage[o]]
    BY <2>2
  <2> QED
    BY <1>t, <2>2, <2>3, <2>4, RetriedStages
<1>2. ASSUME NEW retried, CollectEvaluated(retried) PROVE StagesOK'
  <2> DEFINE fresh == In("eval", {"completed"}) \cup Again \cup (In("eval", {"dropped", "again"}) \ Again)
  <2>1. /\ stage' = [o \in Orders |-> IF o \in fresh \/ o \in retried THEN "new" ELSE stage[o]]
        /\ tries' = [o \in Orders |-> IF o \in fresh THEN 0 ELSE IF o \in retried THEN tries[o] + 1 ELSE tries[o]]
    BY <1>2 DEF CollectEvaluated, Again
  <2>2. \A o \in retried : o \in Orders /\ stage[o] = "retry"
    BY <1>2 DEF CollectEvaluated, MayBeDue, In
  <2> HIDE DEF fresh
  <2> QED
    BY <1>t, <2>1, <2>2, RetriedStages
<1>3. CASE SubmissionEnds
  <2> DEFINE fresh == In("submit", {"completed", "dropped"})
             retried == {o \in Orders : FALSE}
  <2>1. /\ stage' = [o \in Orders |-> IF o \in fresh \/ o \in retried THEN "new" ELSE stage[o]]
        /\ tries' = [o \in Orders |-> IF o \in fresh THEN 0 ELSE IF o \in retried THEN tries[o] + 1 ELSE tries[o]]
    BY <1>3 DEF SubmissionEnds
  <2>2. \A o \in retried : o \in Orders /\ stage[o] = "retry"
    OBVIOUS
  <2> HIDE DEF fresh, retried
  <2> QED
    BY <1>t, <2>1, <2>2, RetriedStages
<1>4. ASSUME NEW o \in Orders, NEW s \in Stages, s # "retry", stage' = [stage EXCEPT ![o] = s], UNCHANGED tries
      PROVE  StagesOK'
  BY <1>4, <1>t DEF StagesOK
<1>5. ASSUME NEW o \in Orders, EvaluateOrder(o) PROVE StagesOK'
  <2>1. \/ \E retry \in BOOLEAN : Fail(o, retry)
        \/ stage' = [stage EXCEPT ![o] = "dropped"]
        \/ stage' = [stage EXCEPT ![o] = "completed"]
        \/ stage' = [stage EXCEPT ![o] = "asking"]
    BY <1>5 DEF EvaluateOrder
  <2>2. UNCHANGED tries
    BY <1>5 DEF EvaluateOrder
  <2> QED
    BY <1>4, <1>t, <2>1, <2>2, FailStages DEF Stages
<1>6. ASSUME NEW o \in Orders, EvaluatorAnswers(o) PROVE StagesOK'
  <2>1. \/ Fail(o, TRUE)
        \/ stage' = [stage EXCEPT ![o] = "completed"]
        \/ stage' = [stage EXCEPT ![o] = "again"]
    BY <1>6 DEF EvaluatorAnswers
  <2>2. UNCHANGED tries
    BY <1>6 DEF EvaluatorAnswers
  <2> QED
    BY <1>4, <1>t, <2>1, <2>2, FailStages DEF Stages
<1>7. ASSUME NEW o \in Orders, SubmitOrder(o) PROVE StagesOK'
  <2>1. \/ \E retry \in BOOLEAN : Fail(o, retry)
        \/ stage' = [stage EXCEPT ![o] = "waiting"]
    BY <1>7 DEF SubmitOrder
  <2>2. UNCHANGED tries
    BY <1>7 DEF SubmitOrder
  <2> QED
    BY <1>4, <1>t, <2>1, <2>2, FailStages DEF Stages
<1>8. ASSUME NEW retry \in BOOLEAN, TransactionResults(retry) PROVE StagesOK'
  <2>1. UNCHANGED tries
    BY <1>8 DEF TransactionResults
  <2>2. stage' = [o \in Orders |->
          IF o \notin Resolved THEN stage[o]
          ELSE IF Head(toSubmitter).result = "confirmed" THEN "completed"
          ELSE IF (retry \/ Head(toSubmitter) = Crashed) /\ tries[o] < MaxTries - 1 THEN "retry"
          ELSE "dropped"]
    BY <1>8 DEF TransactionResults
  <2>3. \A o \in Orders : \/ stage'[o] = stage[o]
                          \/ stage'[o] \in {"completed", "dropped"}
                          \/ stage'[o] = "retry" /\ tries[o] < MaxTries - 1
    BY <2>2
  <2>4. \A o \in Orders : stage'[o] \in Stages
    BY <1>t, <2>3 DEF StagesOK, Stages
  <2>5. stage' \in [Orders -> Stages]
    BY <2>2, <2>4
  <2> QED
    BY <1>t, <2>1, <2>3, <2>5 DEF StagesOK
<1>9. ASSUME UNCHANGED <<stage, tries>> PROVE StagesOK'
  BY <1>9, <1>t DEF StagesOK
<1>10. ASSUME NEW o \in Orders, AddSubmitOrder(o) \/ Prioritise(o) PROVE StagesOK'
  BY <1>9, <1>10 DEF AddSubmitOrder, Prioritise, queueVars
<1>11. ASSUME Tick \/ EvaluatorExits \/ WalletStep \/ (WorkerExits /\ PortUnchanged) \/ UNCHANGED vars
       PROVE  StagesOK'
  BY <1>9, <1>11 DEF Tick, EvaluatorExits, WalletStep, PortUnchanged, queueVars, vars
<1> QED
  BY <1>1, <1>2, <1>3, <1>5, <1>6, <1>7, <1>8, <1>10, <1>11 DEF Next, LoopStep

LEMMA FlagsStep ==
    ASSUME TypeInv, [Next]_vars
    PROVE  FlagsOK'
<1>t. /\ FlagsOK /\ now \in Nat /\ MaxTime \in Nat /\ MaxEvaluationDuration \in Nat
  BY TypeParts, TypeFacts
<1>1. ASSUME NEW o \in Orders, AddSubmitOrder(o) PROVE FlagsOK'
  <2>1. now + MaxEvaluationDuration \in 0..MaxTime
    BY <1>1, <1>t DEF AddSubmitOrder
  <2>2. deadline' \in [Orders -> 0..MaxTime]
    BY <1>1, <1>t, <2>1 DEF AddSubmitOrder, FlagsOK
  <2>3. priority' \in [Orders -> BOOLEAN] /\ direct' \in [Orders -> BOOLEAN]
    BY <1>1, <1>t DEF AddSubmitOrder, FlagsOK
  <2> QED
    BY <1>1, <1>t, <2>2, <2>3 DEF AddSubmitOrder, FlagsOK, worldVars
<1>2. ASSUME NEW retried, CollectEvaluated(retried) PROVE FlagsOK'
  <2>1. PICK done : Forget(done)
    BY <1>2 DEF CollectEvaluated
  <2>2. deadline' \in [Orders -> 0..MaxTime]
    BY <1>t, <2>1 DEF Forget, FlagsOK
  <2>3. /\ priority' \in [Orders -> BOOLEAN] /\ urgent' \in [Orders -> BOOLEAN]
        /\ urgentSeen' \in [Orders -> BOOLEAN]
    BY <2>1 DEF Forget
  <2>4. direct' \in [Orders -> BOOLEAN]
    BY <1>2 DEF CollectEvaluated
  <2> QED
    BY <2>2, <2>3, <2>4 DEF FlagsOK
<1>3. CASE SubmissionEnds
  <2>1. direct' \in [Orders -> BOOLEAN]
    BY <1>3 DEF SubmissionEnds
  <2> QED
    BY <1>3, <1>t, <2>1 DEF SubmissionEnds, FlagsOK, worldVars
<1>4. ASSUME NEW o \in Orders, EvaluateOrder(o) PROVE FlagsOK'
  <2>1. PriorityNow(o) \in BOOLEAN
    BY DEF PriorityNow
  <2>2. priority' \in [Orders -> BOOLEAN] /\ urgentSeen' \in [Orders -> BOOLEAN]
    BY <1>4, <1>t, <2>1 DEF EvaluateOrder, FlagsOK
  <2> QED
    BY <1>4, <1>t, <2>2 DEF EvaluateOrder, FlagsOK, worldVars
<1>5. ASSUME NEW o \in Orders, Prioritise(o) PROVE FlagsOK'
  BY <1>5, <1>t DEF Prioritise, FlagsOK, orderVars
<1>6. ASSUME UNCHANGED <<orderVars, urgent, urgentSeen>> PROVE FlagsOK'
  BY <1>6, <1>t DEF FlagsOK, orderVars
<1>7. ASSUME NEW o \in Orders, SubmitOrder(o) \/ EvaluatorAnswers(o) PROVE FlagsOK'
  BY <1>6, <1>7 DEF SubmitOrder, EvaluatorAnswers, worldVars
<1>8. ASSUME NEW retried, ProcessPendingQueue(retried) PROVE FlagsOK'
  BY <1>6, <1>8 DEF ProcessPendingQueue, worldVars
<1>9. ASSUME Tick \/ EvaluatorExits \/ WalletStep \/ (\E retry \in BOOLEAN : TransactionResults(retry))
                  \/ (WorkerExits /\ PortUnchanged) \/ UNCHANGED vars
      PROVE  FlagsOK'
  BY <1>6, <1>9 DEF Tick, EvaluatorExits, WalletStep, TransactionResults, PortUnchanged, worldVars, vars
<1> QED
  BY <1>1, <1>2, <1>3, <1>4, <1>5, <1>7, <1>8, <1>9 DEF Next, LoopStep

LEMMA ClockStep ==
    ASSUME TypeInv, [Next]_vars
    PROVE  ClockOK'
<1>t. ClockOK /\ now \in Nat /\ MaxTime \in Nat
  BY TypeParts, TypeFacts
<1>1. CASE Tick
  BY <1>1, <1>t DEF Tick, ClockOK
<1>2. CASE EvaluatorExits
  BY <1>2, <1>t DEF EvaluatorExits, ClockOK
<1>3. ASSUME UNCHANGED <<now, evaluator>>, loop' \in {loop, "take", "evaluate", "submit"} PROVE ClockOK'
  BY <1>3, <1>t DEF ClockOK
<1>4. ASSUME NEW retried, ProcessPendingQueue(retried) \/ CollectEvaluated(retried) PROVE ClockOK'
  BY <1>3, <1>4 DEF ProcessPendingQueue, CollectEvaluated, worldVars
<1>5. ASSUME NEW o \in Orders,
             \/ Prioritise(o) \/ AddSubmitOrder(o) \/ EvaluateOrder(o) \/ SubmitOrder(o) \/ EvaluatorAnswers(o)
      PROVE  ClockOK'
  BY <1>3, <1>5 DEF Prioritise, AddSubmitOrder, EvaluateOrder, SubmitOrder, EvaluatorAnswers, worldVars
<1>6. ASSUME SubmissionEnds \/ WalletStep \/ (\E retry \in BOOLEAN : TransactionResults(retry))
                  \/ (WorkerExits /\ PortUnchanged) \/ UNCHANGED vars
      PROVE  ClockOK'
  BY <1>3, <1>6 DEF SubmissionEnds, WalletStep, TransactionResults, PortUnchanged, worldVars, vars
<1> QED
  BY <1>1, <1>2, <1>4, <1>5, <1>6 DEF Next, LoopStep

LEMMA PlacesStep ==
    ASSUME TypeInv, PendingInv, CapacityInv, [Next]_vars
    PROVE  place' \in [Orders -> Places]
<1>t. place \in [Orders -> Places]
  BY TypeParts
<1>1. ASSUME NEW retried, ProcessPendingQueue(retried) PROVE place' \in [Orders -> Places]
  BY <1>1, <1>t, Take DEF Places
<1>2. ASSUME NEW retried, CollectEvaluated(retried) PROVE place' \in [Orders -> Places]
  BY <1>2, <1>t DEF CollectEvaluated, Places
<1>3. CASE SubmissionEnds
  BY <1>3, <1>t DEF SubmissionEnds, Places
<1>4. ASSUME NEW o \in Orders, AddSubmitOrder(o) PROVE place' \in [Orders -> Places]
  BY <1>4, <1>t DEF AddSubmitOrder, Places
<1>5. ASSUME NEW o \in Orders, Prioritise(o) \/ EvaluateOrder(o) \/ SubmitOrder(o) \/ EvaluatorAnswers(o)
      PROVE  place' \in [Orders -> Places]
  BY <1>5, <1>t DEF Prioritise, EvaluateOrder, SubmitOrder, EvaluatorAnswers, queueVars
<1>6. ASSUME Tick \/ EvaluatorExits \/ WalletStep \/ (\E retry \in BOOLEAN : TransactionResults(retry))
                  \/ (WorkerExits /\ PortUnchanged) \/ UNCHANGED vars
      PROVE  place' \in [Orders -> Places]
  BY <1>6, <1>t DEF Tick, EvaluatorExits, WalletStep, TransactionResults, PortUnchanged, queueVars, vars
<1> QED
  BY <1>1, <1>2, <1>3, <1>4, <1>5, <1>6 DEF Next, LoopStep

LEMMA TypeStep ==
    ASSUME IInv, [Next]_vars
    PROVE  TypeInv'
<1>1. TypeInv /\ StageInv /\ CapacityInv /\ PendingInv
  BY PendingInvIs DEF IInv
<1>2. ClockOK' /\ FlagsOK' /\ StagesOK' /\ place' \in [Orders -> Places] /\ PendingInv'
  BY <1>1, ClockStep, FlagsStep, StagesStep, PlacesStep, PendingStep
<1>3. PortTypeOK'
  BY <1>1, TypeParts, StepOfPort, PortTypeStep
<1>4. (ClockOK /\ StagesOK /\ FlagsOK /\ place \in [Orders -> Places] /\ PortTypeOK /\ PendingInv => TypeInv)'
  BY TypeParts, PTL
<1> QED
  BY <1>2, <1>3, <1>4

-----------------------------------------------------------------------------
(* The stages.                                                             *)

StageOf(o) ==
    /\ stage[o] \in {"asking", "again"} => place[o] = "eval" /\ ~urgentSeen[o]
    /\ stage[o] = "waiting" => place[o] = "submit"
    /\ place[o] \in {"new", "pending", "gone"} => stage[o] = "new"
    /\ listener[o] # 0 <=> stage[o] = "waiting"

LEMMA StageIs == StageInv <=> \A o \in Orders : StageOf(o)
BY DEF StageInv, StageOf

LEMMA StageStep ==
    ASSUME TypeInv, StageInv, PortInv, CapacityInv, PendingInv, [Next]_vars
    PROVE  StageInv'
<1>s. \A o \in Orders : StageOf(o)
  BY StageIs
<1>t. /\ place \in [Orders -> Places] /\ stage \in [Orders -> Stages]
      /\ listener \in [Orders -> Nat] /\ nextId \in Nat /\ nextId >= 1
      /\ urgent \in [Orders -> BOOLEAN] /\ urgentSeen \in [Orders -> BOOLEAN]
      /\ priority \in [Orders -> BOOLEAN]
  BY TypeParts, PortTypes DEF StagesOK, FlagsOK, PortInv
<1>g. ASSUME \A o \in Orders : StageOf(o)' PROVE StageInv'
  BY <1>g DEF StageInv, StageOf
<1>a. ASSUME NEW o \in Orders, UNCHANGED <<listener, place, urgentSeen>>, UNCHANGED stage PROVE StageOf(o)'
  BY <1>a, <1>s DEF StageOf
<1>1. ASSUME NEW o \in Orders, AddSubmitOrder(o) PROVE StageInv'
  <2> SUFFICES ASSUME NEW q \in Orders PROVE StageOf(q)'
    BY <1>g
  <2>1. /\ UNCHANGED <<listener, stage, urgentSeen>> /\ place[o] = "new"
        /\ place'[q] = place[q] \/ (q = o /\ place'[q] \in {"eval", "pending"})
    BY <1>1, <1>t DEF AddSubmitOrder, portVars
  <2> QED
    BY <1>s, <2>1 DEF StageOf
<1>2. ASSUME NEW retried, ProcessPendingQueue(retried) PROVE StageInv'
  <2> SUFFICES ASSUME NEW q \in Orders PROVE StageOf(q)'
    BY <1>g
  <2>1. PICK m \in 0..Len(pending) :
              LET taken == {pending[j].order : j \in 1..m}
              IN  /\ taken \subseteq OrdersOf(pending)
                  /\ place' = [o \in Orders |-> IF o \in taken THEN "eval" ELSE place[o]]
                  /\ stage' = [o \in Orders |-> IF o \in taken \cup retried THEN "new" ELSE stage[o]]
    BY <1>2, Take
  <2> DEFINE taken == {pending[j].order : j \in 1..m}
  <2>2. /\ q \in taken => place[q] = "pending"
        /\ place'[q] = IF q \in taken THEN "eval" ELSE place[q]
        /\ stage'[q] = IF q \in taken \/ q \in retried THEN "new" ELSE stage[q]
    BY <2>1 DEF PendingInv
  <2>3. /\ q \in retried => place[q] = "eval" /\ stage[q] = "retry"
        /\ listener'[q] = listener[q] /\ urgentSeen'[q] = urgentSeen[q]
    BY <1>2 DEF ProcessPendingQueue, MayBeDue, In, portVars
  <2> HIDE DEF taken
  <2> QED
    BY <1>s, <2>2, <2>3 DEF StageOf
<1>3. ASSUME NEW retried, CollectEvaluated(retried) PROVE StageInv'
  <2> SUFFICES ASSUME NEW q \in Orders PROVE StageOf(q)'
    BY <1>g
  <2> DEFINE completed == In("eval", {"completed"})
             gone == In("eval", {"dropped", "again"}) \ Again
  <2>1. /\ place'[q] = IF q \in completed THEN "submit" ELSE IF q \in Again THEN "pending"
                       ELSE IF q \in gone THEN "gone" ELSE place[q]
        /\ stage'[q] = IF q \in completed \cup retried \cup Again \cup gone THEN "new" ELSE stage[q]
        /\ listener'[q] = listener[q] /\ q \notin In("eval", {"new", "asking"})
    BY <1>3 DEF CollectEvaluated, Again, portVars
  <2>2. urgentSeen'[q] => urgentSeen[q]
    BY <1>3, <1>t DEF CollectEvaluated, Forget
  <2>3. /\ q \in completed <=> place[q] = "eval" /\ stage[q] = "completed"
        /\ q \in Again \cup gone <=> place[q] = "eval" /\ stage[q] \in {"dropped", "again"}
        /\ q \in retried => place[q] = "submit" /\ stage[q] = "retry"
        /\ ~(place[q] = "eval" /\ stage[q] \in {"new", "asking"})
    BY <1>3, <2>1 DEF In, Again, CollectEvaluated, MayBeDue
  <2> HIDE DEF completed, gone
  <2> QED
    BY <1>s, <2>1, <2>2, <2>3 DEF StageOf
<1>4. CASE SubmissionEnds
  <2> SUFFICES ASSUME NEW q \in Orders PROVE StageOf(q)'
    BY <1>g
  <2>1. LET done == place[q] = "submit" /\ stage[q] \in {"completed", "dropped"}
        IN  /\ place'[q] = IF done THEN "gone" ELSE place[q]
            /\ stage'[q] = IF done THEN "new" ELSE stage[q]
            /\ listener'[q] = listener[q] /\ urgentSeen'[q] = urgentSeen[q]
    BY <1>4 DEF SubmissionEnds, In, portVars
  <2> QED
    BY <1>s, <2>1 DEF StageOf
<1>5. ASSUME NEW o \in Orders, EvaluateOrder(o) PROVE StageInv'
  <2> SUFFICES ASSUME NEW q \in Orders PROVE StageOf(q)'
    BY <1>g
  <2>1. /\ listener'[q] = listener[q] /\ place'[q] = place[q] /\ place[o] = "eval" /\ stage[o] = "new"
        /\ urgentSeen'[q] = IF q = o THEN urgent[o] ELSE urgentSeen[q]
    BY <1>5, <1>t DEF EvaluateOrder, In, portVars
  <2>2. \/ q # o /\ stage'[q] = stage[q]
        \/ q = o /\ stage'[q] \in {"retry", "dropped", "completed"}
        \/ q = o /\ stage'[q] = "asking" /\ ~urgent[o]
    BY <1>5, <1>t DEF EvaluateOrder, Fail, PriorityNow
  <2> QED
    BY <1>s, <2>1, <2>2 DEF StageOf
<1>6. ASSUME NEW o \in Orders, EvaluatorAnswers(o) PROVE StageInv'
  <2> SUFFICES ASSUME NEW q \in Orders PROVE StageOf(q)'
    BY <1>g
  <2>1. /\ listener'[q] = listener[q] /\ place'[q] = place[q] /\ urgentSeen'[q] = urgentSeen[q]
        /\ stage[o] = "asking"
        /\ \/ q # o /\ stage'[q] = stage[q]
           \/ q = o /\ stage'[q] \in {"retry", "dropped", "completed", "again"}
    BY <1>6, <1>t DEF EvaluatorAnswers, Fail, portVars
  <2> QED
    BY <1>s, <2>1 DEF StageOf
<1>7. ASSUME NEW o \in Orders, SubmitOrder(o) PROVE StageInv'
  <2> SUFFICES ASSUME NEW q \in Orders PROVE StageOf(q)'
    BY <1>g
  <2>1. /\ place'[q] = place[q] /\ urgentSeen'[q] = urgentSeen[q]
        /\ stage[o] = "new" /\ place[o] = "submit"
    BY <1>7 DEF SubmitOrder, In
  <2>2. \/ q # o /\ stage'[q] = stage[q] /\ listener'[q] = listener[q]
        \/ q = o /\ stage'[q] \in {"retry", "dropped"} /\ listener'[q] = listener[q]
        \/ q = o /\ stage'[q] = "waiting" /\ listener'[q] = nextId
    BY <1>7, <1>t DEF SubmitOrder, SubmitTransaction, Fail, portVars
  <2> QED
    BY <1>s, <1>t, <2>1, <2>2 DEF StageOf
<1>8. ASSUME NEW retry \in BOOLEAN, TransactionResults(retry) PROVE StageInv'
  <2> SUFFICES ASSUME NEW q \in Orders PROVE StageOf(q)'
    BY <1>g
  <2>1. /\ place'[q] = place[q] /\ urgentSeen'[q] = urgentSeen[q]
        /\ q \notin Resolved => stage'[q] = stage[q] /\ listener'[q] = listener[q]
        /\ q \in Resolved => stage'[q] \in {"completed", "retry", "dropped"} /\ listener'[q] = 0
    BY <1>8 DEF TransactionResults, Receive
  <2>2. q \in Resolved => listener[q] # 0
    BY DEF Resolved
  <2> QED
    BY <1>s, <2>1, <2>2 DEF StageOf
<1>9. ASSUME UNCHANGED <<listener, place, urgentSeen, stage>> PROVE StageInv'
  BY <1>9, <1>a, <1>g
<1>10. ASSUME NEW o \in Orders, Prioritise(o) PROVE StageInv'
  BY <1>9, <1>10 DEF Prioritise, portVars, queueVars
<1>11. CASE WalletStep
  <2>1. UNCHANGED listener
    BY <1>11 DEF WalletStep, HandleWalletPortData, SendTransaction, SendResult
  <2> QED
    BY <1>9, <1>11, <2>1 DEF WalletStep, PortUnchanged, queueVars
<1>12. ASSUME Tick \/ EvaluatorExits \/ (WorkerExits /\ PortUnchanged) \/ UNCHANGED vars
       PROVE  StageInv'
  BY <1>9, <1>12 DEF Tick, EvaluatorExits, WorkerExits, PortUnchanged, queueVars, portVars, vars
<1> QED
  BY <1>1, <1>2, <1>3, <1>4, <1>5, <1>6, <1>7, <1>8, <1>10, <1>11, <1>12 DEF Next, LoopStep

-----------------------------------------------------------------------------
(* Transactions sent, and requests that may still send one.                *)

Total(o) == txs[o] + Cardinality(Unsent(o))

LEMMA UnsentFacts ==
    ASSUME PortTypeOK, PortInv, NEW o \in Orders
    PROVE  /\ Unsent(o) \subseteq 1..(nextId - 1) /\ IsFiniteSet(Unsent(o))
           /\ Cardinality(Unsent(o)) \in Nat /\ Total(o) \in Int /\ txs[o] \in Int
<1>1. Unsent(o) \subseteq 1..(nextId - 1)
  BY DEF Unsent, PortInv
<1>2. nextId \in Nat /\ txs[o] \in Int
  BY PortTypes
<1>3. IsFiniteSet(1..(nextId - 1))
  BY <1>2, FS_Interval
<1>4. IsFiniteSet(Unsent(o))
  BY <1>1, <1>3, FS_Subset
<1>5. Cardinality(Unsent(o)) \in Nat
  BY <1>4, FS_CardinalityType
<1> QED
  BY <1>1, <1>2, <1>4, <1>5 DEF Total

\* Fewer requests, and no transaction more.
LEMMA TotalFalls ==
    ASSUME PortTypeOK, PortInv, NEW o \in Orders, Unsent(o)' \subseteq Unsent(o), txs'[o] \in Int, txs'[o] <= txs[o]
    PROVE  Total(o)' <= Total(o) + (txs'[o] - txs[o])
<1>1. IsFiniteSet(Unsent(o)) /\ Cardinality(Unsent(o)) \in Nat /\ txs[o] \in Int
  BY UnsentFacts
<1>2. IsFiniteSet(Unsent(o)') /\ Cardinality(Unsent(o)') <= Cardinality(Unsent(o))
  BY <1>1, FS_Subset
<1>3. Cardinality(Unsent(o)') \in Nat
  BY <1>2, FS_CardinalityType
<1> QED
  BY <1>1, <1>2, <1>3 DEF Total

LEMMA TotalSubmit ==
    ASSUME PortTypeOK, PortInv, NEW o \in Orders, SubmitTransaction(o), NEW q \in Orders
    PROVE  Total(q)' <= Total(q) + (IF q = o THEN 1 ELSE 0)
<1>t. nextId \in Nat /\ toWallet \in Seq(Message) /\ txs \in [Orders -> Int]
  BY PortTypes
<1> DEFINE e == [id |-> nextId, order |-> o]
<1>1. toWallet' = Append(toWallet, e) /\ UNCHANGED <<held, txs>> /\ e \in Message
  BY <1>t DEF SubmitTransaction, Message
<1>2. /\ DOMAIN toWallet' = DOMAIN toWallet \cup {Len(toWallet) + 1}
      /\ \A j \in DOMAIN toWallet : toWallet'[j] = toWallet[j]
      /\ toWallet'[Len(toWallet) + 1] = e
  <2> HIDE DEF e
  <2> QED
    BY <1>t, <1>1, Appended
<1>3. CASE q # o
  <2>1. \A i : e # [id |-> i, order |-> q]
    BY <1>3
  <2> HIDE DEF e
  <2>2. Unsent(q)' \subseteq Unsent(q)
    BY <1>1, <1>2, <2>1 DEF Unsent
  <2>3. txs'[q] \in Int /\ txs'[q] <= txs[q] /\ txs'[q] - txs[q] = 0
    BY <1>t, <1>1
  <2> QED
    BY <1>3, <2>2, <2>3, TotalFalls
<1>4. CASE q = o
  <2>1. \A i : e = [id |-> i, order |-> q] => i = nextId
    OBVIOUS
  <2>2. e = [id |-> nextId, order |-> q]
    BY <1>4
  <2> HIDE DEF e
  <2>3. Unsent(q)' \subseteq Unsent(q) \cup {nextId}
    BY <1>1, <1>2, <2>1 DEF Unsent
  <2>4. Unsent(q) \subseteq Unsent(q)' /\ nextId \in Unsent(q)'
    BY <1>t, <1>1, <1>2, <2>2 DEF Unsent
  <2>5. IsFiniteSet(Unsent(q)) /\ Cardinality(Unsent(q)) \in Nat /\ nextId \notin Unsent(q) /\ txs[q] \in Int
    BY <1>t, UnsentFacts
  <2>6. Unsent(q)' = Unsent(q) \cup {nextId}
    BY <2>3, <2>4
  <2>7. Cardinality(Unsent(q) \cup {nextId}) = Cardinality(Unsent(q)) + 1
    BY <2>5, FS_AddElement
  <2> QED
    BY <1>1, <1>4, <2>5, <2>6, <2>7 DEF Total
<1> QED
  BY <1>3, <1>4

LEMMA TotalSend ==
    ASSUME PortTypeOK, PortInv, NEW r \in held, SendTransaction(r), NEW q \in Orders
    PROVE  Total(q)' <= Total(q)
<1>t. held \in SUBSET Request /\ txs \in [Orders -> Int] /\ r \in Request
  BY PortTypes
<1> DEFINE e == [r EXCEPT !.sent = TRUE]
<1>1. /\ held' = (held \ {r}) \cup {e} /\ UNCHANGED <<nextId, toWallet>> /\ ~r.sent
      /\ txs' = [txs EXCEPT ![r.order] = @ + 1]
  BY DEF SendTransaction
<1>2. \A i : e # [id |-> i, order |-> q, sent |-> FALSE]
  BY <1>t DEF Request
<1> HIDE DEF e
<1>3. Unsent(q)' \subseteq Unsent(q)
  BY <1>1, <1>2 DEF Unsent
<1>4. CASE q # r.order
  <2>1. txs'[q] \in Int /\ txs'[q] <= txs[q] /\ txs'[q] - txs[q] = 0
    BY <1>t, <1>1, <1>4
  <2>2. Total(q) \in Int
    BY UnsentFacts
  <2> QED
    BY <1>3, <2>1, <2>2, TotalFalls
<1>5. CASE q = r.order
  <2>1. r = [id |-> r.id, order |-> q, sent |-> FALSE]
    BY <1>1, <1>5, <1>t DEF Request
  <2>2. r.id \in Unsent(q)
    BY <1>t, <2>1 DEF Unsent, Request
  <2>3. r.id \notin Unsent(q)'
    <3>1. \A j \in DOMAIN toWallet : toWallet[j].id # r.id
      BY DEF PortInv
    <3>2. \A s \in held : s.id = r.id => s = r
      BY DEF PortInv
    <3>3. [id |-> r.id, order |-> q, sent |-> FALSE] \notin held'
      BY <1>1, <1>2, <2>1
    <3>4. \A j \in DOMAIN toWallet' : toWallet'[j] # [id |-> r.id, order |-> q]
      BY <1>1, <3>1
    <3> QED
      BY <3>3, <3>4 DEF Unsent
  <2>4. IsFiniteSet(Unsent(q)) /\ Cardinality(Unsent(q)) \in Nat /\ txs[q] \in Int
    BY UnsentFacts
  <2>5. IsFiniteSet(Unsent(q) \ {r.id}) /\ Cardinality(Unsent(q) \ {r.id}) = Cardinality(Unsent(q)) - 1
    BY <2>2, <2>4, FS_RemoveElement
  <2>6. Unsent(q)' \subseteq Unsent(q) \ {r.id}
    BY <1>3, <2>3
  <2>7. IsFiniteSet(Unsent(q)') /\ Cardinality(Unsent(q)') <= Cardinality(Unsent(q) \ {r.id})
    BY <2>5, <2>6, FS_Subset
  <2>8. Cardinality(Unsent(q)') \in Nat
    BY <2>7, FS_CardinalityType
  <2>9. txs'[q] = txs[q] + 1
    BY <1>t, <1>1, <1>5
  <2> QED
    BY <2>4, <2>5, <2>7, <2>8, <2>9 DEF Total
<1> QED
  BY <1>4, <1>5

LEMMA TotalOthers ==
    ASSUME PortTypeOK, PortInv, NEW q \in Orders,
           \/ HandleWalletPortData \/ WorkerExits \/ UNCHANGED portVars
           \/ \E r \in held, result \in Results : SendResult(r, result)
    PROVE  Total(q)' <= Total(q)
<1>t. toWallet \in Seq(Message) /\ held \in SUBSET Request /\ txs \in [Orders -> Int]
  BY PortTypes
<1>u. UNCHANGED txs
  BY DEF HandleWalletPortData, WorkerExits, SendResult, portVars
<1>g. ASSUME Unsent(q)' \subseteq Unsent(q) PROVE Total(q)' <= Total(q)
  <2>1. txs'[q] \in Int /\ txs'[q] <= txs[q] /\ txs'[q] - txs[q] = 0 /\ Total(q) \in Int
    BY <1>t, <1>u, UnsentFacts
  <2> QED
    BY <1>g, <2>1, TotalFalls
<1>1. CASE HandleWalletPortData
  <2> DEFINE h == Head(toWallet)
             e == [id |-> h.id, order |-> h.order, sent |-> FALSE]
  <2>1. held' = held \cup {e} /\ toWallet' = Tail(toWallet) /\ toWallet # <<>>
    BY <1>1 DEF HandleWalletPortData
  <2>2. /\ h \in Message /\ 1 \in DOMAIN toWallet /\ h = toWallet[1]
        /\ \A j \in DOMAIN toWallet' : j + 1 \in DOMAIN toWallet /\ toWallet'[j] = toWallet[j + 1]
    BY <1>t, <2>1, Taken
  <2>3. \A i : e = [id |-> i, order |-> q, sent |-> FALSE] => h = [id |-> i, order |-> q]
    BY <2>2 DEF Message
  <2> HIDE DEF h, e
  <2>4. ASSUME NEW i \in Nat, NEW j \in DOMAIN toWallet', toWallet'[j] = [id |-> i, order |-> q]
        PROVE  i \in Unsent(q)
    BY <2>2, <2>4 DEF Unsent
  <2>5. ASSUME NEW i \in Nat, [id |-> i, order |-> q, sent |-> FALSE] \in held'
        PROVE  i \in Unsent(q)
    BY <2>1, <2>2, <2>3, <2>5 DEF Unsent
  <2>6. Unsent(q)' \subseteq Unsent(q)
    BY <2>4, <2>5 DEF Unsent
  <2> QED
    BY <1>g, <2>6
<1>2. CASE UNCHANGED toWallet /\ held' \subseteq held
  <2>1. Unsent(q)' \subseteq Unsent(q)
    BY <1>2 DEF Unsent
  <2> QED
    BY <1>g, <2>1
<1>3. CASE WorkerExits
  BY <1>2, <1>3 DEF WorkerExits
<1>4. CASE UNCHANGED portVars
  BY <1>2, <1>4 DEF portVars
<1>5. ASSUME NEW r \in held, NEW result \in Results, SendResult(r, result) PROVE Total(q)' <= Total(q)
  BY <1>2, <1>5 DEF SendResult
<1> QED
  BY <1>1, <1>3, <1>4, <1>5

LEMMA TotalReceive ==
    ASSUME PortTypeOK, PortInv, Receive, NEW q \in Orders
    PROVE  Total(q)' <= Total(q) - (IF q \in Resolved /\ Head(toSubmitter).result = "failed" THEN 1 ELSE 0)
<1>t. txs \in [Orders -> Int] /\ Total(q) \in Int
  BY PortTypes, UnsentFacts
<1>1. Unsent(q)' \subseteq Unsent(q)
  BY DEF Receive, Unsent
<1>2. txs'[q] = IF q \in Resolved /\ Head(toSubmitter).result = "failed" THEN txs[q] - 1 ELSE txs[q]
  BY DEF Receive
<1> HIDE DEF Resolved
<1>3. txs'[q] \in Int /\ txs'[q] <= txs[q] /\ txs[q] \in Int
  BY <1>t, <1>2
<1>4. Total(q)' <= Total(q) + (txs'[q] - txs[q])
  BY <1>1, <1>3, TotalFalls
<1> QED
  BY <1>t, <1>2, <1>3, <1>4, UnsentFacts

\* An order that may have had its transaction.
Full(o) == stage[o] = "waiting" \/ (place[o] = "submit" /\ stage[o] = "completed") \/ place[o] = "gone"

LEMMA TotalTypes == PortTypeOK /\ PortInv => \A o \in Orders : Total(o) \in Int
BY UnsentFacts

LEMMA SentStep ==
    ASSUME TypeInv, StageInv, PortInv, SentInv, CapacityInv, PendingInv, [Next]_vars
    PROVE  SentInv'
<1>t. /\ place \in [Orders -> Places] /\ stage \in [Orders -> Stages]
      /\ listener \in [Orders -> Nat] /\ PortTypeOK /\ PortTypeOK' /\ PortInv'
      /\ toSubmitter \in Seq(News)
  BY TypeParts, PortTypes, StepOfPort, PortTypeStep, PortInvStep DEF StagesOK
<1>s. \A o \in Orders : StageOf(o)
  BY StageIs
<1>a. /\ \A o \in Orders : Allowed(o) = IF Full(o) THEN 1 ELSE 0
      /\ \A o \in Orders : Allowed(o)' = IF Full(o)' THEN 1 ELSE 0
  BY DEF Allowed, Full
<1>n. /\ \A o \in Orders : Total(o) \in Int /\ Total(o) <= Allowed(o)
      /\ \A o \in Orders : Total(o)' \in Int
  <2>1. \A o \in Orders : Total(o) \in Int /\ Total(o) <= Allowed(o)
    BY <1>t, UnsentFacts DEF SentInv, Total
  <2>2. (PortTypeOK /\ PortInv => \A o \in Orders : Total(o) \in Int)'
    BY TotalTypes, PTL
  <2> QED
    BY <1>t, <2>1, <2>2
<1>g. ASSUME \A o \in Orders : Total(o)' <= Allowed(o)' PROVE SentInv'
  BY <1>g DEF SentInv, Total
<1>k. ASSUME \A o \in Orders : Total(o)' <= Total(o) /\ (Full(o) => Full(o)') PROVE SentInv'
  <2> SUFFICES ASSUME NEW o \in Orders PROVE Total(o)' <= Allowed(o)'
    BY <1>g
  <2>1. Total(o)' <= Total(o) /\ Total(o) <= Allowed(o) /\ Total(o) \in Int /\ Total(o)' \in Int
    BY <1>k, <1>n
  <2>2. Allowed(o) <= Allowed(o)' /\ Allowed(o) \in Int /\ Allowed(o)' \in Int
    BY <1>a, <1>k
  <2> QED
    BY <2>1, <2>2
<1>u. ASSUME UNCHANGED portVars, \A o \in Orders : Full(o) => Full(o)' PROVE SentInv'
  <2>1. \A o \in Orders : Total(o)' <= Total(o)
    BY <1>t, <1>u, TotalOthers
  <2> QED
    BY <1>k, <1>u, <2>1
<1>1. ASSUME NEW o \in Orders, AddSubmitOrder(o) PROVE SentInv'
  <2>1. \A q \in Orders : Full(q) => Full(q)'
    BY <1>1, <1>t, <1>s DEF AddSubmitOrder, Full, StageOf
  <2> QED
    BY <1>1, <1>u, <2>1 DEF AddSubmitOrder
<1>2. ASSUME NEW retried, ProcessPendingQueue(retried) PROVE SentInv'
  <2>1. PICK m \in 0..Len(pending) :
              LET taken == {pending[j].order : j \in 1..m}
              IN  /\ taken \subseteq OrdersOf(pending)
                  /\ place' = [o \in Orders |-> IF o \in taken THEN "eval" ELSE place[o]]
                  /\ stage' = [o \in Orders |-> IF o \in taken \cup retried THEN "new" ELSE stage[o]]
    BY <1>2, Take
  <2> DEFINE taken == {pending[j].order : j \in 1..m}
  <2>2. ASSUME NEW q \in Orders
        PROVE  /\ q \in taken => place[q] = "pending"
               /\ place'[q] = IF q \in taken THEN "eval" ELSE place[q]
               /\ stage'[q] = IF q \in taken \/ q \in retried THEN "new" ELSE stage[q]
    BY <2>1 DEF PendingInv
  <2>3. ASSUME NEW q \in retried PROVE place[q] = "eval" /\ stage[q] = "retry"
    BY <1>2 DEF ProcessPendingQueue, MayBeDue, In
  <2> HIDE DEF taken
  <2>4. \A q \in Orders : Full(q) => Full(q)'
    BY <1>s, <2>2, <2>3 DEF Full, StageOf
  <2> QED
    BY <1>2, <1>u, <2>4 DEF ProcessPendingQueue
<1>3. ASSUME NEW retried, CollectEvaluated(retried) PROVE SentInv'
  <2> DEFINE completed == In("eval", {"completed"})
             gone == In("eval", {"dropped", "again"}) \ Again
  <2>1. ASSUME NEW q \in Orders
        PROVE  /\ place'[q] = IF q \in completed THEN "submit" ELSE IF q \in Again THEN "pending"
                              ELSE IF q \in gone THEN "gone" ELSE place[q]
               /\ stage'[q] = IF q \in completed \cup retried \cup Again \cup gone THEN "new" ELSE stage[q]
    BY <1>3 DEF CollectEvaluated, Again
  <2>2. ASSUME NEW q \in Orders
        PROVE  /\ q \in completed \cup Again \cup gone => place[q] = "eval" /\ stage[q] # "waiting"
               /\ q \in retried => place[q] = "submit" /\ stage[q] = "retry"
    BY <1>3 DEF In, Again, CollectEvaluated, MayBeDue
  <2> HIDE DEF completed, gone
  <2>3. \A q \in Orders : Full(q) => Full(q)'
    BY <1>s, <2>1, <2>2 DEF Full, StageOf
  <2> QED
    BY <1>3, <1>u, <2>3 DEF CollectEvaluated
<1>4. CASE SubmissionEnds
  <2>1. ASSUME NEW q \in Orders
        PROVE  LET done == place[q] = "submit" /\ stage[q] \in {"completed", "dropped"}
               IN  /\ place'[q] = IF done THEN "gone" ELSE place[q]
                   /\ stage'[q] = IF done THEN "new" ELSE stage[q]
    BY <1>4 DEF SubmissionEnds, In
  <2>2. \A q \in Orders : Full(q) => Full(q)'
    BY <2>1 DEF Full
  <2> QED
    BY <1>4, <1>u, <2>2 DEF SubmissionEnds
<1>5. ASSUME NEW o \in Orders, EvaluateOrder(o) PROVE SentInv'
  <2>1. \A q \in Orders : place'[q] = place[q] /\ place[o] = "eval" /\ stage[o] = "new"
                          /\ (q # o => stage'[q] = stage[q])
    BY <1>5, <1>t DEF EvaluateOrder, Fail, In
  <2>2. \A q \in Orders : Full(q) => Full(q)'
    BY <2>1 DEF Full
  <2> QED
    BY <1>5, <1>u, <2>2 DEF EvaluateOrder
<1>6. ASSUME NEW o \in Orders, EvaluatorAnswers(o) PROVE SentInv'
  <2>1. \A q \in Orders : place'[q] = place[q] /\ stage[o] = "asking" /\ (q # o => stage'[q] = stage[q])
    BY <1>6, <1>t DEF EvaluatorAnswers, Fail
  <2>2. \A q \in Orders : Full(q) => Full(q)'
    BY <1>s, <2>1 DEF Full, StageOf
  <2> QED
    BY <1>6, <1>u, <2>2 DEF EvaluatorAnswers
<1>7. ASSUME NEW o \in Orders, SubmitOrder(o) PROVE SentInv'
  <2>1. stage[o] = "new" /\ place[o] = "submit" /\ UNCHANGED place
    BY <1>7 DEF SubmitOrder, In
  <2>2. ASSUME NEW retry \in BOOLEAN, Fail(o, retry), UNCHANGED portVars PROVE SentInv'
    <3>1. \A q \in Orders : Full(q) => Full(q)'
      BY <1>t, <2>1, <2>2 DEF Fail, Full
    <3> QED
      BY <1>u, <2>2, <3>1
  <2>3. ASSUME stage' = [stage EXCEPT ![o] = "waiting"], SubmitTransaction(o) PROVE SentInv'
    <3> SUFFICES ASSUME NEW q \in Orders PROVE Total(q)' <= Allowed(q)'
      BY <1>g
    <3>1. Total(q)' <= Total(q) + (IF q = o THEN 1 ELSE 0)
      BY <1>t, <2>3, TotalSubmit
    <3>2. /\ q = o => ~Full(q) /\ Full(q)'
          /\ q # o => (Full(q) <=> Full(q)')
      BY <1>t, <2>1, <2>3 DEF Full
    <3>3. Total(q) \in Int /\ Total(q)' \in Int /\ Total(q) <= Allowed(q)
      BY <1>n
    <3> QED
      BY <1>a, <3>1, <3>2, <3>3
  <2> QED
    BY <1>7, <2>2, <2>3 DEF SubmitOrder
<1>8. ASSUME NEW retry \in BOOLEAN, TransactionResults(retry) PROVE SentInv'
  <2> SUFFICES ASSUME NEW q \in Orders PROVE Total(q)' <= Allowed(q)'
    BY <1>g
  <2> DEFINE result == Head(toSubmitter).result
  <2>1. Total(q)' <= Total(q) - (IF q \in Resolved /\ result = "failed" THEN 1 ELSE 0)
    BY <1>8, <1>t, TotalReceive DEF TransactionResults
  <2>2. /\ place'[q] = place[q]
        /\ q \notin Resolved => stage'[q] = stage[q]
        /\ q \in Resolved /\ result = "confirmed" => stage'[q] = "completed"
    BY <1>8 DEF TransactionResults
  <2>3. result \in {"confirmed", "failed"}
    <3>1. Head(toSubmitter) \in News
      BY <1>8, <1>t, Taken DEF TransactionResults, Receive
    <3> QED
      BY <3>1 DEF News, Crashed, Results
  <2>4. q \in Resolved => stage[q] = "waiting" /\ place[q] = "submit"
    BY <1>s DEF Resolved, StageOf
  <2>5. Total(q) \in Int /\ Total(q)' \in Int /\ Total(q) <= Allowed(q)
    BY <1>n
  <2> HIDE DEF result
  <2>6. CASE q \notin Resolved
    <3>1. Full(q) => Full(q)'
      BY <2>2, <2>6 DEF Full
    <3> QED
      BY <1>a, <2>1, <2>5, <2>6, <3>1
  <2>7. CASE q \in Resolved /\ result = "confirmed"
    <3>1. Full(q)'
      BY <2>2, <2>4, <2>7 DEF Full
    <3> QED
      BY <1>a, <2>1, <2>5, <2>7, <3>1
  <2>8. CASE q \in Resolved /\ result = "failed"
    BY <1>a, <2>1, <2>5, <2>8
  <2> QED
    BY <2>3, <2>6, <2>7, <2>8
<1>9. ASSUME UNCHANGED <<place, stage>>, \A o \in Orders : Total(o)' <= Total(o) PROVE SentInv'
  <2>1. \A o \in Orders : Full(o) => Full(o)'
    BY <1>9 DEF Full
  <2> QED
    BY <1>9, <1>k, <2>1
<1>10. ASSUME NEW o \in Orders, Prioritise(o) PROVE SentInv'
  BY <1>10, <1>t, <1>9, TotalOthers DEF Prioritise, queueVars
<1>11. CASE WalletStep
  <2>1. ASSUME NEW o \in Orders PROVE Total(o)' <= Total(o)
    BY <1>11, <1>t, TotalOthers, TotalSend DEF WalletStep
  <2> QED
    BY <1>9, <1>11, <2>1 DEF WalletStep, PortUnchanged, queueVars
<1>12. CASE Tick \/ EvaluatorExits \/ UNCHANGED vars
  BY <1>12, <1>t, <1>9, TotalOthers DEF Tick, EvaluatorExits, queueVars, vars
<1>13. CASE WorkerExits /\ PortUnchanged
  BY <1>13, <1>t, <1>9, TotalOthers DEF PortUnchanged, queueVars
<1> QED
  BY <1>1, <1>2, <1>3, <1>4, <1>5, <1>6, <1>7, <1>8, <1>10, <1>11, <1>12, <1>13 DEF Next, LoopStep

-----------------------------------------------------------------------------
(* The capacity.                                                           *)

\* The orders in work that came by the pending queue.
Queued == {o \in Orders : place[o] \in {"eval", "submit"} /\ ~direct[o]}

LEMMA CapacityIs ==
    CapacityInv <=> IsFiniteSet(InWork) /\ Cardinality(Queued) <= MaxPendingTransactions
BY DEF CapacityInv, CapacityForOthers, Queued

\* The first m orders of the queue are m at most.
LEMMA FewTaken ==
    ASSUME PendingInv, NEW m \in 0..Len(pending)
    PROVE  LET taken == {pending[j].order : j \in 1..m}
           IN  IsFiniteSet(taken) /\ Cardinality(taken) <= m /\ Cardinality(taken) \in Nat
<1> DEFINE taken == {pending[j].order : j \in 1..m}
           f == [j \in 1..m |-> pending[j].order]
<1>1. m \in Nat /\ m \in Int /\ 1 \in Int
  BY DEF PendingInv
<1>2. f \in Surjection(1..m, taken)
  BY DEF Surjection
<1> HIDE DEF f, taken
<1>3. IsFiniteSet(1..m) /\ Cardinality(1..m) = m
  BY <1>1, FS_Interval
<1>4. IsFiniteSet(taken) /\ Cardinality(taken) <= Cardinality(1..m)
  BY <1>2, <1>3, FS_Surjection
<1>5. Cardinality(taken) \in Nat
  BY <1>4, FS_CardinalityType
<1> QED
  BY <1>3, <1>4, <1>5 DEF taken

LEMMA CapacityStep ==
    ASSUME TypeInv, StageInv, CapacityInv, PendingInv, [Next]_vars
    PROVE  CapacityInv'
<1>t. /\ place \in [Orders -> Places] /\ direct \in [Orders -> BOOLEAN]
      /\ MaxPendingTransactions \in Nat
  BY TypeParts, SubmitterAssumption DEF FlagsOK
<1>c. /\ IsFiniteSet(InWork) /\ Cardinality(InWork) \in Nat
      /\ Queued \subseteq InWork /\ IsFiniteSet(Queued) /\ Cardinality(Queued) \in Nat
      /\ Cardinality(Queued) <= MaxPendingTransactions /\ Cardinality(Queued) <= Cardinality(InWork)
  <2>1. IsFiniteSet(InWork) /\ Queued \subseteq InWork /\ Cardinality(Queued) <= MaxPendingTransactions
    BY CapacityIs DEF Queued, InWork
  <2>2. IsFiniteSet(Queued) /\ Cardinality(Queued) <= Cardinality(InWork)
    BY <2>1, FS_Subset
  <2> QED
    BY <2>1, <2>2, FS_CardinalityType
<1>g. ASSUME IsFiniteSet(InWork'), Cardinality(Queued') <= MaxPendingTransactions PROVE CapacityInv'
  <2>1. (CapacityInv <=> IsFiniteSet(InWork) /\ Cardinality(Queued) <= MaxPendingTransactions)'
    BY CapacityIs, PTL
  <2> QED
    BY <1>g, <2>1
<1>k. ASSUME NEW T, IsFiniteSet(T), InWork' \subseteq T, Queued' \subseteq Queued PROVE CapacityInv'
  <2>1. IsFiniteSet(InWork') /\ IsFiniteSet(Queued') /\ Cardinality(Queued') <= Cardinality(Queued)
    BY <1>k, <1>c, FS_Subset
  <2>2. Cardinality(Queued') \in Nat
    BY <2>1, FS_CardinalityType
  <2> QED
    BY <1>g, <1>c, <1>t, <2>1, <2>2
<1>1. ASSUME NEW o \in Orders, AddSubmitOrder(o) PROVE CapacityInv'
  <2>1. place[o] = "new" /\ place'[o] \in {"eval", "pending"} /\ direct'[o] = urgent[o]
        /\ (place'[o] = "eval" => urgent[o])
    BY <1>1, <1>t DEF AddSubmitOrder
  <2>2. \A q \in Orders : q # o => place'[q] = place[q] /\ direct'[q] = direct[q]
    BY <1>1, <1>t DEF AddSubmitOrder
  <2>3. InWork' \subseteq InWork \cup {o}
    BY <2>2 DEF InWork
  <2>4. Queued' \subseteq Queued
    BY <2>1, <2>2 DEF Queued
  <2>5. IsFiniteSet(InWork \cup {o})
    BY <1>c, FS_AddElement
  <2> QED
    BY <1>k, <2>3, <2>4, <2>5
<1>2. ASSUME NEW retried, ProcessPendingQueue(retried) PROVE CapacityInv'
  <2>1. PICK m \in 0..Len(pending) :
              /\ m <= Capacity
              /\ LET taken == {pending[j].order : j \in 1..m}
                 IN  place' = [o \in Orders |-> IF o \in taken THEN "eval" ELSE place[o]]
    BY <1>2, Take
  <2> DEFINE taken == {pending[j].order : j \in 1..m}
  <2>2. place' = [o \in Orders |-> IF o \in taken THEN "eval" ELSE place[o]]
    BY <2>1
  <2>3. UNCHANGED direct
    BY <1>2 DEF ProcessPendingQueue, orderVars
  <2>4. IsFiniteSet(taken) /\ Cardinality(taken) <= m /\ Cardinality(taken) \in Nat
    BY FewTaken
  <2>5. m = 0 => taken = {}
    OBVIOUS
  <2> HIDE DEF taken
  <2>6. InWork' \subseteq InWork \cup taken /\ Queued' \subseteq Queued \cup taken
    BY <2>2, <2>3 DEF InWork, Queued
  <2>7. /\ IsFiniteSet(InWork \cup taken) /\ IsFiniteSet(Queued \cup taken)
        /\ Cardinality(Queued \cup taken) = Cardinality(Queued) + Cardinality(taken) - Cardinality(Queued \cap taken)
    BY <1>c, <2>4, FS_Union
  <2>8. CASE m = 0
    BY <1>k, <2>5, <2>6, <2>7, <2>8
  <2>9. CASE m # 0
    <3>1. m \in Nat /\ m + Cardinality(InWork) <= MaxPendingTransactions
      <4>1. m \in Nat
        BY DEF PendingInv
      <4> QED
        BY <1>c, <1>t, <2>1, <2>9, <4>1, CapacityType
    <3>2. IsFiniteSet(InWork') /\ IsFiniteSet(Queued') /\ Cardinality(Queued') <= Cardinality(Queued \cup taken)
      BY <2>6, <2>7, FS_Subset
    <3>3. Cardinality(Queued') \in Nat
      BY <3>2, FS_CardinalityType
    <3>4. Cardinality(Queued \cap taken) \in Nat
      <4>1. IsFiniteSet(Queued \cap taken)
        BY <1>c, FS_Subset
      <4> QED
        BY <4>1, FS_CardinalityType
    <3>5. Cardinality(Queued \cup taken) <= Cardinality(InWork) + m
      BY <1>c, <2>4, <2>7, <3>1, <3>4
    <3>6. Cardinality(Queued \cup taken) \in Nat
      BY <2>7, FS_CardinalityType
    <3> QED
      BY <1>c, <1>g, <1>t, <3>1, <3>2, <3>3, <3>5, <3>6
  <2> QED
    BY <2>8, <2>9
<1>3. ASSUME NEW retried, CollectEvaluated(retried) PROVE CapacityInv'
  <2> DEFINE completed == In("eval", {"completed"})
             gone == In("eval", {"dropped", "again"}) \ Again
  <2>1. ASSUME NEW q \in Orders
        PROVE  /\ place'[q] = IF q \in completed THEN "submit" ELSE IF q \in Again THEN "pending"
                              ELSE IF q \in gone THEN "gone" ELSE place[q]
               /\ direct'[q] = (direct[q] /\ q \notin gone)
               /\ q \in completed => place[q] = "eval" /\ q \notin gone
    BY <1>3 DEF CollectEvaluated, Again, In
  <2> HIDE DEF completed, gone
  <2>2. InWork' \subseteq InWork /\ Queued' \subseteq Queued
    BY <2>1 DEF InWork, Queued
  <2> QED
    BY <1>c, <1>k, <2>2
<1>4. CASE SubmissionEnds
  <2>1. ASSUME NEW q \in Orders
        PROVE  \/ place'[q] = "gone"
               \/ place'[q] = place[q] /\ direct'[q] = direct[q]
    <3>1. /\ place'[q] = IF q \in In("submit", {"completed", "dropped"}) THEN "gone" ELSE place[q]
          /\ direct'[q] = (direct[q] /\ q \notin In("submit", {"completed", "dropped"}))
      BY <1>4 DEF SubmissionEnds
    <3> QED
      BY <1>t, <3>1
  <2>2. InWork' \subseteq InWork /\ Queued' \subseteq Queued
    BY <2>1 DEF InWork, Queued
  <2> QED
    BY <1>c, <1>k, <2>2
<1>5. ASSUME UNCHANGED <<place, direct>> PROVE CapacityInv'
  <2>1. InWork' \subseteq InWork /\ Queued' \subseteq Queued
    BY <1>5 DEF InWork, Queued
  <2> QED
    BY <1>c, <1>k, <2>1
<1>6. ASSUME NEW o \in Orders, EvaluateOrder(o) \/ Prioritise(o) \/ SubmitOrder(o) \/ EvaluatorAnswers(o)
      PROVE  CapacityInv'
  BY <1>5, <1>6 DEF EvaluateOrder, Prioritise, SubmitOrder, EvaluatorAnswers, queueVars, orderVars
<1>7. ASSUME Tick \/ EvaluatorExits \/ WalletStep \/ (\E retry \in BOOLEAN : TransactionResults(retry))
                  \/ (WorkerExits /\ PortUnchanged) \/ UNCHANGED vars
      PROVE  CapacityInv'
  BY <1>5, <1>7 DEF Tick, EvaluatorExits, WalletStep, TransactionResults, PortUnchanged, queueVars, orderVars, vars
<1> QED
  BY <1>1, <1>2, <1>3, <1>4, <1>6, <1>7 DEF Next, LoopStep

-----------------------------------------------------------------------------
(* The theorems.                                                           *)

LEMMA InitInv ==
    ASSUME Init
    PROVE  IInv
<1>m. MaxTries \in Nat /\ MaxTries >= 1 /\ MaxTime \in Nat /\ MaxPendingTransactions \in Nat /\ MaxCrashes \in Nat
  BY SubmitterAssumption, PortAssumption
<1>1. TypeInv
  <2>1. PortTypeOK
    BY <1>m DEF Init, PortInit, PortTypeOK
  <2>2. 0 \in 0..(MaxTries - 1) /\ 0 \in 0..MaxTime
    BY <1>m
  <2>3. <<>> \in Seq([order : Orders, processAt : 0..(MaxTime + NewOrdersDelay)])
    OBVIOUS
  <2> QED
    BY <2>1, <2>2, <2>3 DEF Init, TypeInv, TypeOK
<1>2. StageInv
  BY DEF Init, PortInit, StageInv
<1>3. PortInv
  BY DEF Init, PortInit, PortInv, NoPromiseForgotten
<1>4. SentInv
  <2> SUFFICES ASSUME NEW o \in Orders PROVE txs[o] + Cardinality(Unsent(o)) <= Allowed(o)
    BY DEF SentInv
  <2>1. Unsent(o) = {}
    BY DEF Init, PortInit, Unsent
  <2>2. Cardinality(Unsent(o)) = 0
    BY <2>1, FS_EmptySet
  <2> QED
    BY <2>2 DEF Init, PortInit, Allowed
<1>5. CapacityInv
  <2>1. InWork = {} /\ Queued = {}
    BY DEF Init, InWork, Queued
  <2> QED
    BY <1>m, <2>1, FS_EmptySet, CapacityIs
<1>6. PendingQueueInOrder
  <2>1. DOMAIN pending = {} /\ {o \in Orders : place[o] = "pending"} = {}
    BY DEF Init
  <2> QED
    BY <2>1 DEF PendingQueueInOrder
<1> QED
  BY <1>1, <1>2, <1>3, <1>4, <1>5, <1>6 DEF IInv

LEMMA NextInv ==
    ASSUME IInv, [Next]_vars
    PROVE  IInv'
<1>1. TypeInv /\ StageInv /\ PortInv /\ SentInv /\ CapacityInv /\ PendingInv /\ PortTypeOK
  BY PendingInvIs, TypeParts DEF IInv
<1>2. TypeInv' /\ PendingInv' /\ StageInv' /\ SentInv' /\ CapacityInv'
  BY <1>1, TypeStep, PendingStep, StageStep, SentStep, CapacityStep
<1>3. PortInv'
  BY <1>1, StepOfPort, PortInvStep
<1>4. (PendingInv => PendingQueueInOrder)'
  BY PendingInvIs, PTL
<1> QED
  BY <1>2, <1>3, <1>4 DEF IInv

LEMMA Invariance == Spec => []IInv
<1>1. Init => IInv
  BY InitInv
<1>2. IInv /\ [Next]_vars => IInv'
  BY NextInv
<1> QED
  BY <1>1, <1>2, PTL DEF Spec

\* The types of the submitter and of the port.
THEOREM SubmitterTypeCorrect == Spec => []TypeOK
<1>1. IInv => TypeOK
  BY DEF IInv, TypeInv
<1> QED
  BY <1>1, Invariance, PTL

\* A promise of submitTransaction that is pending will be resolved by something
\* that exists: its request, its answer, or the broadcast of a crash.
THEOREM NoPromiseForgottenSafe == Spec => []NoPromiseForgotten
<1>1. IInv => NoPromiseForgotten
  BY DEF IInv, PortInv
<1> QED
  BY <1>1, Invariance, PTL

\* getCapacity and processPendingQueue keep the orders that waited for room
\* within maxPendingTransactions, over the eval and the submit queue together.
THEOREM CapacityForOthersSafe == Spec => []CapacityForOthers
<1>1. IInv => CapacityForOthers
  BY DEF IInv, CapacityInv
<1> QED
  BY <1>1, Invariance, PTL

\* addPendingOrder and processPendingQueue keep the pending queue in order, with
\* each order that waits in it once and no other.
THEOREM PendingQueueInOrderSafe == Spec => []PendingQueueInOrder
<1>1. IInv => PendingQueueInOrder
  BY DEF IInv
<1> QED
  BY <1>1, Invariance, PTL

\* Whatever becomes of the wallet worker, an order has one transaction more than
\* the failures the submitter was told of, at most.
THEOREM SentAgainOnlyAfterFailureSafe == Spec => []SentAgainOnlyAfterFailure
<1>1. IInv => SentAgainOnlyAfterFailure
  <2> SUFFICES ASSUME IInv, NEW o \in Orders PROVE txs[o] <= 1
    BY DEF SentAgainOnlyAfterFailure
  <2>1. Cardinality(Unsent(o)) \in Nat /\ txs[o] \in Int
    BY UnsentFacts, TypeParts DEF IInv
  <2>2. txs[o] + Cardinality(Unsent(o)) <= Allowed(o) /\ Allowed(o) \in {0, 1}
    BY DEF IInv, SentInv, Allowed
  <2> QED
    BY <2>1, <2>2
<1> QED
  BY <1>1, Invariance, PTL

\* handleOrder looks at the priority again before it asks the evaluator, so a
\* message that had it by then is not dropped because of the answer.
THEOREM PriorityNotUnprofitableSafe == Spec => PriorityNotUnprofitable
<1>1. IInv /\ [Next]_vars => [\A o \in Orders : place'[o] = "gone" /\ stage[o] = "again" => ~urgentSeen[o]]_vars
  BY DEF IInv, StageInv
<1> QED
  BY <1>1, Invariance, PTL DEF Spec, PriorityNotUnprofitable
=============================================================================
