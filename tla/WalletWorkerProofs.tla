-------------------------- MODULE WalletWorkerProofs --------------------------
(***************************************************************************)
(* Theorems about WalletWorker, for any number of requests, tries and      *)
(* pending transactions, and whatever the node drops or loses.             *)
(***************************************************************************)
EXTENDS WalletWorker, FiniteSetTheorems, WellFoundedInduction, TLAPS

-----------------------------------------------------------------------------
(* The inductive invariant. TypeInv: types, and the bounds of the counters.*)

Cancelling == {"cancel", "cancelSend", "cancelWait", "stalled"}

TypeInv ==
    /\ TypeOK
    /\ \A r \in Request : stage[r] \in {"submitRetry", "submitDue", "confirmRetry", "confirmDue"}
            => tries[r] < MaxTries - 1
    /\ pc \in Cancelling \ {"stalled"} => cancelTry < MaxTries
    /\ pc \in Cancelling => cancelling \in Request /\ stage[cancelling] = "unconfirmed"

(* QueueInv: the three queues hold each request that waits in them once,   *)
(* and the submit queue works on one request at a time.                    *)

Elements(s) == {s[j] : j \in DOMAIN s}
Injective(s) == \A j, k \in DOMAIN s : s[j] = s[k] => j = k
At(name) == {r \in Request : stage[r] = name}

Submitting == {"submitRetry", "submitDue", "submitFailing"}

QueueInv ==
    /\ Elements(newRequests) = At("requested") /\ Injective(newRequests)
    /\ Elements(submitNew) = At("submitNew") /\ Injective(submitNew)
    /\ Elements(confirmNew) = At("confirmNew") /\ Injective(confirmNew)
    /\ \A q, r \in Request : stage[q] \in Submitting /\ stage[r] \in Submitting => q = r
    /\ \A q, r \in Request : stage[q] = "submitted" /\ stage[r] = "submitted" => q = r
    /\ \A r \in Request : stage[r] = "submitFailing" => pc = "resync"
    /\ \A r \in Request : stage[r] = "submitted" => pc = "submitted"

(* OrderInv: a request that was not requeued is never overtaken on its way *)
(* to its first submission.                                                *)

Rank(name) ==
    CASE name = "idle" -> 0
      [] name = "requested" -> 1
      [] name = "submitNew" -> 2
      [] name \in Submitting -> 3
      [] OTHER -> 4

OrderInv ==
    /\ \A q, r \in Request : q < r /\ stage[q] = "idle" => stage[r] = "idle"
    /\ \A r \in Request : stage[r] \in {"idle", "requested"} => requeues[r] = 0
    /\ \A q, r \in Request :
          q < r /\ requeues[q] = 0 /\ requeues[r] = 0 => Rank(stage[r]) <= Rank(stage[q])
    /\ \A j, k \in DOMAIN newRequests : j < k => newRequests[j] < newRequests[k]
    /\ \A j, k \in DOMAIN submitNew :
          j < k /\ requeues[submitNew[j]] = 0 /\ requeues[submitNew[k]] = 0
          => submitNew[j] < submitNew[k]

(* NonceInv: without a gap below the worker's nonce, which is beyond that  *)
(* of every transaction sent.                                              *)

Sent == {"submitted", "confirmNew", "waiting", "confirmRetry", "confirmDue"}

NonceInv == drops = 0 =>
    /\ \A n \in Nonce : latest <= n /\ n < txNonce => mempool[n] # NoTx
    /\ \A r \in Request : stage[r] \in Sent => nonce[r] < txNonce

(* MinedInv: the transactions of a request, pending or mined, are at one   *)
(* nonce; there is none before the first submission, nor when the request  *)
(* is requeued; but for the requests whose wait was answered wrongly.      *)

PendsFor(n, r) == mempool[n].req = r /\ mempool[n].kind \in {"original", "replacement"}
Live(n, r) == Executes(n, r) \/ PendsFor(n, r)

MinedInv ==
    /\ \A n \in Nonce : n < latest => mempool[n] = NoTx
    /\ \A n \in Nonce : n >= latest => mined[n] = NoTx
    /\ \A r \in Request \ misjudged : \A m, n \in Nonce : Live(m, r) /\ Live(n, r) => m = n
    /\ \A r \in Request \ misjudged : \A n \in Nonce :
          Rank(stage[r]) < 4 => ~Live(n, r)
    /\ \A r \in Request \ misjudged : \A n \in Nonce :
          stage[r] \notin {"invalid", "answered"} /\ Live(n, r) => n = nonce[r]
    /\ \A r \in Request \ misjudged : stage[r] = "rejectedNonce" => nonce[r] < latest /\ ~MinedFor(r)

\* An answer is final, and a request answered as cancelled is settled.
AnswerInv ==
    /\ \A r \in Request : response[r] # "none" => stage[r] = "answered"
    /\ CancelledIsSettled

IInv == /\ TypeInv /\ QueueInv /\ CapacityRespected /\ OrderInv
        /\ NonceInv /\ NonceOrder /\ MinedInv /\ AnswerInv

-----------------------------------------------------------------------------
(* Sequences and the node.                                                 *)

\* Every set of numbers has a least one.
LEMMA LeastElement ==
    ASSUME NEW T \in SUBSET Nat, T # {}
    PROVE  \E x \in T : \A y \in T : x <= y
<1> DEFINE R == OpToRel(<, Nat)
<1>1. \A a, b \in Nat : a < b => <<a, b>> \in R
  BY Zenon DEF OpToRel
<1>2. IsWellFoundedOn(R, Nat)
  BY NatLessThanWellFounded, Zenon
<1> HIDE DEF R
<1>3. PICK x \in T : \A y \in T : ~(<<y, x>> \in R)
  BY <1>2, WFMin, Zenon
<1>4. \A y \in T : ~(y < x)
  BY <1>1, <1>3
<1> QED
  BY <1>4

\* The node's pending nonce is the first one from the latest on that is free.
LEMMA PendingNonceFacts ==
    ASSUME latest \in 0..(MaxNonce + 1)
    PROVE  /\ pendingNonce \in latest..(MaxNonce + 1)
           /\ pendingNonce \in Nonce => mempool[pendingNonce] = NoTx
           /\ \A m \in latest..(pendingNonce - 1) : mempool[m] # NoTx
<1> USE WalletAssumption
<1> DEFINE Free == {n \in latest..(MaxNonce + 1) : n \in Nonce => mempool[n] = NoTx}
<1>1. MaxNonce + 1 \in Free /\ Free \subseteq Nat
  BY DEF Nonce
<1>2. PICK n \in Free : \A m \in Free : n <= m
  BY <1>1, LeastElement
<1>3. \A m \in latest..(n - 1) : mempool[m] # NoTx
  <2> SUFFICES ASSUME NEW m \in latest..(n - 1), mempool[m] = NoTx PROVE FALSE
    OBVIOUS
  <2>1. m \in Free
    BY <1>1
  <2> QED
    BY <1>1, <1>2, <2>1
<1>4. \E x \in latest..(MaxNonce + 1) :
        /\ x \in Nonce => mempool[x] = NoTx
        /\ \A m \in latest..(x - 1) : mempool[m] # NoTx
  BY <1>2, <1>3
<1> QED
  BY <1>4 DEF pendingNonce

\* Placing a transaction changes one entry of the mempool.
LEMMA PlaceFacts ==
    ASSUME mempool \in [Nonce -> Tx], NEW n, NEW r, NEW k, Place(n, r, k)
    PROVE  \A m \in Nonce : mempool'[m] = IF m = n THEN [req |-> r, kind |-> k] ELSE mempool[m]
BY DEF Place

LEMMA PlaceType ==
    ASSUME mempool \in [Nonce -> Tx], NEW n, NEW r \in Request,
           NEW k \in {"original", "replacement", "cancel"}, Place(n, r, k)
    PROVE  mempool' \in [Nonce -> Tx]
<1>1. [req |-> r, kind |-> k] \in Tx
  BY DEF Tx
<1> QED
  BY <1>1 DEF Place

LEMMA AppendFacts ==
    ASSUME NEW S, NEW s \in Seq(S), NEW e \in S
    PROVE  /\ Append(s, e) \in Seq(S)
           /\ DOMAIN Append(s, e) = DOMAIN s \cup {Len(s) + 1}
           /\ \A j \in DOMAIN s : Append(s, e)[j] = s[j] /\ j < Len(s) + 1
           /\ Append(s, e)[Len(s) + 1] = e
           /\ Elements(Append(s, e)) = Elements(s) \cup {e}
           /\ Injective(s) /\ e \notin Elements(s) => Injective(Append(s, e))
<1>1. /\ Append(s, e) \in Seq(S) /\ Len(s) \in Nat
      /\ Len(Append(s, e)) = Len(s) + 1 /\ DOMAIN s = 1..Len(s)
      /\ \A j \in 1..Len(s) : Append(s, e)[j] = s[j]
      /\ Append(s, e)[Len(s) + 1] = e
  OBVIOUS
<1>2. DOMAIN Append(s, e) = DOMAIN s \cup {Len(s) + 1}
  BY <1>1
<1>3. \A j \in DOMAIN s : Append(s, e)[j] = s[j] /\ j < Len(s) + 1
  BY <1>1
<1> QED
  BY <1>1, <1>2, <1>3 DEF Elements, Injective

LEMMA TailFacts ==
    ASSUME NEW S, NEW s \in Seq(S), s # <<>>
    PROVE  /\ Head(s) \in S /\ Tail(s) \in Seq(S)
           /\ 1 \in DOMAIN s /\ Head(s) = s[1]
           /\ \A j \in DOMAIN Tail(s) : j + 1 \in DOMAIN s /\ Tail(s)[j] = s[j + 1]
           /\ Elements(s) = Elements(Tail(s)) \cup {Head(s)}
           /\ Injective(s) => Injective(Tail(s)) /\ Head(s) \notin Elements(Tail(s))
<1>1. /\ Head(s) \in S /\ Tail(s) \in Seq(S) /\ Len(s) \in Nat /\ Len(s) > 0
      /\ Head(s) = s[1] /\ Len(Tail(s)) = Len(s) - 1
      /\ DOMAIN s = 1..Len(s) /\ DOMAIN Tail(s) = 1..(Len(s) - 1)
      /\ \A j \in 1..(Len(s) - 1) : Tail(s)[j] = s[j + 1]
  OBVIOUS
<1>2. \A j \in DOMAIN Tail(s) : j + 1 \in DOMAIN s /\ Tail(s)[j] = s[j + 1] /\ j + 1 # 1 /\ j \in Nat
  BY <1>1
<1>3. \A k \in DOMAIN s : k = 1 \/ (k - 1 \in DOMAIN Tail(s) /\ s[k] = Tail(s)[k - 1])
  BY <1>1
<1>4. Elements(s) = Elements(Tail(s)) \cup {Head(s)}
  <2>1. ASSUME NEW k \in DOMAIN s PROVE s[k] \in Elements(Tail(s)) \cup {Head(s)}
    BY <1>1, <1>3 DEF Elements
  <2>2. 1 \in DOMAIN s /\ Head(s) \in Elements(s)
    BY <1>1 DEF Elements
  <2>3. ASSUME NEW j \in DOMAIN Tail(s) PROVE Tail(s)[j] \in Elements(s)
    BY <1>2 DEF Elements
  <2> QED
    BY <2>1, <2>2, <2>3 DEF Elements
<1>5. ASSUME Injective(s) PROVE Injective(Tail(s)) /\ Head(s) \notin Elements(Tail(s))
  BY <1>1, <1>2, <1>5 DEF Elements, Injective
<1> QED
  BY <1>1, <1>2, <1>4, <1>5

\* run() takes the first n requests of newRequestsQueue.
LEMMA CutFacts ==
    ASSUME NEW S, NEW s \in Seq(S), NEW n \in 0..Len(s)
    PROVE  LET front == SubSeq(s, 1, n)
               back == SubSeq(s, n + 1, Len(s))
           IN  /\ front \in Seq(S) /\ back \in Seq(S)
               /\ DOMAIN front = 1..n /\ DOMAIN back = 1..(Len(s) - n)
               /\ \A j \in 1..n : j \in DOMAIN s /\ front[j] = s[j]
               /\ \A j \in 1..(Len(s) - n) : n + j \in DOMAIN s /\ back[j] = s[n + j]
               /\ Elements(s) = Elements(front) \cup Elements(back)
               /\ Injective(s) => /\ Injective(front) /\ Injective(back)
                                  /\ Elements(front) \cap Elements(back) = {}
<1> DEFINE front == SubSeq(s, 1, n)
           back == SubSeq(s, n + 1, Len(s))
<1>1. Len(s) \in Nat /\ n \in Nat /\ n <= Len(s) /\ DOMAIN s = 1..Len(s)
  OBVIOUS
<1>2. front \in Seq(S) /\ DOMAIN front = 1..n /\ \A j \in 1..n : j \in DOMAIN s /\ front[j] = s[j]
  BY <1>1
<1>3. /\ back \in Seq(S) /\ DOMAIN back = 1..(Len(s) - n)
      /\ \A j \in 1..(Len(s) - n) : n + j \in DOMAIN s /\ back[j] = s[n + j]
  BY <1>1
<1> HIDE DEF front, back
<1>4. \A k \in DOMAIN s : k \in 1..n \/ (k - n \in 1..(Len(s) - n) /\ n + (k - n) = k)
  BY <1>1
<1>5. Elements(s) = Elements(front) \cup Elements(back)
  <2>1. ASSUME NEW k \in DOMAIN s PROVE s[k] \in Elements(front) \cup Elements(back)
    <3>1. CASE k \in 1..n
      BY <1>2, <3>1 DEF Elements
    <3>2. CASE k - n \in 1..(Len(s) - n) /\ n + (k - n) = k
      BY <1>3, <3>2 DEF Elements
    <3> QED
      BY <1>4, <3>1, <3>2
  <2>2. ASSUME NEW j \in DOMAIN front PROVE front[j] \in Elements(s)
    BY <1>2 DEF Elements
  <2>3. ASSUME NEW j \in DOMAIN back PROVE back[j] \in Elements(s)
    BY <1>3 DEF Elements
  <2> QED
    BY <2>1, <2>2, <2>3 DEF Elements
<1>6. ASSUME Injective(s)
      PROVE  Injective(front) /\ Injective(back) /\ Elements(front) \cap Elements(back) = {}
  <2>1. Injective(front)
    BY <1>2, <1>6 DEF Injective
  <2>2. Injective(back)
    <3>1. ASSUME NEW j \in 1..(Len(s) - n), NEW k \in 1..(Len(s) - n), back[j] = back[k] PROVE j = k
      <4>1. n + j = n + k
        BY <1>3, <1>6, <3>1 DEF Injective
      <4> QED
        BY <1>1, <4>1
    <3> QED
      BY <1>3, <3>1 DEF Injective
  <2>3. ASSUME NEW j \in 1..n, NEW k \in 1..(Len(s) - n) PROVE front[j] # back[k]
    <3>1. j # n + k
      BY <1>1
    <3> QED
      BY <1>2, <1>3, <1>6, <3>1 DEF Injective
  <2> QED
    BY <1>2, <1>3, <2>1, <2>2, <2>3 DEF Elements
<1> QED
  BY <1>2, <1>3, <1>5, <1>6 DEF front, back

LEMMA ConcatFacts ==
    ASSUME NEW S, NEW s \in Seq(S), NEW t \in Seq(S)
    PROVE  /\ s \o t \in Seq(S)
           /\ \A j \in DOMAIN s : j \in DOMAIN (s \o t) /\ (s \o t)[j] = s[j]
           /\ \A j \in DOMAIN (s \o t) :
                 \/ j \in DOMAIN s /\ (s \o t)[j] = s[j]
                 \/ j > Len(s) /\ j - Len(s) \in DOMAIN t /\ (s \o t)[j] = t[j - Len(s)]
           /\ Elements(s \o t) = Elements(s) \cup Elements(t)
           /\ Injective(s) /\ Injective(t) /\ Elements(s) \cap Elements(t) = {} => Injective(s \o t)
<1> DEFINE u == s \o t
<1>1. /\ Len(s) \in Nat /\ Len(t) \in Nat /\ DOMAIN s = 1..Len(s) /\ DOMAIN t = 1..Len(t)
      /\ u \in Seq(S) /\ DOMAIN u = 1..(Len(s) + Len(t))
  OBVIOUS
<1>2. \A j \in DOMAIN s : j \in DOMAIN u /\ u[j] = s[j]
  BY <1>1
<1>3. \A j \in DOMAIN u :
        \/ j \in DOMAIN s /\ u[j] = s[j]
        \/ j > Len(s) /\ j - Len(s) \in DOMAIN t /\ u[j] = t[j - Len(s)]
  BY <1>1
<1>4. \A j \in DOMAIN t : Len(s) + j \in DOMAIN u /\ u[Len(s) + j] = t[j]
  BY <1>1
<1> HIDE DEF u
<1>5. Elements(u) = Elements(s) \cup Elements(t)
  BY <1>2, <1>3, <1>4 DEF Elements
<1>6. ASSUME Injective(s), Injective(t), Elements(s) \cap Elements(t) = {} PROVE Injective(u)
  <2> SUFFICES ASSUME NEW j \in DOMAIN u, NEW k \in DOMAIN u, u[j] = u[k] PROVE j = k
    BY DEF Injective
  <2>1. \A x \in DOMAIN s, y \in DOMAIN t : s[x] # t[y]
    BY <1>6 DEF Elements
  <2>2. CASE j \in DOMAIN s /\ k \in DOMAIN s
    BY <1>2, <1>6, <2>2 DEF Injective
  <2>3. CASE j \notin DOMAIN s \/ k \notin DOMAIN s
    <3>1. j \notin DOMAIN s /\ k \notin DOMAIN s
      BY <1>3, <2>1, <2>3
    <3>2. j - Len(s) = k - Len(s)
      BY <1>3, <1>6, <3>1 DEF Injective
    <3> QED
      BY <1>1, <3>2
  <2> QED
    BY <2>2, <2>3
<1> QED
  BY <1>1, <1>2, <1>3, <1>5, <1>6 DEF u

-----------------------------------------------------------------------------
(* Types.                                                                  *)

\* The requests in a queue are finitely many.
LEMMA RequestsFinite ==
    ASSUME NEW S \in SUBSET Request
    PROVE  IsFiniteSet(S) /\ Cardinality(S) \in Nat
<1>1. IsFiniteSet(Request)
  BY WalletAssumption, FS_Interval DEF Request
<1>2. IsFiniteSet(S)
  BY <1>1, FS_Subset
<1> QED
  BY <1>2, FS_CardinalityType

LEMMA CapacityType == walletCapacity \in Nat
<1>1. InSubmitQueue \in SUBSET Request /\ InConfirmQueue \in SUBSET Request
  BY DEF InSubmitQueue, InConfirmQueue
<1>2. Cardinality(InSubmitQueue) \in Nat /\ Cardinality(InConfirmQueue) \in Nat
  BY <1>1, RequestsFinite
<1> DEFINE used == Cardinality(InSubmitQueue) + Cardinality(InConfirmQueue)
<1>3. used \in Nat
  BY <1>2
<1> HIDE DEF used
<1>4. walletCapacity = IF used < MaxPending THEN MaxPending - used ELSE 0
  BY DEF walletCapacity, used
<1> QED
  BY <1>3, <1>4, WalletAssumption

LEMMA TypeStep == TypeInv /\ [Next]_vars => TypeInv'
<1> SUFFICES ASSUME TypeInv, [Next]_vars PROVE TypeInv'
  OBVIOUS
<1> USE WalletAssumption DEF TypeInv, TypeOK, worker, chain, account, Nonce, Stages, Cancelling, NoRequest
<1>1. CASE AddTransaction
  <2>1. PICK r \in Request : stage[r] = "idle" /\ newRequests' = Append(newRequests, r)
                             /\ stage' = [stage EXCEPT ![r] = "requested"]
    BY <1>1 DEF AddTransaction
  <2>2. newRequests' \in Seq(Request)
    BY <2>1, AppendFacts
  <2>3. /\ stage' \in [Request -> Stages] /\ stage'[r] = "requested"
        /\ \A q \in Request : q # r => stage'[q] = stage[q]
    BY <2>1
  <2>4. UNCHANGED <<pc, submitNew, confirmNew, tries, requeues, nonce, repriced, txNonce,
                    collected, cancelling, cancelTry, response, chain>>
    BY <1>1 DEF AddTransaction
  <2> QED
    BY <2>1, <2>2, <2>3, <2>4
<1>2. CASE ProcessNewRequests
  <2> DEFINE n == IF Len(newRequests) < walletCapacity THEN Len(newRequests) ELSE walletCapacity
  <2>1. n \in 0..Len(newRequests)
    BY CapacityType
  <2>2. newRequests' \in Seq(Request) /\ submitNew' \in Seq(Request)
    BY <1>2, <2>1, CutFacts, ConcatFacts DEF ProcessNewRequests
  <2> QED
    BY <1>2, <2>2 DEF ProcessNewRequests
<1>3. CASE SubmitIdle
  BY <1>3 DEF SubmitIdle
<1>4. CASE CollectSubmitted
  <2>1. confirmNew' \in Seq(Request)
    <3>1. ASSUME {r \in Request : stage[r] = "submitted"} # {}
          PROVE  (CHOOSE r \in {q \in Request : stage[q] = "submitted"} : TRUE) \in Request
      BY <3>1
    <3> QED
      BY <1>4, <3>1, AppendFacts DEF CollectSubmitted
  <2> QED
    BY <1>4, <2>1 DEF CollectSubmitted
<1>5. CASE ConfirmIdle
  BY <1>5 DEF ConfirmIdle
<1>6. CASE CollectConfirmed
  BY <1>6 DEF CollectConfirmed, FinishedConfirm
<1>7. CASE AllHandled
  BY <1>7 DEF AllHandled
<1>8. CASE CancelObsolete
  BY <1>8 DEF CancelObsolete, Answer
<1>9. CASE CancelStarts
  BY <1>9 DEF CancelStarts
<1>10. CASE CancelSent
  BY <1>10, PlaceType DEF CancelSent
<1>11. CASE CancelConfirmed
  BY <1>11 DEF CancelConfirmed, Answer
<1>12. CASE CancelFails
  <2>1. mempool' \in [Nonce -> Tx]
    BY <1>12, PlaceType DEF CancelFails, SendFails
  <2> QED
    BY <1>12, <2>1 DEF CancelFails
<1>13. ASSUME NEW r \in Request, SubmitStep(r) PROVE TypeInv'
  <2>1. ASSUME SubmitNext(r) PROVE tries' \in [Request -> 0..(MaxTries - 1)] /\ submitNew' \in Seq(Request)
    <3>1. CASE stage[r] = "submitDue" /\ tries' = [tries EXCEPT ![r] = @ + 1] /\ UNCHANGED submitNew
      BY <3>1
    <3>2. CASE submitNew # <<>> /\ submitNew' = Tail(submitNew) /\ tries' = [tries EXCEPT ![r] = 0]
      BY <3>2
    <3> QED
      BY <2>1, <3>1, <3>2 DEF SubmitNext
  <2>2. ASSUME SendFails(txNonce, r, "original") PROVE mempool' \in [Nonce -> Tx]
    BY <2>2, PlaceType DEF SendFails
  <2>3. ASSUME SubmitNext(r)
        PROVE  \A q \in Request : q # r => tries'[q] = tries[q]
    BY <2>3 DEF SubmitNext
  <2>4. CASE DeadlineExceeded(r)
    BY <2>1, <2>3, <2>4 DEF DeadlineExceeded, SubmitNext
  <2>5. CASE SubmitSucceeds(r)
    <3>1. txNonce \in Nonce
      BY <2>5 DEF SubmitSucceeds, Accepts
    <3>2. mempool' \in [Nonce -> Tx]
      BY <2>5, PlaceType DEF SubmitSucceeds
    <3>3. nonce' \in [Request -> Nonce] /\ txNonce' \in 0..(MaxNonce + 1)
      BY <2>5, <3>1 DEF SubmitSucceeds
    <3> QED
      BY <2>1, <2>3, <2>5, <3>2, <3>3 DEF SubmitSucceeds, SubmitNext
  <2>6. CASE SubmitFails(r)
    BY <2>1, <2>2, <2>3, <2>6 DEF SubmitFails, SubmitNext
  <2>7. CASE SubmitNonceError(r)
    BY <2>1, <2>3, <2>7 DEF SubmitNonceError, SubmitNext
  <2>8. CASE ResyncNonce(r)
    <3>1. pendingNonce \in 0..(MaxNonce + 1)
      BY PendingNonceFacts
    <3> QED
      <4>1. TypeOK'
        BY <2>8, <3>1 DEF ResyncNonce
      <4>2. pc \notin Cancelling /\ pc' \notin Cancelling /\ UNCHANGED tries
        BY <2>8 DEF ResyncNonce
      <4>3. stage'[r] = "submitRetry" => tries[r] < MaxTries - 1
        BY <2>8 DEF ResyncNonce
      <4>4. \A q \in Request : q # r => stage'[q] = stage[q]
        BY <2>8 DEF ResyncNonce
      <4>5. stage'[r] \in {"submitRetry", "invalid"}
        BY <2>8 DEF ResyncNonce
      <4> QED
        BY <4>1, <4>2, <4>3, <4>4, <4>5
  <2> QED
    BY <1>13, <2>4, <2>5, <2>6, <2>7, <2>8 DEF SubmitStep
<1>14. ASSUME NEW r \in Request, ConfirmStep(r) PROVE TypeInv'
  <2>1. CASE StartWaiting(r)
    <3>1. confirmNew' \in Seq(Request)
      BY <2>1 DEF StartWaiting
    <3>2. /\ stage' \in [Request -> Stages] /\ stage'[r] = "waiting"
          /\ \A q \in Request : q # r => stage'[q] = stage[q] /\ tries'[q] = tries[q]
      BY <2>1 DEF StartWaiting
    <3>3. tries' \in [Request -> 0..(MaxTries - 1)]
      BY <2>1 DEF StartWaiting
    <3>4. pc = "confirm" /\ pc' = "collect"
      BY <2>1 DEF StartWaiting
    <3>5. UNCHANGED <<newRequests, submitNew, requeues, nonce, repriced, txNonce,
                      collected, cancelling, cancelTry, response, chain>>
      BY <2>1 DEF StartWaiting
    <3> QED
      BY <3>1, <3>2, <3>3, <3>4, <3>5
  <2>2. ASSUME ConfirmDue(r)
        PROVE  /\ tries' \in [Request -> 0..(MaxTries - 1)]
               /\ \A q \in Request : q # r => tries'[q] = tries[q]
    BY <2>2 DEF ConfirmDue
  <2>3. CASE WaitAgain(r)
    BY <2>2, <2>3 DEF WaitAgain, ConfirmDue
  <2>4. CASE Reprice(r)
    BY <2>2, <2>4, PlaceType DEF Reprice, ConfirmDue
  <2>5. CASE RepriceFails(r)
    <3>1. mempool' \in [Nonce -> Tx]
      BY <2>5, PlaceType DEF RepriceFails, SendFails
    <3> QED
      BY <2>2, <2>5, <3>1 DEF RepriceFails, ConfirmDue, RetryConfirm
  <2> QED
    BY <1>14, <2>1, <2>3, <2>4, <2>5 DEF ConfirmStep
<1>15. ASSUME NEW r \in Request, HandleStep(r) PROVE TypeInv'
  <2>1. CASE HandleConfirmed(r)
    BY <2>1 DEF HandleConfirmed, Answer
  <2>2. CASE HandleRejected(r)
    <3>1. submitNew' \in Seq(Request)
      <4>1. submitNew' = Append(submitNew, r) \/ submitNew' = submitNew
        BY <2>2 DEF HandleRejected
      <4>2. submitNew \in Seq(Request)
        OBVIOUS
      <4>3. Append(submitNew, r) \in Seq(Request)
        BY <4>2, AppendFacts
      <4> QED
        BY <4>1, <4>2, <4>3
    <3>2. /\ stage' \in [Request -> Stages] /\ collected' \in SUBSET Request
          /\ requeues' \in [Request -> 0..MaxTries]
          /\ response' \in [Request -> {"none", "confirmed", "submissionError",
                                       "confirmationError", "cancelled"}]
      <4>1. CASE Requeues(r)
        <5>1. requeues[r] \in Nat /\ requeues[r] + 1 \in 0..MaxTries
          BY <4>1 DEF Requeues
        <5>2. /\ requeues' = [requeues EXCEPT ![r] = @ + 1]
              /\ stage' = [stage EXCEPT ![r] = "submitNew"]
              /\ collected' = collected \ {r}
              /\ UNCHANGED response
          BY <2>2, <4>1 DEF HandleRejected
        <5>3. requeues' \in [Request -> 0..MaxTries]
          BY <5>1, <5>2
        <5> QED
          BY <5>2, <5>3
      <4>2. CASE ~Requeues(r)
        BY <2>2, <4>2 DEF HandleRejected, Answer
      <4> QED
        BY <4>1, <4>2
    <3>3. /\ pc = "handle" /\ stage'[r] \in {"submitNew", "answered"}
          /\ \A q \in Request : q # r => stage'[q] = stage[q]
      BY <2>2 DEF HandleRejected, Answer
    <3>4. UNCHANGED <<pc, newRequests, confirmNew, tries, nonce, repriced,
                      txNonce, cancelling, cancelTry, chain>>
      BY <2>2 DEF HandleRejected
    <3> QED
      BY <3>1, <3>2, <3>3, <3>4
  <2>3. CASE HandleUnconfirmed(r)
    BY <2>3 DEF HandleUnconfirmed
  <2> QED
    BY <1>15, <2>1, <2>2, <2>3 DEF HandleStep
<1>16. ASSUME NEW r \in Request, RetryDue(r) PROVE TypeInv'
  BY <1>16 DEF RetryDue
<1>17. ASSUME NEW r \in Request, Settle(r) PROVE TypeInv'
  <2>1. PICK outcome \in {"confirmed", "rejected", "rejectedNonce", RetryConfirm(tries[r])} :
          WaitSettles(r, outcome)
    BY <1>17 DEF Settle, WaitConfirms, WaitTimesOut, WaitFails
  <2>2. /\ outcome \in Stages \ {"submitRetry", "submitDue", "confirmDue"}
        /\ outcome = "confirmRetry" => tries[r] < MaxTries - 1
    BY <2>1 DEF RetryConfirm
  <2>3. /\ stage' \in [Request -> Stages] /\ stage'[r] = outcome /\ stage[r] = "waiting"
        /\ \A q \in Request : q # r => stage'[q] = stage[q]
    BY <2>1, <2>2 DEF WaitSettles
  <2>4. UNCHANGED <<pc, newRequests, submitNew, confirmNew, tries, requeues, nonce, repriced,
                    txNonce, collected, cancelling, cancelTry, response, mempool,
                    latest, mined, reverted, externals, drops>>
    BY <2>1 DEF WaitSettles
  <2>5. misjudged' \in {misjudged, misjudged \cup {r}}
    BY <1>17 DEF Settle, WaitConfirms, WaitTimesOut, WaitFails
  <2>6. misjudged' \in SUBSET Request
    BY <2>5
  <2> QED
    BY <2>2, <2>3, <2>4, <2>6
<1>18. CASE Mine
  <2>1. mined' \in [Nonce -> Tx] /\ mempool' \in [Nonce -> Tx]
    BY <1>18 DEF Mine, Tx
  <2> QED
    <3>1. latest' \in 0..(MaxNonce + 1) /\ reverted' \in SUBSET Nonce
      <4>1. /\ latest \in 0..MaxNonce /\ latest' = latest + 1
            /\ reverted' = reverted \/ reverted' = reverted \cup {latest}
        BY <1>18 DEF Mine
      <4>2. latest' \in 0..(MaxNonce + 1)
        BY <4>1
      <4>3. reverted \in SUBSET Nonce /\ latest \in Nonce
        BY <4>1
      <4> QED
        BY <4>1, <4>2, <4>3
    <3>2. UNCHANGED <<worker, externals, drops, misjudged>>
      BY <1>18 DEF Mine
    <3> QED
      BY <2>1, <3>1, <3>2
<1>19. CASE Drop
  <2>1. mempool' \in [Nonce -> Tx]
    BY <1>19 DEF Drop, Tx
  <2> QED
    BY <1>19, <2>1 DEF Drop, worker
<1>20. CASE External
  <2>1. mempool' \in [Nonce -> Tx]
    BY <1>20 DEF External, Place, Tx
  <2> QED
    BY <1>20, <2>1 DEF External, worker
<1>21. CASE UNCHANGED vars
  BY <1>21 DEF vars, worker
<1> QED
  BY <1>1, <1>2, <1>3, <1>4, <1>5, <1>6, <1>7, <1>8, <1>9, <1>10, <1>11, <1>12, <1>13, <1>14,
     <1>15, <1>16, <1>17, <1>18, <1>19, <1>20, <1>21 DEF Next, Run, Cancel

-----------------------------------------------------------------------------
(* The shapes of a step: what it does to the stages and the queues.        *)

Waiting == {"requested", "submitNew", "confirmNew"}
queues == <<newRequests, submitNew, confirmNew>>

\* Nothing moves.
Stays == /\ UNCHANGED <<stage, queues, requeues>>
         /\ pc' = pc \/ pc \notin {"resync", "submitted"}

\* One request that waits in no queue moves on.
Moves(r, b) ==
    /\ stage[r] \notin Waiting \cup {"idle", "submitted", "invalid", "answered"}
    /\ b \notin Waiting \cup {"idle", "submitted", "submitFailing"}
    /\ b \in Submitting => stage[r] \in Submitting
    /\ stage' = [stage EXCEPT ![r] = b]
    /\ UNCHANGED <<queues, requeues>>
    /\ \/ pc' = pc
       \/ pc \notin {"resync", "submitted"}
       \/ pc = "resync" /\ stage[r] = "submitFailing"

\* The submit queue takes up its next order, or the retry that is due.
Submits(r, b) ==
    /\ pc = "submit"
    /\ \/ stage[r] = "submitDue" /\ UNCHANGED submitNew
       \/ ~SubmitBusy /\ submitNew # <<>> /\ r = Head(submitNew) /\ submitNew' = Tail(submitNew)
    /\ \/ b = "invalid" /\ pc' = pc
       \/ b = "submitted" /\ pc' = "submitted"
       \/ b = "submitFailing" /\ pc' = "resync"
    /\ stage' = [stage EXCEPT ![r] = b]
    /\ UNCHANGED <<newRequests, confirmNew, requeues>>

\* A rejected request goes back to the submit queue.
RequeueStep(r) ==
    /\ pc = "handle" /\ stage[r] = "rejectedNonce"
    /\ requeues' = [requeues EXCEPT ![r] = @ + 1]
    /\ submitNew' = Append(submitNew, r)
    /\ stage' = [stage EXCEPT ![r] = "submitNew"]
    /\ UNCHANGED <<pc, newRequests, confirmNew>>

LEMMA Shapes ==
    ASSUME TypeInv, [Next]_vars
    PROVE  \/ Stays \/ AddTransaction \/ ProcessNewRequests \/ CollectSubmitted
           \/ \E r \in Request : StartWaiting(r) \/ RequeueStep(r)
           \/ \E r \in Request, b \in Stages : Moves(r, b) \/ Submits(r, b)
<1> DEFINE Goal == \/ Stays \/ AddTransaction \/ ProcessNewRequests \/ CollectSubmitted
                   \/ \E r \in Request : StartWaiting(r) \/ RequeueStep(r)
                   \/ \E r \in Request, b \in Stages : Moves(r, b) \/ Submits(r, b)
<1> USE DEF queues, Stages
<1>1. CASE SubmitIdle \/ ConfirmIdle \/ CollectConfirmed \/ AllHandled \/ CancelStarts
  BY <1>1 DEF SubmitIdle, ConfirmIdle, CollectConfirmed, AllHandled, CancelStarts, Stays
<1>2. CASE CancelSent \/ CancelFails
  BY <1>2 DEF CancelSent, CancelFails, Stays
<1>3. CASE Mine \/ Drop \/ External \/ UNCHANGED vars
  BY <1>3 DEF Mine, Drop, External, Stays, vars, worker
<1>4. CASE CancelObsolete \/ CancelConfirmed
  <2>1. /\ pc \in Cancelling /\ stage' = [stage EXCEPT ![cancelling] = "answered"]
        /\ UNCHANGED <<queues, requeues>>
    BY <1>4 DEF CancelObsolete, CancelConfirmed, Answer, Cancelling
  <2>2. cancelling \in Request /\ stage[cancelling] = "unconfirmed"
    BY <2>1 DEF TypeInv
  <2>3. Moves(cancelling, "answered")
    BY <2>1, <2>2 DEF Moves, Waiting, Submitting, Cancelling
  <2> QED
    BY <2>2, <2>3
<1>5. ASSUME NEW r \in Request, SubmitStep(r) PROVE Goal
  <2>1. ASSUME NEW b \in {"invalid", "submitted", "submitFailing"}, SubmitNext(r),
               stage' = [stage EXCEPT ![r] = b], UNCHANGED <<newRequests, confirmNew, requeues>>,
               pc' = CASE b = "invalid" -> pc [] b = "submitted" -> "submitted" [] OTHER -> "resync"
        PROVE  Submits(r, b) /\ b \in Stages
    BY <2>1 DEF Submits, SubmitNext
  <2>2. CASE DeadlineExceeded(r) \/ SubmitFails(r)
    <3>1. Submits(r, "invalid")
      BY <2>1, <2>2 DEF DeadlineExceeded, SubmitFails
    <3> QED
      BY <3>1
  <2>3. CASE SubmitSucceeds(r)
    <3>1. Submits(r, "submitted")
      BY <2>1, <2>3 DEF SubmitSucceeds
    <3> QED
      BY <3>1
  <2>4. CASE SubmitNonceError(r)
    <3>1. Submits(r, "submitFailing")
      BY <2>1, <2>4 DEF SubmitNonceError
    <3> QED
      BY <3>1
  <2>5. CASE ResyncNonce(r)
    <3>1. Moves(r, "invalid") \/ Moves(r, "submitRetry")
      BY <2>5 DEF ResyncNonce, Moves, Waiting, Submitting
    <3> QED
      BY <3>1
  <2> QED
    BY <1>5, <2>2, <2>3, <2>4, <2>5 DEF SubmitStep
<1>6. ASSUME NEW r \in Request, ConfirmStep(r) PROVE Goal
  <2>1. CASE StartWaiting(r)
    BY <2>1
  <2>2. CASE WaitAgain(r) \/ Reprice(r)
    <3>1. Moves(r, "waiting")
      BY <2>2 DEF WaitAgain, Reprice, ConfirmDue, Moves, Waiting, Submitting
    <3> QED
      BY <3>1
  <2>3. CASE RepriceFails(r)
    <3>1. Moves(r, "unconfirmed") \/ Moves(r, "confirmRetry")
      BY <2>3 DEF RepriceFails, RetryConfirm, ConfirmDue, Moves, Waiting, Submitting
    <3> QED
      BY <3>1
  <2> QED
    BY <1>6, <2>1, <2>2, <2>3 DEF ConfirmStep
<1>7. ASSUME NEW r \in Request, HandleStep(r) PROVE Goal
  <2>1. CASE HandleConfirmed(r)
    <3>1. Moves(r, "answered")
      BY <2>1 DEF HandleConfirmed, Answer, Moves, Waiting, Submitting
    <3> QED
      BY <3>1
  <2>2. CASE HandleRejected(r) /\ Requeues(r)
    <3>1. RequeueStep(r)
      BY <2>2 DEF HandleRejected, Requeues, RequeueStep
    <3> QED
      BY <3>1
  <2>3. CASE HandleRejected(r) /\ ~Requeues(r)
    <3>1. Moves(r, "answered")
      BY <2>3 DEF HandleRejected, Answer, Moves, Waiting, Submitting
    <3> QED
      BY <3>1
  <2>4. CASE HandleUnconfirmed(r)
    BY <2>4 DEF HandleUnconfirmed, Stays
  <2> QED
    BY <1>7, <2>1, <2>2, <2>3, <2>4 DEF HandleStep
<1>8. ASSUME NEW r \in Request, RetryDue(r) PROVE Goal
  <2>1. Moves(r, "submitDue") \/ Moves(r, "confirmDue")
    BY <1>8 DEF RetryDue, Moves, Waiting, Submitting
  <2> QED
    BY <2>1
<1>9. ASSUME NEW r \in Request, Settle(r) PROVE Goal
  <2>1. PICK outcome \in {"confirmed", "rejected", "rejectedNonce", "unconfirmed", "confirmRetry"} :
          WaitSettles(r, outcome)
    BY <1>9 DEF Settle, WaitConfirms, WaitTimesOut, WaitFails, RetryConfirm
  <2>2. Moves(r, outcome)
    BY <2>1 DEF WaitSettles, Moves, Waiting, Submitting
  <2> QED
    BY <2>2
<1> QED
  BY <1>1, <1>2, <1>3, <1>4, <1>5, <1>6, <1>7, <1>8, <1>9 DEF Next, Run, Cancel

\* The new stages are typed and differ at one request only.
LEMMA StageMove ==
    ASSUME stage \in [Request -> Stages], NEW r \in Request, NEW b, stage' = [stage EXCEPT ![r] = b]
    PROVE  /\ stage'[r] = b
           /\ \A q \in Request : q # r => stage'[q] = stage[q]
           /\ \A q \in Request : stage'[q] = IF q = r THEN b ELSE stage[q]
OBVIOUS

\* The part of TypeInv the queues' proofs use.
LEMMA QueueTypes ==
    ASSUME TypeInv
    PROVE  /\ stage \in [Request -> Stages] /\ requeues \in [Request -> 0..MaxTries]
           /\ newRequests \in Seq(Request) /\ submitNew \in Seq(Request) /\ confirmNew \in Seq(Request)
BY DEF TypeInv, TypeOK

LEMMA QueueStep == TypeInv /\ QueueInv /\ [Next]_vars => QueueInv'
<1> SUFFICES ASSUME TypeInv, QueueInv, [Next]_vars PROVE QueueInv'
  OBVIOUS
<1>t. /\ stage \in [Request -> Stages]
      /\ newRequests \in Seq(Request) /\ submitNew \in Seq(Request) /\ confirmNew \in Seq(Request)
  BY QueueTypes
<1>1. CASE Stays
  BY <1>1 DEF Stays, QueueInv, At, queues
<1>2. ASSUME NEW r \in Request, NEW b \in Stages, Moves(r, b) PROVE QueueInv'
  <2>1. \A q \in Request : stage'[q] = IF q = r THEN b ELSE stage[q]
    BY <1>t, <1>2, StageMove DEF Moves
  <2>2. \A q \in Request : stage[q] = "requested" <=> stage'[q] = "requested"
    BY <1>2, <2>1 DEF Moves, Waiting
  <2>3. \A q \in Request : stage[q] = "submitNew" <=> stage'[q] = "submitNew"
    BY <1>2, <2>1 DEF Moves, Waiting
  <2>4. \A q \in Request : stage[q] = "confirmNew" <=> stage'[q] = "confirmNew"
    BY <1>2, <2>1 DEF Moves, Waiting
  <2>5. UNCHANGED <<newRequests, submitNew, confirmNew>>
    BY <1>2 DEF Moves, queues
  <2>6. \A q \in Request : stage'[q] \in Submitting => stage[q] \in Submitting
    BY <1>2, <2>1 DEF Moves
  <2>7. \A q \in Request : stage'[q] = "submitted" => stage[q] = "submitted" /\ pc' = "submitted"
    BY <1>2, <2>1 DEF Moves, QueueInv
  <2>8. \A q \in Request : stage'[q] = "submitFailing" => pc' = "resync"
    <3>1. \A q \in Request : stage'[q] = "submitFailing" => stage[q] = "submitFailing" /\ q # r
      BY <1>2, <2>1 DEF Moves
    <3> QED
      BY <1>2, <3>1 DEF Moves, QueueInv, Submitting
  <2> QED
    BY <2>2, <2>3, <2>4, <2>5, <2>6, <2>7, <2>8 DEF QueueInv, At
<1>3. ASSUME NEW r \in Request, NEW b \in Stages, Submits(r, b) PROVE QueueInv'
  <2>1. \A q \in Request : stage'[q] = IF q = r THEN b ELSE stage[q]
    BY <1>t, <1>3, StageMove DEF Submits
  <2>2. b \in {"invalid", "submitted", "submitFailing"}
    BY <1>3 DEF Submits
  <2>3. stage[r] \in {"submitDue", "submitNew"} /\ Elements(submitNew') = At("submitNew")' /\ Injective(submitNew')
    <3>1. CASE stage[r] = "submitDue" /\ UNCHANGED submitNew
      BY <2>1, <2>2, <3>1 DEF QueueInv, At
    <3>2. CASE submitNew # <<>> /\ r = Head(submitNew) /\ submitNew' = Tail(submitNew)
      <4>1. /\ Elements(submitNew) = Elements(submitNew') \cup {r}
            /\ Injective(submitNew') /\ r \notin Elements(submitNew')
        BY <1>t, <3>2, TailFacts DEF QueueInv
      <4>2. stage[r] = "submitNew"
        BY <4>1 DEF QueueInv, At
      <4>3. At("submitNew")' = At("submitNew") \ {r}
        BY <2>1, <2>2 DEF At
      <4> QED
        BY <4>1, <4>2, <4>3 DEF QueueInv
    <3> QED
      BY <1>3, <3>1, <3>2 DEF Submits
  <2>4. At("requested")' = At("requested") /\ At("confirmNew")' = At("confirmNew")
    BY <2>1, <2>2, <2>3 DEF At
  <2>5. UNCHANGED <<newRequests, confirmNew>>
    BY <1>3 DEF Submits
  <2>6. \A q \in Request : stage[q] \notin {"submitFailing", "submitted"}
    BY <1>3 DEF Submits, QueueInv
  <2>7. \A p, q \in Request : stage'[p] \in Submitting /\ stage'[q] \in Submitting => p = q
    <3>1. CASE b # "submitFailing"
      BY <2>1, <2>2, <3>1 DEF QueueInv, Submitting
    <3>2. CASE b = "submitFailing"
      <4>1. \A q \in Request : q # r => stage[q] \notin Submitting
        BY <1>3, <2>6 DEF Submits, QueueInv, Submitting, SubmitBusy
      <4> QED
        BY <2>1, <4>1
    <3> QED
      BY <3>1, <3>2
  <2>8. \A q \in Request : /\ stage'[q] = "submitFailing" => q = r /\ pc' = "resync"
                           /\ stage'[q] = "submitted" => q = r /\ pc' = "submitted"
    BY <1>3, <2>1, <2>2, <2>6 DEF Submits
  <2> QED
    BY <2>3, <2>4, <2>5, <2>7, <2>8 DEF QueueInv
<1>4. CASE AddTransaction
  <2>1. PICK r \in Request : stage[r] = "idle" /\ newRequests' = Append(newRequests, r)
                             /\ stage' = [stage EXCEPT ![r] = "requested"]
                             /\ UNCHANGED <<pc, submitNew, confirmNew>>
    BY <1>4 DEF AddTransaction
  <2>2. \A q \in Request : stage'[q] = IF q = r THEN "requested" ELSE stage[q]
    BY <1>t, <2>1, StageMove
  <2>3. /\ At("requested")' = At("requested") \cup {r}
        /\ At("submitNew")' = At("submitNew") /\ At("confirmNew")' = At("confirmNew")
    BY <2>1, <2>2 DEF At
  <2>4. r \notin Elements(newRequests)
    BY <2>1 DEF QueueInv, At
  <2>5. Elements(newRequests') = Elements(newRequests) \cup {r} /\ Injective(newRequests')
    BY <1>t, <2>1, <2>4, AppendFacts DEF QueueInv
  <2> QED
    BY <2>1, <2>2, <2>3, <2>5 DEF QueueInv, Submitting
<1>5. CASE ProcessNewRequests
  <2> DEFINE n == IF Len(newRequests) < walletCapacity THEN Len(newRequests) ELSE walletCapacity
             taken == SubSeq(newRequests, 1, n)
             left == SubSeq(newRequests, n + 1, Len(newRequests))
  <2>1. n \in 0..Len(newRequests)
    BY <1>t, CapacityType
  <2>2. /\ newRequests' = left /\ submitNew' = submitNew \o taken
        /\ stage' = [r \in Request |-> IF \E j \in 1..n : taken[j] = r THEN "submitNew" ELSE stage[r]]
        /\ pc = "take" /\ pc' = "submit" /\ UNCHANGED confirmNew
    BY <1>5 DEF ProcessNewRequests
  <2> HIDE DEF n
  <2>3. /\ taken \in Seq(Request) /\ left \in Seq(Request) /\ DOMAIN taken = 1..n
        /\ Elements(newRequests) = Elements(taken) \cup Elements(left)
        /\ Injective(taken) /\ Injective(left) /\ Elements(taken) \cap Elements(left) = {}
    BY <1>t, <2>1, CutFacts DEF QueueInv
  <2> HIDE DEF taken, left
  <2>4. \A r \in Request : stage'[r] = IF r \in Elements(taken) THEN "submitNew" ELSE stage[r]
    BY <2>2, <2>3 DEF Elements
  <2>5. Elements(taken) \subseteq At("requested") /\ Elements(left) \subseteq At("requested")
    BY <2>3 DEF QueueInv
  <2>6. At("requested")' = Elements(left)
    BY <2>3, <2>4 DEF QueueInv, At
  <2>7. At("submitNew")' = At("submitNew") \cup Elements(taken) /\ At("confirmNew")' = At("confirmNew")
    BY <2>4, <2>5 DEF At
  <2>8. Elements(submitNew) \cap Elements(taken) = {}
    BY <2>5 DEF QueueInv, At
  <2>9. /\ Elements(submitNew') = Elements(submitNew) \cup Elements(taken)
        /\ Injective(submitNew')
    BY <1>t, <2>2, <2>3, <2>8, ConcatFacts DEF QueueInv
  <2>10. \A r \in Request : stage'[r] \in Submitting \cup {"submitted"} => stage'[r] = stage[r]
    BY <2>4 DEF Submitting
  <2> QED
    BY <2>2, <2>3, <2>6, <2>7, <2>9, <2>10 DEF QueueInv, Submitting
<1>6. CASE CollectSubmitted
  <2> DEFINE submitted == At("submitted")
  <2>1. /\ pc = "submitted"
        /\ confirmNew' = IF submitted = {} THEN confirmNew
                         ELSE Append(confirmNew, CHOOSE r \in submitted : TRUE)
        /\ UNCHANGED <<newRequests, submitNew>>
    BY <1>6 DEF CollectSubmitted, At
  <2>2. \A r \in Request : stage'[r] = CASE stage[r] = "invalid" -> "answered"
                                         [] stage[r] = "submitted" -> "confirmNew"
                                         [] OTHER -> stage[r]
    BY <1>6 DEF CollectSubmitted
  <2>3. /\ At("requested")' = At("requested") /\ At("submitNew")' = At("submitNew")
        /\ At("confirmNew")' = At("confirmNew") \cup submitted
    BY <2>2 DEF At
  <2>4. Elements(confirmNew') = At("confirmNew") \cup submitted /\ Injective(confirmNew')
    <3>1. CASE submitted = {}
      BY <2>1, <3>1 DEF QueueInv
    <3>2. CASE submitted # {}
      <4>1. PICK r \in submitted : r = CHOOSE q \in submitted : TRUE
        BY <3>2
      <4>2. submitted = {r} /\ r \in Request /\ r \notin Elements(confirmNew)
        BY <4>1 DEF QueueInv, At
      <4>3. confirmNew' = Append(confirmNew, r)
        BY <2>1, <3>2, <4>1
      <4> HIDE DEF submitted
      <4> QED
        BY <1>t, <4>2, <4>3, AppendFacts DEF QueueInv
    <3> QED
      BY <3>1, <3>2
  <2>5. \A r \in Request : /\ stage'[r] # "submitted" /\ stage'[r] # "submitFailing"
                           /\ stage'[r] \in Submitting => stage[r] \in Submitting
    BY <2>1, <2>2 DEF Submitting, QueueInv
  <2> HIDE DEF submitted
  <2> QED
    BY <2>1, <2>3, <2>4, <2>5 DEF QueueInv
<1>7. ASSUME NEW r \in Request, StartWaiting(r) PROVE QueueInv'
  <2>1. /\ pc = "confirm" /\ pc' = "collect" /\ confirmNew # <<>> /\ r = Head(confirmNew)
        /\ confirmNew' = Tail(confirmNew) /\ UNCHANGED <<newRequests, submitNew>>
    BY <1>7 DEF StartWaiting
  <2>2. \A q \in Request : stage'[q] = IF q = r THEN "waiting" ELSE stage[q]
    BY <1>t, <1>7, StageMove DEF StartWaiting
  <2>3. /\ Elements(confirmNew) = Elements(confirmNew') \cup {r}
        /\ Injective(confirmNew') /\ r \notin Elements(confirmNew')
    BY <1>t, <2>1, TailFacts DEF QueueInv
  <2>4. stage[r] = "confirmNew"
    BY <2>3 DEF QueueInv, At
  <2>5. /\ At("requested")' = At("requested") /\ At("submitNew")' = At("submitNew")
        /\ At("confirmNew")' = At("confirmNew") \ {r}
    BY <2>2, <2>4 DEF At
  <2>6. \A q \in Request : stage'[q] \in Submitting \cup {"submitted"} => stage'[q] = stage[q]
    BY <2>2 DEF Submitting
  <2>7. \A q \in Request : stage'[q] \notin {"submitFailing", "submitted"}
    BY <2>1, <2>6 DEF QueueInv, Submitting
  <2>8. Elements(confirmNew') = At("confirmNew")'
    BY <2>3, <2>5 DEF QueueInv
  <2>9. /\ Elements(newRequests') = At("requested")' /\ Injective(newRequests')
        /\ Elements(submitNew') = At("submitNew")' /\ Injective(submitNew')
    BY <2>1, <2>5 DEF QueueInv
  <2>10. \A p, q \in Request : stage'[p] \in Submitting /\ stage'[q] \in Submitting => p = q
    BY <2>6 DEF QueueInv
  <2> QED
    BY <2>3, <2>7, <2>8, <2>9, <2>10 DEF QueueInv
<1>8. ASSUME NEW r \in Request, RequeueStep(r) PROVE QueueInv'
  <2>1. \A q \in Request : stage'[q] = IF q = r THEN "submitNew" ELSE stage[q]
    BY <1>t, <1>8, StageMove DEF RequeueStep
  <2>2. /\ At("requested")' = At("requested") /\ At("confirmNew")' = At("confirmNew")
        /\ At("submitNew")' = At("submitNew") \cup {r} /\ r \notin At("submitNew")
    BY <1>8, <2>1 DEF At, RequeueStep
  <2>3. Elements(submitNew') = Elements(submitNew) \cup {r} /\ Injective(submitNew')
    BY <1>t, <1>8, <2>2, AppendFacts DEF QueueInv, RequeueStep
  <2> QED
    BY <1>8, <2>1, <2>2, <2>3 DEF QueueInv, Submitting, RequeueStep
<1> QED
  BY <1>1, <1>2, <1>3, <1>4, <1>5, <1>6, <1>7, <1>8, Shapes

-----------------------------------------------------------------------------
(* Capacity: the requests taken and not answered.                          *)

InQueue == InSubmitQueue \cup InConfirmQueue

LEMMA CapacityIsCount ==
    /\ IsFiniteSet(InQueue) /\ Cardinality(InQueue) \in Nat
    /\ Cardinality(InSubmitQueue) + Cardinality(InConfirmQueue) = Cardinality(InQueue)
<1>1. InSubmitQueue \in SUBSET Request /\ InConfirmQueue \in SUBSET Request
  BY DEF InSubmitQueue, InConfirmQueue
<1>2. /\ IsFiniteSet(InSubmitQueue) /\ Cardinality(InSubmitQueue) \in Nat
      /\ IsFiniteSet(InConfirmQueue) /\ Cardinality(InConfirmQueue) \in Nat
  BY <1>1, RequestsFinite
<1>3. InSubmitQueue \cap InConfirmQueue = {}
  BY DEF InSubmitQueue, InConfirmQueue
<1>4. Cardinality({}) = 0
  BY FS_EmptySet
<1>5. Cardinality(InQueue) = Cardinality(InSubmitQueue) + Cardinality(InConfirmQueue)
  <2>1. Cardinality(InSubmitQueue \cup InConfirmQueue)
          = Cardinality(InSubmitQueue) + Cardinality(InConfirmQueue)
            - Cardinality(InSubmitQueue \cap InConfirmQueue)
    BY <1>2, FS_Union
  <2>2. Cardinality(InSubmitQueue \cap InConfirmQueue) = 0
    BY <1>3, <1>4
  <2>3. \A a, b, c \in Nat : c = 0 => a + b - c = a + b
    OBVIOUS
  <2> QED
    BY <1>2, <2>1, <2>2, <2>3 DEF InQueue
<1>6. InQueue \in SUBSET Request
  BY <1>1 DEF InQueue
<1> QED
  BY <1>2, <1>5, <1>6, RequestsFinite

LEMMA ElementsType ==
    ASSUME NEW S, NEW s \in Seq(S)
    PROVE  Elements(s) \in SUBSET S
BY DEF Elements

\* The elements of a sequence of length n are at most n.
LEMMA ElementsCount ==
    ASSUME NEW S, NEW s \in Seq(S), NEW n \in Nat, DOMAIN s = 1..n, IsFiniteSet(Elements(s))
    PROVE  Cardinality(Elements(s)) <= n
<1>1. s \in [1..n -> Elements(s)]
  BY DEF Elements
<1>2. s \in Surjection(1..n, Elements(s))
  BY <1>1 DEF Surjection, Elements
<1> QED
  BY <1>2, FS_SurjCardinalityBound DEF ExistsSurjection

LEMMA CapacityStep ==
    TypeInv /\ TypeInv' /\ QueueInv /\ CapacityRespected /\ [Next]_vars => CapacityRespected'
<1> SUFFICES ASSUME TypeInv, TypeInv', QueueInv, CapacityRespected, [Next]_vars
             PROVE  CapacityRespected'
  OBVIOUS
<1>t. /\ stage \in [Request -> Stages] /\ newRequests \in Seq(Request)
  BY QueueTypes
<1>c. /\ IsFiniteSet(InQueue) /\ Cardinality(InQueue) \in Nat
      /\ CapacityRespected <=> Cardinality(InQueue) <= MaxPending
  BY CapacityIsCount DEF CapacityRespected
<1>d. CapacityRespected' <=> Cardinality(InQueue') <= MaxPending
  <2>1. (Cardinality(InSubmitQueue) + Cardinality(InConfirmQueue) = Cardinality(InQueue))'
    BY CapacityIsCount, PTL
  <2> QED
    BY <2>1 DEF CapacityRespected
<1>w. \A r \in Request : r \in InQueue <=> stage[r] \notin {"idle", "requested", "answered"}
  BY <1>t DEF InQueue, InSubmitQueue, InConfirmQueue, Stages
<1>v. \A r \in Request : r \in InQueue' <=> stage'[r] \notin {"idle", "requested", "answered"}
  <2>1. stage' \in [Request -> Stages]
    BY DEF TypeInv, TypeOK
  <2> QED
    BY <2>1 DEF InQueue, InSubmitQueue, InConfirmQueue, Stages
<1>s. InQueue \subseteq Request /\ InQueue' \subseteq Request
  BY DEF InQueue, InSubmitQueue, InConfirmQueue
<1>m. ASSUME InQueue' \subseteq InQueue PROVE CapacityRespected'
  <2>1. Cardinality(InQueue') <= Cardinality(InQueue) /\ Cardinality(InQueue') \in Nat
    BY <1>c, <1>m, <1>s, FS_Subset, RequestsFinite
  <2> QED
    BY <1>c, <1>d, <2>1, WalletAssumption
<1>1. CASE Stays
  BY <1>1, <1>m, <1>s, <1>v, <1>w DEF Stays
<1>2. ASSUME NEW r \in Request, NEW b \in Stages, Moves(r, b) PROVE CapacityRespected'
  <2>1. \A q \in Request : stage'[q] = IF q = r THEN b ELSE stage[q]
    BY <1>t, <1>2, StageMove DEF Moves
  <2>2. stage[r] \notin {"idle", "requested", "answered"}
    BY <1>2 DEF Moves, Waiting
  <2> QED
    BY <1>m, <1>s, <1>v, <1>w, <2>1, <2>2
<1>3. ASSUME NEW r \in Request, NEW b \in Stages, Submits(r, b) PROVE CapacityRespected'
  <2>1. \A q \in Request : stage'[q] = IF q = r THEN b ELSE stage[q]
    BY <1>t, <1>3, StageMove DEF Submits
  <2>2. stage[r] \in {"submitDue", "submitNew"}
    <3>1. ASSUME submitNew # <<>>, r = Head(submitNew) PROVE stage[r] = "submitNew"
      <4>1. submitNew \in Seq(Request)
        BY QueueTypes
      <4>2. r \in Elements(submitNew)
        BY <3>1, <4>1, TailFacts
      <4> QED
        BY <4>2 DEF QueueInv, At
    <3> QED
      BY <1>3, <3>1 DEF Submits
  <2> QED
    BY <1>m, <1>s, <1>v, <1>w, <2>1, <2>2
<1>4. CASE AddTransaction
  <2>1. PICK r \in Request : stage[r] = "idle" /\ stage' = [stage EXCEPT ![r] = "requested"]
    BY <1>4 DEF AddTransaction
  <2>2. \A q \in Request : stage'[q] = IF q = r THEN "requested" ELSE stage[q]
    BY <1>t, <2>1, StageMove
  <2> QED
    BY <1>m, <1>s, <1>v, <1>w, <2>2
<1>5. CASE ProcessNewRequests
  <2> DEFINE n == IF Len(newRequests) < walletCapacity THEN Len(newRequests) ELSE walletCapacity
             taken == SubSeq(newRequests, 1, n)
             used == Cardinality(InSubmitQueue) + Cardinality(InConfirmQueue)
  <2>1. n \in 0..Len(newRequests) /\ n \in Nat /\ n <= walletCapacity
    BY <1>t, CapacityType
  <2>2. walletCapacity = IF used < MaxPending THEN MaxPending - used ELSE 0
    BY DEF walletCapacity
  <2>3. used = Cardinality(InQueue)
    BY CapacityIsCount
  <2>4. stage' = [r \in Request |-> IF \E j \in 1..n : taken[j] = r THEN "submitNew" ELSE stage[r]]
    BY <1>5 DEF ProcessNewRequests
  <2> HIDE DEF n, used
  <2>5. taken \in Seq(Request) /\ DOMAIN taken = 1..n
    BY <1>t, <2>1, CutFacts
  <2> HIDE DEF taken
  <2>6. \A r \in Request : stage'[r] = IF r \in Elements(taken) THEN "submitNew" ELSE stage[r]
    BY <2>4, <2>5 DEF Elements
  <2>7. Elements(taken) \in SUBSET Request
    BY <2>5, ElementsType
  <2>8. IsFiniteSet(Elements(taken)) /\ Cardinality(Elements(taken)) \in Nat
    BY <2>7, RequestsFinite
  <2>9. Cardinality(Elements(taken)) <= n
    BY <2>1, <2>5, <2>8, ElementsCount
  <2>10. InQueue' = InQueue \cup Elements(taken)
    BY <1>s, <1>v, <1>w, <2>6, <2>7
  <2>11. InQueue \cap Elements(taken) \in SUBSET Request
    BY <1>s
  <2>12. Cardinality(InQueue \cap Elements(taken)) \in Nat
    BY <2>11, RequestsFinite
  <2>13. Cardinality(InQueue') = Cardinality(InQueue) + Cardinality(Elements(taken))
                                 - Cardinality(InQueue \cap Elements(taken))
    BY <1>c, <2>8, <2>10, FS_Union
  <2> QED
    BY <1>c, <1>d, <2>1, <2>2, <2>3, <2>8, <2>9, <2>12, <2>13, WalletAssumption
<1>6. CASE CollectSubmitted
  <2>1. \A r \in Request : stage'[r] = CASE stage[r] = "invalid" -> "answered"
                                         [] stage[r] = "submitted" -> "confirmNew"
                                         [] OTHER -> stage[r]
    BY <1>6 DEF CollectSubmitted
  <2> QED
    BY <1>m, <1>s, <1>v, <1>w, <2>1
<1>7. ASSUME NEW r \in Request, StartWaiting(r) PROVE CapacityRespected'
  <2>1. \A q \in Request : stage'[q] = IF q = r THEN "waiting" ELSE stage[q]
    BY <1>t, <1>7, StageMove DEF StartWaiting
  <2>2. stage[r] = "confirmNew"
    <3>1. confirmNew \in Seq(Request) /\ confirmNew # <<>> /\ r = Head(confirmNew)
      BY <1>7, QueueTypes DEF StartWaiting
    <3>2. r \in Elements(confirmNew)
      BY <3>1, TailFacts
    <3> QED
      BY <3>2 DEF QueueInv, At
  <2> QED
    BY <1>m, <1>s, <1>v, <1>w, <2>1, <2>2
<1>8. ASSUME NEW r \in Request, RequeueStep(r) PROVE CapacityRespected'
  <2>1. \A q \in Request : stage'[q] = IF q = r THEN "submitNew" ELSE stage[q]
    BY <1>t, <1>8, StageMove DEF RequeueStep
  <2> QED
    BY <1>8, <1>m, <1>s, <1>v, <1>w, <2>1 DEF RequeueStep
<1> QED
  BY <1>1, <1>2, <1>3, <1>4, <1>5, <1>6, <1>7, <1>8, Shapes

-----------------------------------------------------------------------------
(* Order.                                                                  *)

LEMMA RankFacts ==
    \A b \in Stages :
        /\ Rank(b) \in 0..4
        /\ Rank(b) = 0 <=> b = "idle"
        /\ Rank(b) = 1 <=> b = "requested"
        /\ Rank(b) = 2 <=> b = "submitNew"
        /\ Rank(b) = 3 <=> b \in Submitting
BY DEF Rank, Stages, Submitting

\* An order that does not move keeps its place when no other one moves up past it.
LEMMA RankKept ==
    ASSUME stage \in [Request -> Stages], OrderInv, UNCHANGED requeues,
           NEW r \in Request, NEW b \in Stages, stage' = [stage EXCEPT ![r] = b],
           Rank(b) >= Rank(stage[r]), b # "requested", stage[r] # "idle",
           \A q \in Request : q < r /\ requeues[q] = 0 /\ requeues[r] = 0 => Rank(b) <= Rank(stage[q])
    PROVE  /\ \A q, s \in Request : q < s /\ stage'[q] = "idle" => stage'[s] = "idle"
           /\ \A s \in Request : stage'[s] \in {"idle", "requested"} => requeues'[s] = 0
           /\ \A q, s \in Request :
                q < s /\ requeues'[q] = 0 /\ requeues'[s] = 0 => Rank(stage'[s]) <= Rank(stage'[q])
<1>1. \A q \in Request : stage'[q] = IF q = r THEN b ELSE stage[q]
  BY StageMove
<1>2. \A q \in Request : stage[q] \in Stages /\ Rank(stage[q]) \in 0..4 /\ Rank(b) \in 0..4
  BY RankFacts
<1>3. b # "idle"
  BY <1>2, RankFacts
<1>4. \A q, s \in Request : q < s /\ stage'[q] = "idle" => stage'[s] = "idle"
  BY <1>1, <1>3 DEF OrderInv
<1>5. \A s \in Request : stage'[s] \in {"idle", "requested"} => requeues'[s] = 0
  BY <1>1, <1>3 DEF OrderInv
<1>6. ASSUME NEW q \in Request, NEW s \in Request, q < s, requeues[q] = 0, requeues[s] = 0
      PROVE  Rank(stage'[s]) <= Rank(stage'[q])
  <2>1. Rank(stage[s]) <= Rank(stage[q])
    BY <1>6 DEF OrderInv
  <2>2. q # s
    BY <1>6 DEF Request
  <2> QED
    BY <1>1, <1>2, <1>6, <2>1, <2>2
<1> QED
  BY <1>4, <1>5, <1>6

LEMMA OrderStep == TypeInv /\ QueueInv /\ OrderInv /\ [Next]_vars => OrderInv'
<1> SUFFICES ASSUME TypeInv, QueueInv, OrderInv, [Next]_vars PROVE OrderInv'
  OBVIOUS
<1>t. /\ stage \in [Request -> Stages] /\ requeues \in [Request -> 0..MaxTries]
      /\ newRequests \in Seq(Request) /\ submitNew \in Seq(Request) /\ confirmNew \in Seq(Request)
  BY QueueTypes
<1>r. \A r \in Request : stage[r] \in Stages /\ Rank(stage[r]) \in 0..4
  BY <1>t, RankFacts
<1>1. CASE Stays
  BY <1>1 DEF Stays, OrderInv, queues
<1>2. ASSUME NEW r \in Request, NEW b \in Stages, Moves(r, b) PROVE OrderInv'
  <2>1. /\ stage[r] \notin Waiting \cup {"idle"} /\ b \notin Waiting \cup {"idle"}
        /\ b \in Submitting => stage[r] \in Submitting
        /\ stage' = [stage EXCEPT ![r] = b]
        /\ UNCHANGED <<newRequests, submitNew, requeues>>
    BY <1>2 DEF Moves, queues
  <2>2. Rank(b) \in 3..4 /\ Rank(stage[r]) \in 3..4 /\ (Rank(b) = 3 => Rank(stage[r]) = 3)
    BY <1>r, <2>1, RankFacts DEF Waiting
  <2>3. ASSUME NEW q \in Request, q < r, requeues[q] = 0, requeues[r] = 0
        PROVE  Rank(b) <= Rank(stage[q])
    <3>1. Rank(stage[r]) <= Rank(stage[q]) /\ q # r
      BY <2>3 DEF OrderInv, Request
    <3>2. ~(stage[r] \in Submitting /\ stage[q] \in Submitting)
      BY <3>1 DEF QueueInv
    <3> QED
      BY <1>r, <2>2, <3>1, <3>2, RankFacts
  <2>4. /\ \A q, s \in Request : q < s /\ stage'[q] = "idle" => stage'[s] = "idle"
        /\ \A s \in Request : stage'[s] \in {"idle", "requested"} => requeues'[s] = 0
        /\ \A q, s \in Request :
              q < s /\ requeues'[q] = 0 /\ requeues'[s] = 0 => Rank(stage'[s]) <= Rank(stage'[q])
    <3>1. b # "requested" /\ stage[r] # "idle" /\ Rank(b) >= Rank(stage[r])
      BY <2>1, <2>2 DEF Waiting
    <3>2. \A q \in Request : q < r /\ requeues[q] = 0 /\ requeues[r] = 0 => Rank(b) <= Rank(stage[q])
      BY <2>3
    <3> QED
      BY <1>t, <2>1, <3>1, <3>2, RankKept
  <2> QED
    BY <2>1, <2>4 DEF OrderInv
<1>3. ASSUME NEW r \in Request, NEW b \in Stages, Submits(r, b) PROVE OrderInv'
  <2>1. /\ stage' = [stage EXCEPT ![r] = b] /\ b \in {"invalid", "submitted", "submitFailing"}
        /\ UNCHANGED <<newRequests, requeues>>
    BY <1>3 DEF Submits
  <2>2. \A q \in Request : stage[q] # "submitFailing"
    BY <1>3 DEF Submits, QueueInv
  <2>3. Rank(b) \in 3..4 /\ (Rank(b) = 3 => b = "submitFailing")
    BY <2>1, RankFacts DEF Submitting
  <2>4. /\ stage[r] \in {"submitDue", "submitNew"}
        /\ \A q \in Request : q < r /\ requeues[q] = 0 /\ requeues[r] = 0 => Rank(stage[q]) = 4
        /\ \A j, k \in DOMAIN submitNew' :
              j < k /\ requeues[submitNew'[j]] = 0 /\ requeues[submitNew'[k]] = 0
              => submitNew'[j] < submitNew'[k]
    <3>1. CASE stage[r] = "submitDue" /\ UNCHANGED submitNew
      <4>1. \A j, k \in DOMAIN submitNew' :
              j < k /\ requeues[submitNew'[j]] = 0 /\ requeues[submitNew'[k]] = 0
              => submitNew'[j] < submitNew'[k]
        BY <3>1 DEF OrderInv
      <4>2. ASSUME NEW q \in Request, q < r, requeues[q] = 0, requeues[r] = 0
            PROVE  Rank(stage[q]) = 4
        <5>1. Rank(stage[r]) <= Rank(stage[q]) /\ q # r
          BY <4>2 DEF OrderInv, Request
        <5>2. Rank(stage[r]) = 3 /\ stage[q] \notin Submitting
          BY <1>r, <3>1, <5>1, RankFacts DEF QueueInv, Submitting
        <5> QED
          BY <1>r, <5>1, <5>2, RankFacts
      <4> QED
        BY <3>1, <4>1, <4>2
    <3>2. CASE ~SubmitBusy /\ submitNew # <<>> /\ r = Head(submitNew) /\ submitNew' = Tail(submitNew)
      <4>1. /\ 1 \in DOMAIN submitNew /\ r = submitNew[1] /\ r \in Elements(submitNew)
            /\ \A j \in DOMAIN submitNew' : j + 1 \in DOMAIN submitNew /\ submitNew'[j] = submitNew[j + 1]
            /\ DOMAIN submitNew' \subseteq Nat /\ DOMAIN submitNew \subseteq Nat \ {0}
        BY <1>t, <3>2, TailFacts
      <4>2. stage[r] = "submitNew"
        BY <4>1 DEF QueueInv, At
      <4>3. ASSUME NEW q \in Request, q < r, requeues[q] = 0, requeues[r] = 0
            PROVE  Rank(stage[q]) = 4
        <5>1. Rank(stage[r]) <= Rank(stage[q]) /\ Rank(stage[r]) = 2 /\ q # r
          BY <1>r, <4>2, <4>3, RankFacts DEF OrderInv, Request
        <5>2. stage[q] \notin Submitting
          BY <2>2, <3>2 DEF SubmitBusy, Submitting
        <5>3. stage[q] # "submitNew"
          <6> SUFFICES ASSUME stage[q] = "submitNew" PROVE FALSE
            OBVIOUS
          <6>1. PICK j \in DOMAIN submitNew : submitNew[j] = q
            BY DEF QueueInv, At, Elements
          <6>2. j \in Nat /\ j > 1
            BY <4>1, <5>1, <6>1
          <6>3. r < q
            BY <4>1, <4>3, <6>1, <6>2 DEF OrderInv
          <6> QED
            BY <4>3, <6>3 DEF Request
        <5> QED
          BY <1>r, <5>1, <5>2, <5>3, RankFacts
      <4>4. ASSUME NEW j \in DOMAIN submitNew', NEW k \in DOMAIN submitNew', j < k,
                   requeues[submitNew'[j]] = 0, requeues[submitNew'[k]] = 0
            PROVE  submitNew'[j] < submitNew'[k]
        <5>1. j + 1 < k + 1 /\ j + 1 \in DOMAIN submitNew /\ k + 1 \in DOMAIN submitNew
          BY <4>1, <4>4
        <5> QED
          BY <4>1, <4>4, <5>1 DEF OrderInv
      <4> QED
        BY <4>2, <4>3, <4>4
    <3> QED
      BY <1>3, <3>1, <3>2 DEF Submits
  <2>5. /\ \A q, s \in Request : q < s /\ stage'[q] = "idle" => stage'[s] = "idle"
        /\ \A s \in Request : stage'[s] \in {"idle", "requested"} => requeues'[s] = 0
        /\ \A q, s \in Request :
              q < s /\ requeues'[q] = 0 /\ requeues'[s] = 0 => Rank(stage'[s]) <= Rank(stage'[q])
    <3>1. Rank(b) >= Rank(stage[r])
      BY <1>r, <2>3, <2>4, RankFacts DEF Submitting
    <3>2. \A q \in Request : q < r /\ requeues[q] = 0 /\ requeues[r] = 0 => Rank(b) <= Rank(stage[q])
      BY <2>3, <2>4
    <3> QED
      BY <1>t, <2>1, <2>4, <3>1, <3>2, RankKept
  <2> QED
    BY <2>1, <2>4, <2>5 DEF OrderInv
<1>4. CASE AddTransaction
  <2>1. PICK r \in Request :
            /\ stage[r] = "idle" /\ (r > 1 => stage[r - 1] # "idle")
            /\ newRequests' = Append(newRequests, r)
            /\ stage' = [stage EXCEPT ![r] = "requested"]
            /\ UNCHANGED <<submitNew, requeues>>
    BY <1>4 DEF AddTransaction
  <2>2. \A q \in Request : stage'[q] = IF q = r THEN "requested" ELSE stage[q]
    BY <1>t, <2>1, StageMove
  <2>3. \A q \in Request : q < r => stage[q] # "idle"
    <3> SUFFICES ASSUME NEW q \in Request, q < r, stage[q] = "idle" PROVE FALSE
      OBVIOUS
    <3>1. r - 1 \in Request /\ (q = r - 1 \/ q < r - 1) /\ r > 1
      BY WalletAssumption DEF Request
    <3> QED
      BY <2>1, <3>1 DEF OrderInv
  <2>4. \A q \in Request : r < q => stage[q] = "idle"
    BY <2>1 DEF OrderInv
  <2>5. \A q, s \in Request : q < s /\ stage'[q] = "idle" => stage'[s] = "idle"
    BY <2>2, <2>3 DEF OrderInv
  <2>6. \A s \in Request : stage'[s] \in {"idle", "requested"} => requeues'[s] = 0
    BY <2>1, <2>2 DEF OrderInv
  <2>7. ASSUME NEW q \in Request, NEW s \in Request, q < s, requeues[q] = 0, requeues[s] = 0
        PROVE  Rank(stage'[s]) <= Rank(stage'[q])
    <3>1. Rank(stage[s]) <= Rank(stage[q]) /\ q # s
      BY <2>7 DEF OrderInv, Request
    <3>2. Rank("requested") = 1 /\ "requested" \in Stages
      BY DEF Rank, Stages, Submitting
    <3>3. CASE s = r
      <4>1. Rank(stage[q]) >= 1
        BY <1>r, <2>3, <2>7, <3>3, RankFacts
      <4> QED
        BY <2>2, <3>1, <3>2, <3>3, <4>1
    <3>4. CASE q = r
      <4>1. Rank(stage[s]) = 0
        BY <1>r, <2>4, <2>7, <3>4, RankFacts
      <4> QED
        BY <2>2, <3>1, <3>2, <3>4, <4>1
    <3>5. CASE q # r /\ s # r
      BY <2>2, <3>1, <3>5
    <3> QED
      BY <3>3, <3>4, <3>5
  <2>8. ASSUME NEW j \in DOMAIN newRequests', NEW k \in DOMAIN newRequests', j < k
        PROVE  newRequests'[j] < newRequests'[k]
    <3>1. /\ DOMAIN newRequests' = DOMAIN newRequests \cup {Len(newRequests) + 1}
          /\ \A i \in DOMAIN newRequests : newRequests'[i] = newRequests[i] /\ i < Len(newRequests) + 1
          /\ newRequests'[Len(newRequests) + 1] = r
          /\ DOMAIN newRequests \subseteq Nat /\ Len(newRequests) \in Nat
      BY <1>t, <2>1, AppendFacts
    <3>2. j \in DOMAIN newRequests
      BY <2>8, <3>1
    <3>3. CASE k \in DOMAIN newRequests
      BY <2>8, <3>1, <3>2, <3>3 DEF OrderInv
    <3>4. CASE k = Len(newRequests) + 1
      <4>1. newRequests[j] \in Request /\ stage[newRequests[j]] = "requested"
        BY <3>2 DEF QueueInv, At, Elements
      <4>2. newRequests[j] # r /\ ~(r < newRequests[j])
        BY <2>1, <2>4, <4>1
      <4> QED
        BY <3>1, <3>2, <3>4, <4>1, <4>2 DEF Request
    <3> QED
      BY <3>1, <3>3, <3>4
  <2>9. \A j, k \in DOMAIN submitNew' :
          j < k /\ requeues'[submitNew'[j]] = 0 /\ requeues'[submitNew'[k]] = 0
          => submitNew'[j] < submitNew'[k]
    BY <2>1 DEF OrderInv
  <2>10. \A q, s \in Request :
          q < s /\ requeues'[q] = 0 /\ requeues'[s] = 0 => Rank(stage'[s]) <= Rank(stage'[q])
    BY <2>1, <2>7
  <2> QED
    BY <2>5, <2>6, <2>8, <2>9, <2>10 DEF OrderInv
<1>5. CASE ProcessNewRequests
  <2> DEFINE n == IF Len(newRequests) < walletCapacity THEN Len(newRequests) ELSE walletCapacity
             taken == SubSeq(newRequests, 1, n)
             left == SubSeq(newRequests, n + 1, Len(newRequests))
  <2>1. n \in 0..Len(newRequests) /\ n \in Nat /\ Len(newRequests) \in Nat
        /\ DOMAIN newRequests = 1..Len(newRequests)
    BY <1>t, CapacityType
  <2>2. /\ newRequests' = left /\ submitNew' = submitNew \o taken
        /\ stage' = [r \in Request |-> IF \E j \in 1..n : taken[j] = r THEN "submitNew" ELSE stage[r]]
        /\ UNCHANGED requeues
    BY <1>5 DEF ProcessNewRequests
  <2> HIDE DEF n
  <2>3. /\ taken \in Seq(Request) /\ left \in Seq(Request) /\ DOMAIN taken = 1..n
        /\ DOMAIN left = 1..(Len(newRequests) - n)
        /\ \A j \in 1..n : taken[j] = newRequests[j]
        /\ \A j \in 1..(Len(newRequests) - n) : n + j \in DOMAIN newRequests /\ left[j] = newRequests[n + j]
        /\ Elements(newRequests) = Elements(taken) \cup Elements(left)
    BY <1>t, <2>1, CutFacts DEF QueueInv
  <2> HIDE DEF taken, left
  <2>4. \A r \in Request : stage'[r] = IF r \in Elements(taken) THEN "submitNew" ELSE stage[r]
    BY <2>2, <2>3 DEF Elements
  <2>5. \A r \in Elements(taken) : r \in Request /\ stage[r] = "requested"
    BY <2>3 DEF QueueInv, At
  <2>6. ASSUME NEW q \in Request, NEW r \in Elements(taken), q < r, stage[q] = "requested"
        PROVE  q \in Elements(taken)
    <3>1. PICK i \in DOMAIN newRequests : newRequests[i] = q
      BY <2>6 DEF QueueInv, At, Elements
    <3>2. PICK j \in 1..n : taken[j] = r
      BY <2>3 DEF Elements
    <3>3. j \in DOMAIN newRequests /\ newRequests[j] = r
      BY <2>1, <2>3, <3>2
    <3>4. i < j
      <4> SUFFICES ASSUME ~(i < j) PROVE FALSE
        OBVIOUS
      <4>1. i = j \/ j < i
        BY <2>1, <3>3
      <4>2. r = q \/ r < q
        BY <3>1, <3>3, <4>1 DEF OrderInv
      <4> QED
        BY <2>5, <2>6, <4>2 DEF Request
    <3>5. i \in 1..n
      BY <2>1, <3>2, <3>4
    <3> QED
      BY <2>3, <3>1, <3>5 DEF Elements
  <2>7. \A q, s \in Request : q < s /\ stage'[q] = "idle" => stage'[s] = "idle"
    BY <2>4, <2>5 DEF OrderInv
  <2>8. \A s \in Request : stage'[s] \in {"idle", "requested"} => requeues'[s] = 0
    BY <2>2, <2>4, <2>5 DEF OrderInv
  <2>9. ASSUME NEW q \in Request, NEW s \in Request, q < s, requeues[q] = 0, requeues[s] = 0
        PROVE  Rank(stage'[s]) <= Rank(stage'[q])
    <3>1. Rank(stage[s]) <= Rank(stage[q])
      BY <2>9 DEF OrderInv
    <3>2. Rank("submitNew") = 2 /\ "submitNew" \in Stages
      BY DEF Rank, Stages, Submitting
    <3>3. CASE s \in Elements(taken)
      <4>1. Rank(stage[q]) >= 1 /\ (Rank(stage[q]) = 1 => q \in Elements(taken))
        BY <1>r, <2>5, <2>6, <2>9, <3>1, <3>3, RankFacts
      <4>2. Rank(stage'[s]) = 2
        BY <2>4, <3>2, <3>3
      <4> QED
        BY <1>r, <2>4, <3>2, <4>1, <4>2
    <3>4. CASE s \notin Elements(taken) /\ q \in Elements(taken)
      <4>1. Rank(stage[q]) = 1
        BY <1>r, <2>5, <3>4, RankFacts
      <4> QED
        BY <1>r, <2>4, <3>1, <3>2, <3>4, <4>1
    <3>5. CASE s \notin Elements(taken) /\ q \notin Elements(taken)
      BY <2>4, <3>1, <3>5
    <3> QED
      BY <3>3, <3>4, <3>5
  <2>10. ASSUME NEW j \in DOMAIN newRequests', NEW k \in DOMAIN newRequests', j < k
         PROVE  newRequests'[j] < newRequests'[k]
    <3>1. n + j < n + k
      BY <2>1, <2>2, <2>3, <2>10
    <3> QED
      BY <2>2, <2>3, <2>10, <3>1 DEF OrderInv
  <2>11. ASSUME NEW j \in DOMAIN submitNew', NEW k \in DOMAIN submitNew', j < k,
                requeues[submitNew'[j]] = 0, requeues[submitNew'[k]] = 0
         PROVE  submitNew'[j] < submitNew'[k]
    <3>1. /\ \A i \in DOMAIN submitNew' :
               \/ i \in DOMAIN submitNew /\ submitNew'[i] = submitNew[i]
               \/ i > Len(submitNew) /\ i - Len(submitNew) \in DOMAIN taken
                  /\ submitNew'[i] = taken[i - Len(submitNew)]
          /\ Len(submitNew) \in Nat /\ DOMAIN submitNew = 1..Len(submitNew)
          /\ DOMAIN submitNew' \subseteq Nat
      <4>1. /\ \A i \in DOMAIN (submitNew \o taken) :
                 \/ i \in DOMAIN submitNew /\ (submitNew \o taken)[i] = submitNew[i]
                 \/ i > Len(submitNew) /\ i - Len(submitNew) \in DOMAIN taken
                    /\ (submitNew \o taken)[i] = taken[i - Len(submitNew)]
            /\ submitNew \o taken \in Seq(Request)
        BY <1>t, <2>3, ConcatFacts
      <4>2. Len(submitNew) \in Nat /\ DOMAIN submitNew = 1..Len(submitNew)
        BY <1>t
      <4>3. DOMAIN (submitNew \o taken) \subseteq Nat
        BY <4>1
      <4> QED
        BY <2>2, <4>1, <4>2, <4>3
    <3>2. CASE j \in DOMAIN submitNew /\ k \in DOMAIN submitNew
      BY <2>11, <3>1, <3>2 DEF OrderInv
    <3>3. CASE j \in DOMAIN submitNew /\ k \notin DOMAIN submitNew
      <4>1. submitNew'[j] = submitNew[j] /\ submitNew'[k] \in Elements(taken)
        BY <3>1, <3>3 DEF Elements
      <4>2. submitNew[j] \in Request /\ stage[submitNew[j]] = "submitNew"
        BY <3>3 DEF QueueInv, At, Elements
      <4>3. submitNew'[k] \in Request /\ stage[submitNew'[k]] = "requested"
        BY <2>5, <4>1
      <4>4. ~(submitNew'[k] < submitNew'[j])
        <5>1. Rank(stage[submitNew'[k]]) = 1 /\ Rank(stage[submitNew'[j]]) = 2
          BY <1>r, <4>1, <4>2, <4>3, RankFacts
        <5> QED
          BY <2>11, <4>1, <4>2, <4>3, <5>1 DEF OrderInv
      <4>5. submitNew'[k] # submitNew'[j]
        BY <4>1, <4>2, <4>3
      <4> QED
        BY <4>1, <4>2, <4>3, <4>4, <4>5 DEF Request
    <3>4. CASE j \notin DOMAIN submitNew /\ k \notin DOMAIN submitNew
      <4> DEFINE x == j - Len(submitNew)  y == k - Len(submitNew)
      <4>1. x \in 1..n /\ y \in 1..n /\ submitNew'[j] = taken[x] /\ submitNew'[k] = taken[y] /\ x < y
        BY <2>3, <2>11, <3>1, <3>4
      <4>2. x \in DOMAIN newRequests /\ y \in DOMAIN newRequests
        BY <2>1, <4>1
      <4> QED
        BY <2>3, <4>1, <4>2 DEF OrderInv
    <3>5. j \notin DOMAIN submitNew => k \notin DOMAIN submitNew
      BY <2>11, <3>1
    <3> QED
      BY <3>2, <3>3, <3>4, <3>5
  <2> QED
    BY <2>2, <2>7, <2>8, <2>9, <2>10, <2>11 DEF OrderInv
<1>6. CASE CollectSubmitted
  <2>1. \A r \in Request : stage'[r] = CASE stage[r] = "invalid" -> "answered"
                                         [] stage[r] = "submitted" -> "confirmNew"
                                         [] OTHER -> stage[r]
    BY <1>6 DEF CollectSubmitted
  <2>2. UNCHANGED <<newRequests, submitNew, requeues>>
    BY <1>6 DEF CollectSubmitted
  <2>3. \A r \in Request : /\ Rank(stage'[r]) = Rank(stage[r])
                           /\ stage'[r] \in {"idle", "requested"} => stage'[r] = stage[r]
                           /\ stage[r] = "idle" => stage'[r] = "idle"
    BY <2>1 DEF Rank, Submitting
  <2> QED
    BY <2>2, <2>3 DEF OrderInv
<1>7. ASSUME NEW r \in Request, StartWaiting(r) PROVE OrderInv'
  <2>1. /\ stage' = [stage EXCEPT ![r] = "waiting"] /\ UNCHANGED <<newRequests, submitNew, requeues>>
        /\ confirmNew # <<>> /\ r = Head(confirmNew)
    BY <1>7 DEF StartWaiting
  <2>2. r \in Elements(confirmNew)
    BY <1>t, <2>1, TailFacts
  <2>3. stage[r] = "confirmNew"
    BY <2>2 DEF QueueInv, At
  <2>4. \A q \in Request : stage'[q] = IF q = r THEN "waiting" ELSE stage[q]
    BY <1>t, <2>1, StageMove
  <2>5. \A q \in Request : /\ Rank(stage'[q]) = Rank(stage[q])
                           /\ stage'[q] \in {"idle", "requested"} => stage'[q] = stage[q]
                           /\ stage[q] = "idle" => stage'[q] = "idle"
    BY <2>3, <2>4 DEF Rank, Submitting
  <2> QED
    BY <2>1, <2>5 DEF OrderInv
<1>8. ASSUME NEW r \in Request, RequeueStep(r) PROVE OrderInv'
  <2>1. /\ stage[r] = "rejectedNonce" /\ requeues' = [requeues EXCEPT ![r] = @ + 1]
        /\ submitNew' = Append(submitNew, r) /\ UNCHANGED newRequests
        /\ stage' = [stage EXCEPT ![r] = "submitNew"]
    BY <1>8 DEF RequeueStep
  <2>2. \A q \in Request : stage'[q] = IF q = r THEN "submitNew" ELSE stage[q]
    BY <1>t, <2>1, StageMove
  <2>3. requeues'[r] # 0 /\ \A q \in Request : q # r => requeues'[q] = requeues[q]
    BY <1>t, <2>1
  <2>4. ASSUME NEW j \in DOMAIN submitNew', NEW k \in DOMAIN submitNew', j < k,
               requeues'[submitNew'[j]] = 0, requeues'[submitNew'[k]] = 0
        PROVE  submitNew'[j] < submitNew'[k]
    <3>1. /\ DOMAIN submitNew' = DOMAIN submitNew \cup {Len(submitNew) + 1}
          /\ \A i \in DOMAIN submitNew : submitNew'[i] = submitNew[i]
          /\ submitNew'[Len(submitNew) + 1] = r
      BY <1>t, <2>1, AppendFacts
    <3>2. j \in DOMAIN submitNew /\ k \in DOMAIN submitNew
      BY <2>3, <2>4, <3>1
    <3>3. /\ submitNew[j] \in Request /\ submitNew[k] \in Request
          /\ requeues[submitNew[j]] = 0 /\ requeues[submitNew[k]] = 0
      <4>1. submitNew[j] \in Request /\ submitNew[k] \in Request
        BY <1>t, <3>2
      <4> QED
        BY <2>3, <2>4, <3>1, <3>2, <4>1
    <3> QED
      BY <2>4, <3>1, <3>2, <3>3 DEF OrderInv
  <2>5. \A j, k \in DOMAIN newRequests' : j < k => newRequests'[j] < newRequests'[k]
    BY <2>1 DEF OrderInv
  <2>6. \A q, s \in Request : q < s /\ stage'[q] = "idle" => stage'[s] = "idle"
    BY <2>1, <2>2 DEF OrderInv
  <2>7. \A s \in Request : stage'[s] \in {"idle", "requested"} => requeues'[s] = 0
    BY <2>2, <2>3 DEF OrderInv
  <2>8. \A q, s \in Request :
          q < s /\ requeues'[q] = 0 /\ requeues'[s] = 0 => Rank(stage'[s]) <= Rank(stage'[q])
    BY <2>2, <2>3 DEF OrderInv
  <2> QED
    BY <2>4, <2>5, <2>6, <2>7, <2>8 DEF OrderInv
<1> QED
  BY <1>1, <1>2, <1>3, <1>4, <1>5, <1>6, <1>7, <1>8, Shapes

-----------------------------------------------------------------------------
(* The shapes of a step: what it does to the nonces and the chain.         *)

\* A request moves forward only: it is sent by a submission, it never comes
\* back from an answer, and an error that names its nonce says what it says, or
\* the request is misjudged.
Onward(q) ==
    /\ Rank(stage[q]) <= Rank(stage'[q])
    /\ stage[q] \in {"invalid", "answered"} => stage'[q] \in {"invalid", "answered"}
    /\ stage'[q] = "rejectedNonce" =>
          q \in misjudged' \/ stage[q] = "rejectedNonce" \/ (nonce[q] < latest /\ ~MinedFor(q))
    /\ stage'[q] \in Sent => stage[q] \in Sent

Keeps ==
    /\ UNCHANGED <<nonce, mined, latest, drops>> /\ misjudged \subseteq misjudged'
    /\ \A q \in Request : Onward(q)

\* A transaction of request r reaches the node, though r may not learn of it.
Reaches(n, r, k) ==
    /\ Keeps /\ UNCHANGED txNonce
    /\ Accepts(n) /\ Place(n, r, k) /\ k # "none"
    /\ k \in {"original", "replacement"} =>
          /\ r \in Request
          /\ \/ Rank(stage[r]) < 4 /\ stage'[r] = "invalid"
             \/ n = nonce[r] /\ stage[r] = "confirmDue"

LEMMA OnwardMove ==
    ASSUME stage \in [Request -> Stages], NEW r \in Request, NEW b \in Stages,
           stage' = [stage EXCEPT ![r] = b],
           Rank(stage[r]) <= Rank(b),
           stage[r] \in {"invalid", "answered"} => b \in {"invalid", "answered"},
           b = "rejectedNonce" => r \in misjudged' \/ (nonce[r] < latest /\ ~MinedFor(r)),
           b \in Sent => stage[r] \in Sent
    PROVE  \A q \in Request : Onward(q)
<1>1. \A q \in Request : stage'[q] = IF q = r THEN b ELSE stage[q]
  BY StageMove
<1>2. \A q \in Request : Rank(stage[q]) \in 0..4
  BY RankFacts
<1> QED
  BY <1>1, <1>2 DEF Onward

\* The head of the submit queue and the retry that is due were not sent yet.
LEMMA SubmitFrom ==
    ASSUME TypeInv, QueueInv, NEW r \in Request, SubmitNext(r)
    PROVE  stage[r] \in {"submitDue", "submitNew"} /\ pc = "submit"
<1>1. ASSUME submitNew # <<>>, r = Head(submitNew) PROVE stage[r] = "submitNew"
  <2>1. submitNew \in Seq(Request)
    BY QueueTypes
  <2>2. r \in Elements(submitNew)
    BY <1>1, <2>1, TailFacts
  <2> QED
    BY <2>2 DEF QueueInv, At
<1> QED
  BY <1>1 DEF SubmitNext

LEMMA WaitingFrom ==
    ASSUME TypeInv, QueueInv, NEW r \in Request, StartWaiting(r)
    PROVE  stage[r] = "confirmNew"
<1>1. confirmNew \in Seq(Request) /\ confirmNew # <<>> /\ r = Head(confirmNew)
  BY QueueTypes DEF StartWaiting
<1>2. r \in Elements(confirmNew)
  BY <1>1, TailFacts
<1> QED
  BY <1>2 DEF QueueInv, At

LEMMA ChainShapes ==
    ASSUME TypeInv, QueueInv, [Next]_vars
    PROVE  \/ Keeps /\ UNCHANGED <<txNonce, mempool>>
           \/ \E n \in Nonce : \E r, k : Reaches(n, r, k)
           \/ \E r \in Request : \/ SubmitSucceeds(r)
                                 \/ Keeps /\ UNCHANGED mempool /\ txNonce' = pendingNonce
                                 \/ RequeueStep(r) /\ UNCHANGED <<nonce, txNonce, chain>>
           \/ Mine \/ Drop
<1> DEFINE Quiet == Keeps /\ UNCHANGED <<txNonce, mempool>>
           Sends == \E n \in Nonce : \E r, k : Reaches(n, r, k)
           Resync == Keeps /\ UNCHANGED mempool /\ txNonce' = pendingNonce
           Goal == \/ Quiet \/ Sends \/ Mine \/ Drop
                   \/ \E r \in Request : \/ SubmitSucceeds(r) \/ Resync
                                         \/ RequeueStep(r) /\ UNCHANGED <<nonce, txNonce, chain>>
<1> USE DEF chain, account
<1>t. stage \in [Request -> Stages]
  BY QueueTypes
<1>r. \A q \in Request : stage[q] \in Stages /\ Rank(stage[q]) \in 0..4
  BY <1>t, RankFacts
<1>a. \A n : Accepts(n) /\ latest \in Nat => n \in Nonce
  BY WalletAssumption DEF Accepts, Nonce
<1>l. latest \in Nat
  BY WalletAssumption DEF TypeInv, TypeOK
<1>f. UNCHANGED stage => \A q \in Request : Onward(q)
  BY <1>r DEF Onward
<1>1. CASE SubmitIdle \/ ConfirmIdle \/ CollectConfirmed \/ AllHandled \/ CancelStarts
  BY <1>1, <1>f DEF SubmitIdle, ConfirmIdle, CollectConfirmed, AllHandled, CancelStarts, Keeps
<1>2. CASE CancelSent
  <2>1. Keeps /\ UNCHANGED txNonce
    BY <1>2, <1>f DEF CancelSent, Keeps
  <2>2. Accepts(nonce[cancelling]) /\ Place(nonce[cancelling], cancelling, "cancel")
    BY <1>2 DEF CancelSent
  <2>3. Reaches(nonce[cancelling], cancelling, "cancel")
    BY <2>1, <2>2 DEF Reaches
  <2> QED
    BY <1>a, <1>l, <2>2, <2>3
<1>3. CASE CancelFails
  <2>1. Keeps /\ UNCHANGED txNonce
    BY <1>3, <1>f DEF CancelFails, Keeps
  <2>2. CASE UNCHANGED mempool
    BY <2>1, <2>2
  <2>3. CASE Accepts(nonce[cancelling]) /\ Place(nonce[cancelling], cancelling, "cancel")
    <3>1. Reaches(nonce[cancelling], cancelling, "cancel")
      BY <2>1, <2>3 DEF Reaches
    <3> QED
      BY <1>a, <1>l, <2>3, <3>1
  <2> QED
    BY <1>3, <2>2, <2>3 DEF CancelFails, SendFails
<1>4. CASE External
  <2>1. Keeps /\ UNCHANGED txNonce
    BY <1>4, <1>f DEF External, Keeps, worker
  <2>2. pendingNonce \in Nonce /\ Place(pendingNonce, NoRequest, "external")
    BY <1>4 DEF External
  <2>3. Accepts(pendingNonce)
    <3>1. pendingNonce \in latest..(MaxNonce + 1)
      BY PendingNonceFacts DEF TypeInv, TypeOK
    <3> QED
      BY <2>2, <3>1, <1>l, WalletAssumption DEF Accepts, Nonce
  <2>4. Reaches(pendingNonce, NoRequest, "external")
    BY <2>1, <2>2, <2>3 DEF Reaches
  <2> QED
    BY <2>2, <2>4
<1>5. CASE UNCHANGED vars
  BY <1>5, <1>f DEF vars, worker, Keeps
<1>6. CASE CancelObsolete \/ CancelConfirmed
  <2>1. cancelling \in Request /\ stage[cancelling] = "unconfirmed"
    BY <1>6 DEF CancelObsolete, CancelConfirmed, TypeInv, Cancelling
  <2>2. /\ stage' = [stage EXCEPT ![cancelling] = "answered"]
        /\ UNCHANGED <<nonce, txNonce, mempool, mined, latest, drops, misjudged>>
    BY <1>6 DEF CancelObsolete, CancelConfirmed, Answer
  <2>3. Rank(stage[cancelling]) <= Rank("answered") /\ "answered" \in Stages
    BY <2>1 DEF Rank, Stages, Submitting
  <2>4. \A q \in Request : Onward(q)
    BY <1>t, <2>1, <2>2, <2>3, OnwardMove DEF Sent
  <2> QED
    BY <2>2, <2>4 DEF Keeps
<1>7. CASE AddTransaction
  <2>1. PICK r \in Request : stage[r] = "idle" /\ stage' = [stage EXCEPT ![r] = "requested"]
    BY <1>7 DEF AddTransaction
  <2>2. Rank(stage[r]) <= Rank("requested") /\ "requested" \in Stages
    BY <2>1 DEF Rank, Stages, Submitting
  <2>3. \A q \in Request : Onward(q)
    BY <1>t, <2>1, <2>2, OnwardMove DEF Sent
  <2> QED
    BY <1>7, <2>3 DEF AddTransaction, Keeps
<1>8. CASE ProcessNewRequests
  <2> DEFINE n == IF Len(newRequests) < walletCapacity THEN Len(newRequests) ELSE walletCapacity
             taken == SubSeq(newRequests, 1, n)
  <2>1. newRequests \in Seq(Request) /\ n \in 0..Len(newRequests)
    BY CapacityType, QueueTypes
  <2>2. /\ stage' = [r \in Request |-> IF \E j \in 1..n : taken[j] = r THEN "submitNew" ELSE stage[r]]
        /\ UNCHANGED <<nonce, txNonce, chain>>
    BY <1>8 DEF ProcessNewRequests
  <2> HIDE DEF n
  <2>3. \A j \in 1..n : j \in DOMAIN newRequests /\ taken[j] = newRequests[j]
    BY <2>1, CutFacts
  <2>4. \A j \in 1..n : stage[taken[j]] = "requested"
    BY <2>3 DEF QueueInv, At, Elements
  <2> HIDE DEF taken
  <2>5. \A q \in Request : stage'[q] = stage[q] \/ (stage'[q] = "submitNew" /\ stage[q] = "requested")
    BY <2>2, <2>4
  <2>6. \A q \in Request : Onward(q)
    BY <1>r, <2>5 DEF Onward, Rank, Submitting, Sent
  <2> QED
    BY <2>2, <2>6 DEF Keeps
<1>9. CASE CollectSubmitted
  <2>1. \A q \in Request : stage'[q] = CASE stage[q] = "invalid" -> "answered"
                                         [] stage[q] = "submitted" -> "confirmNew"
                                         [] OTHER -> stage[q]
    BY <1>9 DEF CollectSubmitted
  <2>2. \A q \in Request : \/ stage'[q] = stage[q]
                           \/ stage[q] = "invalid" /\ stage'[q] = "answered"
                           \/ stage[q] = "submitted" /\ stage'[q] = "confirmNew"
    BY <2>1
  <2>3. \A q \in Request : Onward(q)
    BY <1>r, <2>2 DEF Onward, Rank, Submitting, Sent
  <2> QED
    BY <1>9, <2>3 DEF CollectSubmitted, Keeps
<1>10. ASSUME NEW r \in Request, SubmitStep(r) PROVE Goal
  <2>1. ASSUME NEW b \in {"invalid", "submitFailing"}, SubmitNext(r), stage' = [stage EXCEPT ![r] = b]
        PROVE  (\A q \in Request : Onward(q)) /\ Rank(stage[r]) < 4
    <3>1. stage[r] \in {"submitDue", "submitNew"}
      BY <2>1, SubmitFrom
    <3>2. Rank(stage[r]) <= Rank(b) /\ b \in Stages /\ Rank(stage[r]) < 4
      BY <2>1, <3>1 DEF Rank, Stages, Submitting
    <3> QED
      BY <1>t, <2>1, <3>1, <3>2, OnwardMove DEF Sent
  <2>2. CASE DeadlineExceeded(r)
    BY <2>1, <2>2 DEF DeadlineExceeded, Keeps
  <2>3. CASE SubmitFails(r)
    <3>1. Keeps /\ UNCHANGED txNonce /\ Rank(stage[r]) < 4 /\ stage'[r] = "invalid"
      BY <1>t, <2>1, <2>3, StageMove DEF SubmitFails, Keeps
    <3>2. CASE UNCHANGED mempool
      BY <3>1, <3>2
    <3>3. CASE Accepts(txNonce) /\ Place(txNonce, r, "original")
      <4>1. Reaches(txNonce, r, "original")
        BY <3>1, <3>3 DEF Reaches
      <4> QED
        BY <1>a, <1>l, <3>3, <4>1
    <3> QED
      BY <2>3, <3>2, <3>3 DEF SubmitFails, SendFails
  <2>4. CASE SubmitNonceError(r)
    BY <2>1, <2>4 DEF SubmitNonceError, Keeps
  <2>5. CASE ResyncNonce(r)
    <3>1. \E b \in {"invalid", "submitRetry"} : stage' = [stage EXCEPT ![r] = b]
      BY <2>5 DEF ResyncNonce
    <3>2. stage[r] = "submitFailing"
      BY <2>5 DEF ResyncNonce
    <3>3. \A b \in {"invalid", "submitRetry"} : Rank(stage[r]) <= Rank(b) /\ b \in Stages
      BY <3>2 DEF Rank, Stages, Submitting
    <3>4. \A q \in Request : Onward(q)
      BY <1>t, <3>1, <3>2, <3>3, OnwardMove DEF Sent
    <3>5. Resync
      BY <2>5, <3>4 DEF ResyncNonce, Keeps
    <3> QED
      BY <3>5
  <2> QED
    BY <1>10, <2>2, <2>3, <2>4, <2>5 DEF SubmitStep
<1>11. ASSUME NEW r \in Request, ConfirmStep(r) PROVE Goal
  <2>1. ASSUME NEW b \in {"waiting", "unconfirmed", "confirmRetry"},
               stage[r] \in {"confirmNew", "confirmDue"}, stage' = [stage EXCEPT ![r] = b]
        PROVE  \A q \in Request : Onward(q)
    <3>1. Rank(stage[r]) <= Rank(b) /\ b \in Stages
      BY <2>1 DEF Rank, Stages, Submitting
    <3> QED
      BY <1>t, <2>1, <3>1, OnwardMove DEF Sent
  <2>2. CASE StartWaiting(r)
    <3>1. stage[r] = "confirmNew"
      BY <2>2, WaitingFrom
    <3> QED
      BY <2>1, <2>2, <3>1 DEF StartWaiting, Keeps
  <2>3. CASE WaitAgain(r)
    BY <2>1, <2>3 DEF WaitAgain, ConfirmDue, Keeps
  <2>4. CASE Reprice(r)
    <3>1. Keeps /\ UNCHANGED txNonce /\ stage[r] = "confirmDue"
      BY <2>1, <2>4 DEF Reprice, ConfirmDue, Keeps
    <3>2. Reaches(nonce[r], r, "replacement")
      BY <2>4, <3>1 DEF Reaches, Reprice
    <3> QED
      BY <1>a, <1>l, <3>2 DEF Reaches
  <2>5. CASE RepriceFails(r)
    <3>1. Keeps /\ UNCHANGED txNonce /\ stage[r] = "confirmDue"
      BY <2>1, <2>5 DEF RepriceFails, RetryConfirm, ConfirmDue, Keeps
    <3>2. CASE UNCHANGED mempool
      BY <3>1, <3>2
    <3>3. CASE Accepts(nonce[r]) /\ Place(nonce[r], r, "replacement")
      <4>1. Reaches(nonce[r], r, "replacement")
        BY <3>1, <3>3 DEF Reaches
      <4> QED
        BY <1>a, <1>l, <3>3, <4>1
    <3> QED
      BY <2>5, <3>2, <3>3 DEF RepriceFails, SendFails
  <2> QED
    BY <1>11, <2>2, <2>3, <2>4, <2>5 DEF ConfirmStep
<1>12. ASSUME NEW r \in Request, HandleStep(r) PROVE Goal
  <2>1. ASSUME stage[r] \in {"confirmed", "rejected", "rejectedNonce"},
               stage' = [stage EXCEPT ![r] = "answered"]
        PROVE  \A q \in Request : Onward(q)
    <3>1. Rank(stage[r]) <= Rank("answered") /\ "answered" \in Stages
      BY <2>1 DEF Rank, Stages, Submitting
    <3> QED
      BY <1>t, <2>1, <3>1, OnwardMove DEF Sent
  <2>2. CASE HandleConfirmed(r)
    BY <2>1, <2>2 DEF HandleConfirmed, Answer, Keeps
  <2>3. CASE HandleRejected(r) /\ ~Requeues(r)
    BY <2>1, <2>3 DEF HandleRejected, Answer, Keeps
  <2>4. CASE HandleRejected(r) /\ Requeues(r)
    <3>1. RequeueStep(r) /\ UNCHANGED <<nonce, txNonce, chain>>
      BY <2>4 DEF HandleRejected, Requeues, RequeueStep
    <3> QED
      BY <3>1
  <2>5. CASE HandleUnconfirmed(r)
    BY <1>f, <2>5 DEF HandleUnconfirmed, Keeps
  <2> QED
    BY <1>12, <2>2, <2>3, <2>4, <2>5 DEF HandleStep
<1>13. ASSUME NEW r \in Request, RetryDue(r) PROVE Goal
  <2>1. \A q \in Request : Onward(q)
    <3>1. PICK b \in {"submitDue", "confirmDue"} :
            /\ stage' = [stage EXCEPT ![r] = b]
            /\ stage[r] = IF b = "submitDue" THEN "submitRetry" ELSE "confirmRetry"
      BY <1>13 DEF RetryDue
    <3>2. Rank(stage[r]) <= Rank(b) /\ b \in Stages /\ (b \in Sent => stage[r] \in Sent)
      BY <3>1 DEF Rank, Stages, Submitting, Sent
    <3> QED
      BY <1>t, <3>1, <3>2, OnwardMove
  <2> QED
    BY <1>13, <2>1 DEF RetryDue, Keeps
<1>14. ASSUME NEW r \in Request, Settle(r) PROVE Goal
  <2>1. PICK outcome \in {"confirmed", "rejected", "rejectedNonce", "unconfirmed", "confirmRetry"} :
          /\ WaitSettles(r, outcome)
          /\ misjudged \subseteq misjudged'
          /\ outcome = "rejectedNonce" => r \in misjudged' \/ (nonce[r] < latest /\ ~MinedFor(r))
    BY <1>14 DEF Settle, WaitConfirms, WaitTimesOut, WaitFails, RetryConfirm, UsedByOther, MinedFor
  <2>2. stage[r] = "waiting" /\ stage' = [stage EXCEPT ![r] = outcome]
    BY <2>1 DEF WaitSettles
  <2>3. Rank(stage[r]) <= Rank(outcome) /\ outcome \in Stages
    BY <2>1, <2>2 DEF Rank, Stages, Submitting
  <2>4. \A q \in Request : Onward(q)
    BY <1>t, <2>1, <2>2, <2>3, OnwardMove DEF Sent
  <2> QED
    BY <2>1, <2>4 DEF WaitSettles, Keeps
<1>15. CASE Mine \/ Drop
  BY <1>15
<1> QED
  BY <1>1, <1>2, <1>3, <1>4, <1>5, <1>6, <1>7, <1>8, <1>9, <1>10, <1>11, <1>12, <1>13, <1>14, <1>15
     DEF Next, Run, Cancel

LEMMA ChainTypes ==
    ASSUME TypeInv
    PROVE  /\ nonce \in [Request -> Nonce] /\ txNonce \in Nat /\ txNonce <= MaxNonce + 1
           /\ latest \in Nat /\ latest <= MaxNonce + 1
           /\ mempool \in [Nonce -> Tx] /\ mined \in [Nonce -> Tx]
           /\ stage \in [Request -> Stages] /\ drops \in Nat
           /\ Nonce = 0..MaxNonce /\ MaxNonce \in Nat
BY WalletAssumption DEF TypeInv, TypeOK, Nonce

-----------------------------------------------------------------------------
(* At most one transaction of a request is mined.                          *)

\* A step after which no transaction lives that did not live before.
LEMMA MinedKept ==
    ASSUME MinedInv, stage \in [Request -> Stages], stage' \in [Request -> Stages],
           nonce \in [Request -> Nonce], UNCHANGED nonce, latest \in Nat, latest' \in Nat,
           Nonce \subseteq Nat,
           \A q \in Request : Onward(q),
           \A q \in Request, n \in Nonce : Live(n, q)' => Live(n, q),
           \A n \in Nonce : n < latest' => mempool'[n] = NoTx,
           \A n \in Nonce : n >= latest' => mined'[n] = NoTx,
           latest <= latest', misjudged \subseteq misjudged',
           \A n \in Nonce : n < latest => mined'[n] = mined[n]
    PROVE  MinedInv'
<1>1. \A q \in Request : Rank(stage[q]) \in 0..4 /\ Rank(stage'[q]) \in 0..4
  BY RankFacts
<1>2. \A q \in Request \ misjudged', n \in Nonce : Rank(stage'[q]) < 4 => ~Live(n, q)'
  BY <1>1 DEF Onward, MinedInv
<1>3. \A q \in Request \ misjudged', n \in Nonce :
        stage'[q] \notin {"invalid", "answered"} /\ Live(n, q)' => n = nonce[q]
  BY DEF Onward, MinedInv
<1>4. ASSUME NEW q \in Request \ misjudged', stage'[q] = "rejectedNonce"
      PROVE  nonce[q] < latest' /\ ~MinedFor(q)'
  <2>1. nonce[q] < latest /\ ~MinedFor(q)
    BY <1>4 DEF Onward, MinedInv
  <2>2. nonce[q] \in Nonce /\ nonce[q] \in Nat
    OBVIOUS
  <2>3. mined'[nonce[q]] = mined[nonce[q]]
    BY <2>1, <2>2
  <2>4. nonce[q] < latest'
    BY <2>1, <2>2
  <2> QED
    BY <2>1, <2>3, <2>4 DEF MinedFor, Executes
<1>5. \A q \in Request \ misjudged' : \A m, n \in Nonce : Live(m, q)' /\ Live(n, q)' => m = n
  BY DEF MinedInv
<1> QED
  BY <1>2, <1>3, <1>4, <1>5 DEF MinedInv

LEMMA MinedStep == TypeInv /\ TypeInv' /\ QueueInv /\ MinedInv /\ [Next]_vars => MinedInv'
<1> SUFFICES ASSUME TypeInv, TypeInv', QueueInv, MinedInv, [Next]_vars PROVE MinedInv'
  OBVIOUS
<1>t. /\ nonce \in [Request -> Nonce] /\ txNonce \in Nat /\ txNonce <= MaxNonce + 1
      /\ latest \in Nat /\ latest <= MaxNonce + 1
      /\ mempool \in [Nonce -> Tx] /\ mined \in [Nonce -> Tx]
      /\ stage \in [Request -> Stages]
      /\ Nonce = 0..MaxNonce /\ MaxNonce \in Nat /\ Nonce \subseteq Nat
  BY ChainTypes
<1>u. stage' \in [Request -> Stages] /\ latest' \in Nat
  <2>1. (stage \in [Request -> Stages])' /\ (latest \in 0..(MaxNonce + 1))'
    BY DEF TypeInv, TypeOK
  <2> QED
    BY <2>1
<1>r. \A q \in Request : Rank(stage[q]) \in 0..4
  BY <1>t, RankFacts
<1>1. CASE Keeps /\ UNCHANGED <<txNonce, mempool>>
  <2>1. \A q \in Request, n \in Nonce : Live(n, q)' => Live(n, q)
    BY <1>1 DEF Keeps, Live, Executes, PendsFor
  <2> QED
    BY <1>1, <1>t, <1>u, <2>1, MinedKept DEF Keeps, MinedInv
<1>2. ASSUME NEW n \in Nonce, NEW r, NEW k, Reaches(n, r, k) PROVE MinedInv'
  <2>1. /\ Keeps /\ n >= latest
        /\ \A m \in Nonce : mempool'[m] = IF m = n THEN [req |-> r, kind |-> k] ELSE mempool[m]
    BY <1>2, <1>t, PlaceFacts DEF Reaches, Accepts
  <2>2. /\ \A m \in Nonce : m < latest' => mempool'[m] = NoTx
        /\ \A m \in Nonce : m >= latest' => mined'[m] = NoTx
    BY <1>t, <2>1 DEF MinedInv, Keeps
  <2>3. ASSUME NEW q \in Request, NEW m \in Nonce, Live(m, q)'
        PROVE  Live(m, q) \/ (m = n /\ q = r /\ k \in {"original", "replacement"})
    BY <2>1, <2>3 DEF Live, Executes, PendsFor, Keeps
  <2>4. CASE k \notin {"original", "replacement"}
    <3>1. \A q \in Request, m \in Nonce : Live(m, q)' => Live(m, q)
      BY <2>3, <2>4
    <3> QED
      BY <1>t, <1>u, <2>1, <2>2, <3>1, MinedKept DEF Keeps, MinedInv
  <2>5. CASE k \in {"original", "replacement"} /\ Rank(stage[r]) < 4 /\ stage'[r] = "invalid" /\ r \in Request
    <3>1. r \notin misjudged => \A m \in Nonce : Live(m, r)' => m = n
      BY <2>3, <2>5 DEF MinedInv
    <3>2. \A q \in Request, m \in Nonce : q # r => (Live(m, q)' => Live(m, q))
      BY <2>3
    <3>3. \A q \in Request \ misjudged' : \A l, m \in Nonce : Live(l, q)' /\ Live(m, q)' => l = m
      BY <2>1, <3>1, <3>2 DEF MinedInv, Keeps
    <3>4. \A q \in Request \ misjudged', m \in Nonce : Rank(stage'[q]) < 4 => ~Live(m, q)'
      <4>1. Rank(stage'[r]) = 4
        BY <2>5 DEF Rank, Submitting
      <4>2. \A q \in Request : Rank(stage'[q]) < 4 => Rank(stage[q]) < 4
        <5>1. \A q \in Request : Rank(stage'[q]) \in 0..4
          BY <1>u, RankFacts
        <5> QED
          BY <1>r, <2>1, <5>1 DEF Keeps, Onward
      <4> QED
        BY <2>1, <3>2, <4>1, <4>2 DEF MinedInv, Keeps
    <3>5. \A q \in Request \ misjudged', m \in Nonce :
            stage'[q] \notin {"invalid", "answered"} /\ Live(m, q)' => m = nonce'[q]
      BY <2>1, <2>5, <3>2 DEF MinedInv, Keeps, Onward
    <3>6. \A q \in Request \ misjudged' : stage'[q] = "rejectedNonce" => nonce'[q] < latest' /\ ~MinedFor(q)'
      BY <2>1 DEF MinedInv, Keeps, Onward, MinedFor, Executes
    <3> QED
      BY <2>2, <3>3, <3>4, <3>5, <3>6 DEF MinedInv
  <2>6. CASE k \in {"original", "replacement"} /\ n = nonce[r] /\ stage[r] = "confirmDue" /\ r \in Request
    <3>1. Rank(stage[r]) = 4 /\ Rank(stage'[r]) = 4
      <4>1. Rank(stage'[r]) \in 0..4 /\ Rank(stage[r]) = 4
        BY <1>u, <2>6, RankFacts DEF Rank, Submitting
      <4> QED
        BY <2>1, <2>6, <4>1 DEF Keeps, Onward
    <3>2. r \notin misjudged => \A m \in Nonce : Live(m, r)' => m = n
      BY <2>3, <2>6 DEF MinedInv
    <3>3. \A q \in Request, m \in Nonce : q # r => (Live(m, q)' => Live(m, q))
      BY <2>3
    <3>4. \A q \in Request \ misjudged' : \A l, m \in Nonce : Live(l, q)' /\ Live(m, q)' => l = m
      BY <2>1, <3>2, <3>3 DEF MinedInv, Keeps
    <3>5. \A q \in Request \ misjudged', m \in Nonce : Rank(stage'[q]) < 4 => ~Live(m, q)'
      <4>1. \A q \in Request : Rank(stage'[q]) < 4 => Rank(stage[q]) < 4
        <5>1. \A q \in Request : Rank(stage'[q]) \in 0..4
          BY <1>u, RankFacts
        <5> QED
          BY <1>r, <2>1, <5>1 DEF Keeps, Onward
      <4> QED
        BY <2>1, <3>1, <3>3, <4>1 DEF MinedInv, Keeps
    <3>6. \A q \in Request \ misjudged', m \in Nonce :
            stage'[q] \notin {"invalid", "answered"} /\ Live(m, q)' => m = nonce'[q]
      BY <2>1, <2>6, <3>2, <3>3 DEF MinedInv, Keeps, Onward
    <3>7. \A q \in Request \ misjudged' : stage'[q] = "rejectedNonce" => nonce'[q] < latest' /\ ~MinedFor(q)'
      BY <2>1 DEF MinedInv, Keeps, Onward, MinedFor, Executes
    <3> QED
      BY <2>2, <3>4, <3>5, <3>6, <3>7 DEF MinedInv
  <2> QED
    BY <1>2, <2>4, <2>5, <2>6 DEF Reaches
<1>3. ASSUME NEW r \in Request, SubmitSucceeds(r) PROVE MinedInv'
  <2>1. stage[r] \in {"submitDue", "submitNew"}
    BY <1>3, SubmitFrom DEF SubmitSucceeds
  <2>2. Rank(stage[r]) < 4
    BY <2>1 DEF Rank, Submitting
  <2>3. \A q \in Request : stage'[q] = IF q = r THEN "submitted" ELSE stage[q]
    BY <1>3, <1>t, StageMove DEF SubmitSucceeds
  <2>4. /\ txNonce \in Nonce /\ txNonce >= latest /\ UNCHANGED <<mined, latest, misjudged>>
        /\ \A m \in Nonce : mempool'[m] = IF m = txNonce THEN [req |-> r, kind |-> "original"]
                                          ELSE mempool[m]
    BY <1>3, <1>t, PlaceFacts DEF SubmitSucceeds, Accepts, account
  <2>5. nonce'[r] = txNonce /\ \A q \in Request : q # r => nonce'[q] = nonce[q]
    BY <1>3, <1>t DEF SubmitSucceeds
  <2>6. r \notin misjudged => \A m \in Nonce : Live(m, r)' => m = txNonce
    BY <2>2, <2>4 DEF MinedInv, Live, Executes, PendsFor
  <2>7. \A q \in Request, m \in Nonce : q # r => (Live(m, q)' => Live(m, q))
    BY <2>4 DEF Live, Executes, PendsFor
  <2>8. /\ \A m \in Nonce : m < latest' => mempool'[m] = NoTx
        /\ \A m \in Nonce : m >= latest' => mined'[m] = NoTx
    <3>1. /\ \A m \in Nonce : m < latest => mempool[m] = NoTx
          /\ \A m \in Nonce : m >= latest => mined[m] = NoTx
      BY DEF MinedInv
    <3>2. ASSUME NEW m \in Nonce, m < latest' PROVE mempool'[m] = NoTx
      <4>1. m < latest /\ m # txNonce
        BY <1>t, <2>4, <3>2
      <4> QED
        BY <2>4, <3>1, <4>1
    <3>3. \A m \in Nonce : m >= latest' => mined'[m] = NoTx
      BY <2>4, <3>1
    <3> QED
      BY <3>2, <3>3
  <2>9. \A q \in Request \ misjudged' : \A l, m \in Nonce : Live(l, q)' /\ Live(m, q)' => l = m
    BY <2>4, <2>6, <2>7 DEF MinedInv
  <2>10. \A q \in Request \ misjudged', m \in Nonce : Rank(stage'[q]) < 4 => ~Live(m, q)'
    <3>1. Rank("submitted") = 4
      BY DEF Rank, Submitting
    <3> QED
      BY <2>3, <2>4, <2>7, <3>1 DEF MinedInv
  <2>11. \A q \in Request \ misjudged', m \in Nonce :
          stage'[q] \notin {"invalid", "answered"} /\ Live(m, q)' => m = nonce'[q]
    BY <2>3, <2>4, <2>5, <2>6, <2>7 DEF MinedInv
  <2>12. \A q \in Request \ misjudged' : stage'[q] = "rejectedNonce" => nonce'[q] < latest' /\ ~MinedFor(q)'
    BY <2>3, <2>4, <2>5 DEF MinedInv, MinedFor, Executes
  <2> QED
    BY <2>8, <2>9, <2>10, <2>11, <2>12 DEF MinedInv
<1>4. CASE Keeps /\ UNCHANGED mempool /\ txNonce' = pendingNonce
  <2>1. \A q \in Request, n \in Nonce : Live(n, q)' => Live(n, q)
    BY <1>4 DEF Keeps, Live, Executes, PendsFor
  <2> QED
    BY <1>4, <1>t, <1>u, <2>1, MinedKept DEF Keeps, MinedInv
<1>5. ASSUME NEW r \in Request, RequeueStep(r), UNCHANGED <<nonce, txNonce, chain>> PROVE MinedInv'
  <2>1. stage[r] = "rejectedNonce" /\ \A q \in Request : stage'[q] = IF q = r THEN "submitNew" ELSE stage[q]
    BY <1>5, <1>t, StageMove DEF RequeueStep
  <2>2. UNCHANGED <<nonce, mempool, mined, latest, misjudged>>
    BY <1>5 DEF chain, account
  <2>3. r \notin misjudged => \A n \in Nonce : ~Live(n, r)
    <3> SUFFICES ASSUME r \notin misjudged, NEW n \in Nonce, Live(n, r) PROVE FALSE
      OBVIOUS
    <3>1. n = nonce[r] /\ nonce[r] < latest /\ ~MinedFor(r)
      BY <2>1 DEF MinedInv
    <3>2. mempool[n] = NoTx
      BY <3>1 DEF MinedInv
    <3>3. ~PendsFor(n, r)
      BY <3>2 DEF PendsFor, NoTx
    <3> QED
      BY <3>1, <3>3 DEF Live, MinedFor
  <2>4. \A q \in Request, n \in Nonce : Live(n, q)' <=> Live(n, q)
    BY <2>2 DEF Live, Executes, PendsFor
  <2>5. \A q \in Request : MinedFor(q)' <=> MinedFor(q)
    BY <2>2 DEF MinedFor, Executes
  <2>6. \A q \in Request \ misjudged', n \in Nonce : Rank(stage'[q]) < 4 => ~Live(n, q)'
    BY <2>1, <2>2, <2>3, <2>4 DEF MinedInv
  <2>7. \A q \in Request \ misjudged', n \in Nonce :
          stage'[q] \notin {"invalid", "answered"} /\ Live(n, q)' => n = nonce'[q]
    BY <2>1, <2>2, <2>4 DEF MinedInv
  <2>8. \A q \in Request \ misjudged' : stage'[q] = "rejectedNonce" => nonce'[q] < latest' /\ ~MinedFor(q)'
    BY <2>1, <2>2, <2>5 DEF MinedInv
  <2> QED
    BY <2>2, <2>4, <2>6, <2>7, <2>8 DEF MinedInv
<1>6. CASE Mine
  <2>1. /\ latest \in Nonce /\ latest' = latest + 1
        /\ \A m \in Nonce : mined'[m] = IF m = latest THEN mempool[latest] ELSE mined[m]
        /\ \A m \in Nonce : mempool'[m] = IF m = latest THEN NoTx ELSE mempool[m]
        /\ UNCHANGED <<stage, nonce, misjudged>>
    BY <1>6, <1>t DEF Mine, worker
  <2>2. \A q \in Request : Onward(q)
    BY <1>r, <2>1 DEF Onward
  <2>3. \A q \in Request, n \in Nonce : Live(n, q)' => Live(n, q)
    <3>1. ASSUME NEW q \in Request, NEW n \in Nonce, Live(n, q)' PROVE Live(n, q)
      <4>1. CASE n = latest
        BY <2>1, <3>1, <4>1 DEF Live, Executes, PendsFor, NoTx
      <4>2. CASE n # latest
        BY <2>1, <3>1, <4>2 DEF Live, Executes, PendsFor
      <4> QED
        BY <4>1, <4>2
    <3> QED
      BY <3>1
  <2>4. /\ \A n \in Nonce : n < latest' => mempool'[n] = NoTx
        /\ \A n \in Nonce : n >= latest' => mined'[n] = NoTx
        /\ \A n \in Nonce : n < latest => mined'[n] = mined[n]
    BY <1>t, <2>1 DEF MinedInv
  <2>5. latest <= latest' /\ UNCHANGED nonce
    BY <1>t, <2>1
  <2> QED
    BY <1>t, <1>u, <2>1, <2>2, <2>3, <2>4, <2>5, MinedKept
<1>7. CASE Drop
  <2>1. /\ UNCHANGED <<stage, nonce, latest, mined, misjudged>>
        /\ \E n \in Nonce : mempool' = [mempool EXCEPT ![n] = NoTx]
    BY <1>7 DEF Drop, worker
  <2>2. \A m \in Nonce : mempool'[m] \in {NoTx, mempool[m]}
    BY <1>t, <2>1
  <2>3. \A q \in Request : Onward(q)
    BY <1>r, <2>1 DEF Onward
  <2>4. \A q \in Request, n \in Nonce : Live(n, q)' => Live(n, q)
    BY <2>1, <2>2 DEF Live, Executes, PendsFor, NoTx
  <2>5. /\ \A n \in Nonce : n < latest' => mempool'[n] = NoTx
        /\ \A n \in Nonce : n >= latest' => mined'[n] = NoTx
    BY <2>1, <2>2 DEF MinedInv
  <2> QED
    BY <1>t, <1>u, <2>1, <2>3, <2>4, <2>5, MinedKept
<1> QED
  BY <1>1, <1>2, <1>3, <1>4, <1>5, <1>6, <1>7, ChainShapes

-----------------------------------------------------------------------------
(* The worker's nonce and the order of the requests.                       *)

LEMMA NonceStep == TypeInv /\ QueueInv /\ NonceInv /\ [Next]_vars => NonceInv'
<1> SUFFICES ASSUME TypeInv, QueueInv, NonceInv, [Next]_vars, drops' = 0
             PROVE  /\ \A n \in Nonce : latest' <= n /\ n < txNonce' => mempool'[n] # NoTx
                    /\ \A r \in Request : stage'[r] \in Sent => nonce'[r] < txNonce'
  BY DEF NonceInv
<1>t. /\ nonce \in [Request -> Nonce] /\ txNonce \in Nat /\ txNonce <= MaxNonce + 1
      /\ latest \in Nat /\ latest <= MaxNonce + 1
      /\ mempool \in [Nonce -> Tx]
      /\ stage \in [Request -> Stages] /\ drops \in Nat
      /\ Nonce = 0..MaxNonce /\ MaxNonce \in Nat
  BY ChainTypes
<1>d. drops = 0
  <2>1. CASE Drop
    BY <1>t, <2>1 DEF Drop
  <2>2. CASE ~Drop
    <3>1. UNCHANGED drops
      BY <2>2, ChainShapes DEF Keeps, Reaches, SubmitSucceeds, Mine, chain, account
    <3> QED
      BY <3>1
  <2> QED
    BY <2>1, <2>2
<1>i. /\ \A n \in Nonce : latest <= n /\ n < txNonce => mempool[n] # NoTx
      /\ \A r \in Request : stage[r] \in Sent => nonce[r] < txNonce
  BY <1>d DEF NonceInv
<1>1. CASE Keeps /\ UNCHANGED <<txNonce, mempool>>
  BY <1>1, <1>i DEF Keeps, Onward
<1>2. ASSUME NEW n \in Nonce, NEW r, NEW k, Reaches(n, r, k)
      PROVE  /\ \A m \in Nonce : latest' <= m /\ m < txNonce' => mempool'[m] # NoTx
             /\ \A q \in Request : stage'[q] \in Sent => nonce'[q] < txNonce'
  <2>1. \A m \in Nonce : mempool'[m] = IF m = n THEN [req |-> r, kind |-> k] ELSE mempool[m]
    BY <1>2, <1>t, PlaceFacts DEF Reaches
  <2>2. k # "none"
    BY <1>2 DEF Reaches
  <2>3. \A m \in Nonce : mempool[m] # NoTx => mempool'[m] # NoTx
    BY <2>1, <2>2 DEF NoTx
  <2> QED
    BY <1>2, <1>i, <2>3 DEF Reaches, Keeps, Onward
<1>3. ASSUME NEW r \in Request, SubmitSucceeds(r)
      PROVE  /\ \A n \in Nonce : latest' <= n /\ n < txNonce' => mempool'[n] # NoTx
             /\ \A q \in Request : stage'[q] \in Sent => nonce'[q] < txNonce'
  <2>1. \A m \in Nonce : mempool'[m] = IF m = txNonce THEN [req |-> r, kind |-> "original"] ELSE mempool[m]
    BY <1>3, <1>t, PlaceFacts DEF SubmitSucceeds
  <2>2. \A q \in Request : stage'[q] = IF q = r THEN "submitted" ELSE stage[q]
    BY <1>3, <1>t, StageMove DEF SubmitSucceeds
  <2>3. nonce'[r] = txNonce /\ \A q \in Request : q # r => nonce'[q] = nonce[q]
    BY <1>3, <1>t DEF SubmitSucceeds
  <2>4. txNonce' = txNonce + 1 /\ latest' = latest
    BY <1>3 DEF SubmitSucceeds, account
  <2>5. \A n \in Nonce : latest' <= n /\ n < txNonce' => mempool'[n] # NoTx
    BY <1>i, <1>t, <2>1, <2>4 DEF NoTx
  <2>6. \A q \in Request : stage'[q] \in Sent => nonce'[q] < txNonce'
    BY <1>i, <1>t, <2>2, <2>3, <2>4
  <2> QED
    BY <2>5, <2>6
<1>4. CASE Keeps /\ UNCHANGED mempool /\ txNonce' = pendingNonce
  <2>1. /\ pendingNonce \in latest..(MaxNonce + 1)
        /\ pendingNonce \in Nonce => mempool[pendingNonce] = NoTx
        /\ \A m \in latest..(pendingNonce - 1) : mempool[m] # NoTx
    BY PendingNonceFacts DEF TypeInv, TypeOK
  <2>2. txNonce <= pendingNonce
    <3> SUFFICES ASSUME pendingNonce < txNonce PROVE FALSE
      BY <1>t, <2>1
    <3>1. pendingNonce \in Nonce /\ latest <= pendingNonce
      BY <1>t, <2>1
    <3> QED
      BY <1>i, <2>1, <3>1
  <2>3. \A n \in Nonce : latest <= n /\ n < txNonce' => mempool[n] # NoTx
    BY <1>4, <1>t, <2>1
  <2>4. \A r \in Request : stage'[r] \in Sent => nonce[r] < txNonce'
    BY <1>4, <1>i, <1>t, <2>1, <2>2 DEF Keeps, Onward
  <2> QED
    BY <1>4, <2>3, <2>4 DEF Keeps
<1>5. ASSUME NEW r \in Request, RequeueStep(r), UNCHANGED <<nonce, txNonce, chain>>
      PROVE  /\ \A n \in Nonce : latest' <= n /\ n < txNonce' => mempool'[n] # NoTx
             /\ \A q \in Request : stage'[q] \in Sent => nonce'[q] < txNonce'
  <2>1. \A q \in Request : stage'[q] = IF q = r THEN "submitNew" ELSE stage[q]
    BY <1>5, <1>t, StageMove DEF RequeueStep
  <2> QED
    BY <1>5, <1>i, <2>1 DEF chain, account, Sent
<1>6. CASE Mine
  <2>1. /\ latest' = latest + 1
        /\ \A m \in Nonce : mempool'[m] = IF m = latest THEN NoTx ELSE mempool[m]
        /\ UNCHANGED <<stage, nonce, txNonce>>
    BY <1>6, <1>t DEF Mine, worker
  <2> QED
    BY <1>i, <1>t, <2>1
<1>7. CASE Drop
  BY <1>7, <1>t DEF Drop
<1> QED
  BY <1>1, <1>2, <1>3, <1>4, <1>5, <1>6, <1>7, ChainShapes

\* Without a gap below it, the worker's nonce is at most the node's.
LEMMA NeverAhead == TypeInv /\ NonceInv => NonceNeverAhead
<1> SUFFICES ASSUME TypeInv, NonceInv PROVE NonceNeverAhead
  OBVIOUS
<1>1. /\ pendingNonce \in latest..(MaxNonce + 1)
      /\ pendingNonce \in Nonce => mempool[pendingNonce] = NoTx
  BY PendingNonceFacts DEF TypeInv, TypeOK
<1> SUFFICES ASSUME drops = 0, pendingNonce < txNonce PROVE FALSE
  BY <1>1, ChainTypes DEF NonceNeverAhead
<1>2. pendingNonce \in Nonce /\ latest <= pendingNonce
  BY <1>1, ChainTypes
<1> QED
  BY <1>1, <1>2 DEF NonceInv

LEMMA NonceOrderStep ==
    TypeInv /\ TypeInv' /\ QueueInv /\ OrderInv /\ NonceInv /\ NonceOrder /\ [Next]_vars => NonceOrder'
<1> SUFFICES ASSUME TypeInv, TypeInv', QueueInv, OrderInv, NonceInv, NonceOrder, [Next]_vars,
                    NEW q \in Request, NEW r \in Request,
                    drops' = 0, q < r, requeues'[q] = 0, requeues'[r] = 0,
                    stage'[q] \in Sent, stage'[r] \in Sent
             PROVE  nonce'[q] < nonce'[r]
  BY DEF NonceOrder, Sent
<1>t. /\ nonce \in [Request -> Nonce] /\ stage \in [Request -> Stages] /\ drops \in Nat
      /\ requeues \in [Request -> 0..MaxTries] /\ requeues \in [Request -> Nat]
  BY ChainTypes, QueueTypes, WalletAssumption
<1>d. drops = 0
  <2>1. ~Drop
    BY <1>t DEF Drop
  <2>2. UNCHANGED drops
    BY <2>1, ChainShapes DEF Keeps, Reaches, SubmitSucceeds, Mine, chain, account
  <2> QED
    BY <2>2
<1>s. requeues[q] = 0 /\ requeues[r] = 0
  <2>1. CASE \E x \in Request : RequeueStep(x)
    <3>1. PICK x \in Request : requeues' = [requeues EXCEPT ![x] = @ + 1]
      BY <2>1 DEF RequeueStep
    <3> QED
      BY <1>t, <3>1
  <2>2. CASE ~\E x \in Request : RequeueStep(x)
    <3>1. UNCHANGED requeues
      BY <2>2, Shapes DEF Stays, AddTransaction, ProcessNewRequests, CollectSubmitted, StartWaiting,
                         Moves, Submits
    <3> QED
      BY <3>1
  <2> QED
    BY <2>1, <2>2
<1>o. stage[q] \in Sent /\ stage[r] \in Sent => nonce[q] < nonce[r]
  BY <1>d, <1>s DEF NonceOrder, Sent
<1>1. CASE Keeps
  BY <1>1, <1>o DEF Keeps, Onward
<1>2. ASSUME NEW x \in Request, SubmitSucceeds(x) PROVE nonce'[q] < nonce'[r]
  <2>1. \A y \in Request : stage'[y] = IF y = x THEN "submitted" ELSE stage[y]
    BY <1>2, <1>t, StageMove DEF SubmitSucceeds
  <2>2. nonce'[x] = txNonce /\ \A y \in Request : y # x => nonce'[y] = nonce[y]
    BY <1>2, <1>t DEF SubmitSucceeds
  <2>3. q # r
    BY DEF Request
  <2>4. CASE r = x
    BY <1>d, <2>1, <2>2, <2>3, <2>4 DEF NonceInv
  <2>5. CASE q = x
    <3>1. stage[q] \in {"submitDue", "submitNew"} /\ stage[r] \in Sent
      BY <1>2, <2>1, <2>3, <2>5, SubmitFrom DEF SubmitSucceeds
    <3>2. Rank(stage[r]) = 4 /\ Rank(stage[q]) \in 2..3
      BY <3>1 DEF Rank, Submitting, Sent
    <3>3. Rank(stage[r]) <= Rank(stage[q])
      BY <1>s DEF OrderInv
    <3> QED
      BY <3>2, <3>3
  <2>6. CASE q # x /\ r # x
    BY <1>o, <2>1, <2>2, <2>6
  <2> QED
    BY <2>4, <2>5, <2>6
<1>3. ASSUME NEW x \in Request, RequeueStep(x), UNCHANGED nonce PROVE nonce'[q] < nonce'[r]
  <2>1. \A y \in Request : stage'[y] = IF y = x THEN "submitNew" ELSE stage[y]
    BY <1>3, <1>t, StageMove DEF RequeueStep
  <2> QED
    BY <1>3, <1>o, <2>1 DEF Sent
<1>4. CASE Mine \/ Drop
  BY <1>4, <1>o DEF Mine, Drop, worker
<1> QED
  BY <1>1, <1>2, <1>3, <1>4, ChainShapes DEF Reaches

-----------------------------------------------------------------------------
(* Answers.                                                                *)

\* A step tells a client at most what its request's stage says.
LEMMA AnswerShapes ==
    ASSUME TypeInv, [Next]_vars
    PROVE  \A q \in Request :
              \/ response'[q] = response[q]
              \/ stage'[q] = "answered" /\ (response'[q] = "cancelled" => nonce[q] < latest)
<1> DEFINE Says == \A q \in Request :
              \/ response'[q] = response[q]
              \/ stage'[q] = "answered" /\ (response'[q] = "cancelled" => nonce[q] < latest)
<1>t. /\ response \in [Request -> {"none", "confirmed", "submissionError",
                                   "confirmationError", "cancelled"}]
      /\ stage \in [Request -> Stages] /\ latest \in Nat /\ nonce \in [Request -> Nat]
  <2>1. response \in [Request -> {"none", "confirmed", "submissionError",
                                  "confirmationError", "cancelled"}]
    BY Zenon DEF TypeInv, TypeOK
  <2>2. /\ stage \in [Request -> Stages] /\ latest \in Nat
        /\ nonce \in [Request -> Nonce] /\ Nonce = 0..MaxNonce /\ MaxNonce \in Nat
    BY ChainTypes
  <2>3. nonce \in [Request -> Nat]
    BY <2>2
  <2> QED
    BY <2>1, <2>2, <2>3
<1>a. ASSUME NEW r \in Request, NEW res, response' = [response EXCEPT ![r] = res],
             stage' = [stage EXCEPT ![r] = "answered"],
             res = "cancelled" => nonce[r] < latest
      PROVE  Says
  BY <1>a, <1>t
<1>1. CASE CollectSubmitted
  <2>1. \A q \in Request : /\ response'[q] = IF stage[q] = "invalid" THEN "submissionError" ELSE response[q]
                           /\ stage[q] = "invalid" => stage'[q] = "answered"
    BY <1>1 DEF CollectSubmitted
  <2> QED
    BY <2>1
<1>2. CASE CancelObsolete \/ CancelConfirmed
  <2>1. /\ cancelling \in Request /\ nonce[cancelling] < latest
        /\ response' = [response EXCEPT ![cancelling] = "cancelled"]
        /\ stage' = [stage EXCEPT ![cancelling] = "answered"]
    <3>1. cancelling \in Request
      BY <1>2 DEF CancelObsolete, CancelConfirmed, TypeInv, Cancelling
    <3> QED
      BY <1>2, <1>t, <3>1 DEF CancelObsolete, CancelConfirmed, CancelNonceMined, Answer
  <2> QED
    BY <1>a, <2>1
<1>3. ASSUME NEW r \in Request, HandleConfirmed(r) \/ HandleRejected(r) PROVE Says
  <2>1. CASE UNCHANGED response
    BY <2>1
  <2>2. CASE ~UNCHANGED response
    <3>1. PICK res \in {"confirmed", "confirmationError"} : Answer(r, res)
      BY <1>3, <2>2 DEF HandleConfirmed, HandleRejected
    <3> QED
      BY <1>a, <3>1 DEF Answer
  <2> QED
    BY <2>1, <2>2
<1>4. CASE UNCHANGED response
  BY <1>4
<1>5. \/ UNCHANGED response \/ CollectSubmitted \/ CancelObsolete \/ CancelConfirmed
      \/ \E r \in Request : HandleConfirmed(r) \/ HandleRejected(r)
  <2>1. CASE AddTransaction \/ ProcessNewRequests \/ SubmitIdle \/ ConfirmIdle \/ CollectConfirmed
             \/ AllHandled \/ CancelStarts \/ CancelSent \/ CancelFails
    BY <2>1 DEF AddTransaction, ProcessNewRequests, SubmitIdle, ConfirmIdle, CollectConfirmed,
                AllHandled, CancelStarts, CancelSent, CancelFails
  <2>2. ASSUME NEW r \in Request, SubmitStep(r) \/ ConfirmStep(r) \/ HandleUnconfirmed(r)
        PROVE  UNCHANGED response
    BY <2>2 DEF SubmitStep, DeadlineExceeded, SubmitSucceeds, SubmitFails, SubmitNonceError,
                ResyncNonce, ConfirmStep, StartWaiting, WaitAgain, Reprice, RepriceFails, ConfirmDue,
                HandleUnconfirmed
  <2>3. ASSUME NEW r \in Request, RetryDue(r) \/ Settle(r) PROVE UNCHANGED response
    BY <2>3 DEF RetryDue, Settle, WaitConfirms, WaitTimesOut, WaitFails, WaitSettles
  <2>4. CASE Mine \/ Drop \/ External \/ UNCHANGED vars
    BY <2>4 DEF Mine, Drop, External, worker, vars
  <2> QED
    BY <2>1, <2>2, <2>3, <2>4 DEF Next, Run, Cancel, HandleStep
<1> QED
  BY <1>1, <1>2, <1>3, <1>4, <1>5

LEMMA AnswerStep == TypeInv /\ QueueInv /\ AnswerInv /\ [Next]_vars => AnswerInv'
<1> SUFFICES ASSUME TypeInv, QueueInv, AnswerInv, [Next]_vars PROVE AnswerInv'
  OBVIOUS
<1>t. /\ stage \in [Request -> Stages] /\ latest \in Nat /\ nonce \in [Request -> Nat]
  BY ChainTypes
<1>1. \A q \in Request :
        \/ response'[q] = response[q]
        \/ stage'[q] = "answered" /\ (response'[q] = "cancelled" => nonce[q] < latest)
  BY AnswerShapes
<1>2. \A q \in Request : stage[q] = "answered" => stage'[q] = "answered" /\ nonce'[q] = nonce[q]
  <2>1. ASSUME Keeps, NEW q \in Request, stage[q] = "answered" PROVE stage'[q] = "answered"
    <3>1. stage'[q] \in {"invalid", "answered"}
      BY <2>1 DEF Keeps, Onward
    <3>2. stage'[q] # "invalid"
      <4>1. CASE Stays
        BY <2>1, <4>1 DEF Stays
      <4>2. ASSUME NEW r \in Request, NEW b \in Stages, Moves(r, b) PROVE stage'[q] = stage[q]
        BY <1>t, <2>1, <4>2, StageMove DEF Moves
      <4>3. ASSUME NEW r \in Request, NEW b \in Stages, Submits(r, b) PROVE stage'[q] = stage[q]
        <5>1. stage[r] \in {"submitDue", "submitNew"}
          <6>1. ASSUME submitNew # <<>>, r = Head(submitNew) PROVE stage[r] = "submitNew"
            <7>1. submitNew \in Seq(Request)
              BY QueueTypes
            <7>2. r \in Elements(submitNew)
              BY <6>1, <7>1, TailFacts
            <7> QED
              BY <7>2 DEF QueueInv, At
          <6> QED
            BY <4>3, <6>1 DEF Submits
        <5> QED
          BY <1>t, <2>1, <4>3, <5>1, StageMove DEF Submits
      <4>4. CASE AddTransaction
        BY <1>t, <2>1, <4>4 DEF AddTransaction
      <4>5. CASE ProcessNewRequests
        BY <2>1, <4>5 DEF ProcessNewRequests
      <4>6. CASE CollectSubmitted
        BY <2>1, <4>6 DEF CollectSubmitted
      <4>7. ASSUME NEW r \in Request, StartWaiting(r) \/ RequeueStep(r) PROVE stage'[q] # "invalid"
        BY <1>t, <2>1, <4>7 DEF StartWaiting, RequeueStep
      <4> QED
        BY <2>1, <4>1, <4>2, <4>3, <4>4, <4>5, <4>6, <4>7, Shapes
    <3> QED
      BY <3>1, <3>2
  <2>2. ASSUME NEW r \in Request, SubmitSucceeds(r), NEW q \in Request, stage[q] = "answered"
        PROVE  stage'[q] = "answered" /\ nonce'[q] = nonce[q]
    <3>1. stage[r] \in {"submitDue", "submitNew"}
      BY <2>2, SubmitFrom DEF SubmitSucceeds
    <3> QED
      BY <1>t, <2>2, <3>1, StageMove DEF SubmitSucceeds
  <2>3. ASSUME NEW r \in Request, RequeueStep(r), NEW q \in Request, stage[q] = "answered"
        PROVE  stage'[q] = "answered"
    BY <1>t, <2>3, StageMove DEF RequeueStep
  <2> QED
    BY <2>1, <2>2, <2>3, ChainShapes DEF Keeps, Reaches, Mine, Drop, worker
<1>3. latest <= latest' /\ latest' \in Nat
  BY <1>t, ChainShapes DEF Keeps, Reaches, SubmitSucceeds, Mine, Drop, chain, account
<1>4. \A q \in Request : response'[q] # "none" => stage'[q] = "answered"
  BY <1>1, <1>2 DEF AnswerInv
<1>5. ASSUME NEW q \in Request, response'[q] = "cancelled" PROVE nonce'[q] < latest'
  <2>1. CASE response[q] = "cancelled"
    <3>1. stage[q] = "answered" /\ nonce[q] < latest
      BY <2>1 DEF AnswerInv, CancelledIsSettled
    <3>2. nonce'[q] = nonce[q] /\ nonce[q] \in Nat
      BY <1>2, <1>t, <3>1
    <3> QED
      BY <1>3, <1>t, <3>1, <3>2
  <2>2. CASE response[q] # "cancelled"
    <3>1. nonce[q] < latest
      BY <1>1, <1>5, <2>2
    <3>2. nonce'[q] = nonce[q]
      <4>1. CASE \E r \in Request : SubmitSucceeds(r)
        <5>1. PICK r \in Request : SubmitSucceeds(r)
          BY <4>1
        <5>2. response' = response
          BY <5>1 DEF SubmitSucceeds
        <5> QED
          BY <1>5, <2>2, <5>2
      <4>2. CASE ~\E r \in Request : SubmitSucceeds(r)
        BY <4>2, ChainShapes DEF Keeps, Reaches, Mine, Drop, worker
      <4> QED
        BY <4>1, <4>2
    <3> QED
      BY <1>3, <1>t, <3>1, <3>2
  <2> QED
    BY <2>1, <2>2
<1> QED
  BY <1>4, <1>5 DEF AnswerInv, CancelledIsSettled

-----------------------------------------------------------------------------
(* The theorems.                                                           *)

LEMMA InitInv == Init => IInv
<1> SUFFICES ASSUME Init PROVE IInv
  OBVIOUS
<1> USE WalletAssumption
<1>1. TypeInv
  <2>1. 0 \in Nonce /\ NoTx \in Tx /\ 0 \in 0..MaxTries /\ 0 \in 0..(MaxTries - 1)
    BY DEF Nonce, Tx
  <2>2. TypeOK
    BY <2>1 DEF Init, TypeOK, Stages, NoRequest
  <2> QED
    BY <2>2 DEF Init, TypeInv, Cancelling
<1>2. QueueInv
  BY DEF Init, QueueInv, Elements, Injective, At, Submitting
<1>3. CapacityRespected
  <2>1. InSubmitQueue = {} /\ InConfirmQueue = {}
    BY DEF Init, InSubmitQueue, InConfirmQueue
  <2>2. Cardinality({}) = 0
    BY FS_EmptySet
  <2> QED
    BY <2>1, <2>2 DEF CapacityRespected
<1>4. OrderInv
  BY DEF Init, OrderInv, Rank
<1>5. NonceInv
  BY DEF Init, NonceInv, Sent, Nonce
<1>6. NonceOrder
  BY DEF Init, NonceOrder
<1>7. MinedInv
  <2>1. \A n \in Nonce : mempool[n] = NoTx /\ mined[n] = NoTx
    BY DEF Init
  <2>2. \A q \in Request, n \in Nonce : ~Live(n, q)
    BY <2>1 DEF Live, Executes, PendsFor, NoTx
  <2> QED
    BY <2>1, <2>2 DEF Init, MinedInv
<1>8. AnswerInv
  BY DEF Init, AnswerInv, CancelledIsSettled
<1> QED
  BY <1>1, <1>2, <1>3, <1>4, <1>5, <1>6, <1>7, <1>8 DEF IInv

LEMMA NextInv == IInv /\ [Next]_vars => IInv'
<1> SUFFICES ASSUME IInv, [Next]_vars PROVE IInv'
  OBVIOUS
<1>1. TypeInv'
  BY TypeStep DEF IInv
<1>2. QueueInv' /\ CapacityRespected' /\ OrderInv'
  BY <1>1, QueueStep, CapacityStep, OrderStep DEF IInv
<1>3. NonceInv' /\ NonceOrder'
  BY <1>1, NonceStep, NonceOrderStep DEF IInv
<1>4. MinedInv' /\ AnswerInv'
  BY <1>1, MinedStep, AnswerStep DEF IInv
<1> QED
  BY <1>1, <1>2, <1>3, <1>4 DEF IInv

LEMMA Invariance == Spec => []IInv
BY InitInv, NextInv, PTL DEF Spec

\* Whatever the interleaving of the run loop, the timers, the clients and the chain,
\* the worker's counters stay in their bounds: no request is retried more than
\* maxTries times or requeued more than maxTries times, in either queue.
THEOREM WalletTypeCorrect == Spec => []TypeOK
<1>1. IInv => TypeOK
  BY DEF IInv, TypeInv
<1> QED
  BY <1>1, Invariance, PTL

\* For any number of requests, those taken from newRequestsQueue and not answered
\* never exceed maxPendingTransactions, the requeued ones included.
THEOREM CapacitySafe == Spec => []CapacityRespected
<1>1. IInv => CapacityRespected
  BY DEF IInv
<1> QED
  BY <1>1, Invariance, PTL

\* However often a request is retried, repriced, requeued and cancelled, and whatever
\* the node loses or forgets, at most one of its transactions is mined.
THEOREM MinedOnceSafe == Spec => []MinedOnce
<1>1. IInv => MinedOnce
  BY DEF IInv, MinedInv, MinedOnce, Live
<1> QED
  BY <1>1, Invariance, PTL

\* A client told that its transaction was cancelled can rely on it: the nonce is used
\* up, whichever of the transactions at it was mined.
THEOREM CancelledIsSettledSafe == Spec => []CancelledIsSettled
<1>1. IInv => CancelledIsSettled
  BY DEF IInv, AnswerInv
<1> QED
  BY <1>1, Invariance, PTL

\* While the node forgets nothing, the worker's nonce is never beyond the node's
\* pending one: every accepted transaction can be mined in its turn.
THEOREM NonceNeverAheadSafe == Spec => []NonceNeverAhead
<1>1. IInv => NonceNeverAhead
  BY NeverAhead DEF IInv
<1> QED
  BY <1>1, Invariance, PTL

\* While the node forgets nothing, requests that were not requeued get their nonces
\* in the order of their arrival, whatever retries come in between.
THEOREM NonceOrderSafe == Spec => []NonceOrder
<1>1. IInv => NonceOrder
  BY DEF IInv
<1> QED
  BY <1>1, Invariance, PTL
=============================================================================
