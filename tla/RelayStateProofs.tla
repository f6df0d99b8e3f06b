--------------------------- MODULE RelayStateProofs ---------------------------
(***************************************************************************)
(* Proofs about RelayState: as long as no call has overwritten a value it  *)
(* had not read, the stored state is that of all the events written, and   *)
(* its status never goes back.                                             *)
(***************************************************************************)
EXTENDS RelayState, TLAPS

LoggedEvents == {e \in Event : e.kind = "increased" <=> e.price # NoPrice}

\* s is the state of the events D.
IsOf(s, D) ==
    /\ s.placed = (\E e \in D : e.kind = "placed")
    /\ s.delivered = (\E e \in D : e.kind = "delivered")
    /\ s.claimed = (\E e \in D : e.kind = "claimed")
    /\ s.cost = (\E e \in D : e.kind = "cost")
    /\ s.price = NoPrice <=> ~(\E e \in D : e.kind = "increased")
    /\ s.price # NoPrice => [kind |-> "increased", price |-> s.price] \in D
    /\ \A e \in D : e.kind = "increased" => ~Higher(e.price, s.price)
    /\ s.status = Status(s.delivered, s.claimed)

\* The next event of a log is an event, with a price exactly when it is an increase.
LEMMA NextEventFacts ==
    ASSUME TypeOK, NEW w \in Writers, call[w] # "none"
    PROVE  NextEvent(w) \in LoggedEvents
<1>1. pos[w] \in 1..Len(Log[w]) /\ Log[w] \in Seq(Event)
  BY LogAssumption DEF TypeOK
<1>2. Log[w][pos[w]] \in Event
  BY <1>1
<1> QED
  BY <1>1, <1>2, LogAssumption DEF NextEvent, LoggedEvents

\* Merging an event into a state of the right type gives one.
LEMMA MergeType ==
    ASSUME NEW s \in State \cup {Null}, NEW e \in LoggedEvents
    PROVE  Merge(s, e) \in State
<1> DEFINE current == IF s = Null THEN NoEvents ELSE s
<1>1. current \in State
  BY DEF State, NoEvents, BountyPlaced
<1>2. MergedPrice(current.price, e) \in Prices \cup {NoPrice}
  BY <1>1 DEF MergedPrice, State, LoggedEvents, Event
<1>3. \A d, c \in BOOLEAN : Status(d, c) \in {BountyPlaced, MessageDelivered, BountyClaimed}
  BY DEF Status
<1> QED
  BY <1>1, <1>2, <1>3 DEF Merge, State

\* Merging keeps the highest price: the highest of the events and of the new one.
LEMMA MergePrice ==
    ASSUME NEW p \in Prices \cup {NoPrice}, NEW e \in LoggedEvents,
           NEW D \in SUBSET LoggedEvents,
           p = NoPrice <=> ~(\E x \in D : x.kind = "increased"),
           p # NoPrice => [kind |-> "increased", price |-> p] \in D,
           \A x \in D : x.kind = "increased" => ~Higher(x.price, p)
    PROVE  LET q == MergedPrice(p, e) IN
           /\ q = NoPrice <=> ~(\E x \in D \cup {e} : x.kind = "increased")
           /\ q # NoPrice => [kind |-> "increased", price |-> q] \in D \cup {e}
           /\ \A x \in D \cup {e} : x.kind = "increased" => ~Higher(x.price, q)
<1> DEFINE q == MergedPrice(p, e)
<1>1. CASE e.kind # "increased"
  <2>1. q = p
    BY <1>1 DEF MergedPrice
  <2> QED
    BY <1>1, <2>1
<1>2. CASE e.kind = "increased" /\ p # NoPrice /\ ~Higher(e.price, p)
  <2>1. q = p
    BY <1>2 DEF MergedPrice
  <2> QED
    BY <1>2, <2>1
<1>3. CASE e.kind = "increased" /\ (p = NoPrice \/ Higher(e.price, p))
  <2>1. q = e.price /\ e.price \in Prices
    BY <1>3 DEF MergedPrice, LoggedEvents, Event
  <2>2. e = [kind |-> "increased", price |-> e.price]
    BY <1>3 DEF LoggedEvents, Event
  <2>3. \A x \in D \cup {e} : x.kind = "increased" => ~Higher(x.price, q)
    <3> SUFFICES ASSUME NEW x \in D \cup {e}, x.kind = "increased"
                 PROVE  ~Higher(x.price, e.price)
      BY <2>1
    <3>1. CASE x = e
      BY <3>1, <2>1, PricesGrow DEF Higher
    <3>2. CASE x \in D
      <4>1. p # NoPrice /\ p \in Prices /\ ~Higher(x.price, p) /\ Higher(e.price, p)
        BY <1>3, <3>2
      <4>2. x.price \in Prices
        BY <3>2 DEF LoggedEvents, Event
      <4>3. ~Higher(p, e.price)
        BY <4>1, <2>1, PricesGrow
      <4>4. /\ p[1] \in Nat /\ p[2] \in Nat
            /\ e.price[1] \in Nat /\ e.price[2] \in Nat
            /\ x.price[1] \in Nat /\ x.price[2] \in Nat
        BY <4>1, <4>2, <2>1, PricesGrow
      <4> QED
        BY <4>1, <4>3, <4>4 DEF Higher
    <3> QED
      BY <3>1, <3>2
  <2>4. q # NoPrice /\ e \in D \cup {e}
    BY <2>1, PricesGrow
  <2> QED
    BY <1>3, <2>1, <2>2, <2>3, <2>4
<1> QED
  BY <1>1, <1>2, <1>3

\* Merging an event into the state of some events gives the state of them all.
LEMMA MergeIsOfAll ==
    ASSUME NEW s \in State \cup {Null}, NEW e \in LoggedEvents,
           NEW D \in SUBSET LoggedEvents,
           s = Null => D = {},
           s # Null => IsOf(s, D)
    PROVE  IsOf(Merge(s, e), D \cup {e})
<1> DEFINE current == IF s = Null THEN NoEvents ELSE s
           m == Merge(s, e)
<1>1. current \in State
  BY DEF State, NoEvents, BountyPlaced
<1>2. IsOf(current, D)
  BY DEF IsOf, NoEvents, Status
<1>3. /\ m.placed = (current.placed \/ e.kind = "placed")
      /\ m.delivered = (current.delivered \/ e.kind = "delivered")
      /\ m.claimed = (current.claimed \/ e.kind = "claimed")
      /\ m.cost = (current.cost \/ e.kind = "cost")
      /\ m.price = MergedPrice(current.price, e)
      /\ m.status = Status(m.delivered, m.claimed)
  BY DEF Merge
<1>4. /\ m.price = NoPrice <=> ~(\E x \in D \cup {e} : x.kind = "increased")
      /\ m.price # NoPrice => [kind |-> "increased", price |-> m.price] \in D \cup {e}
      /\ \A x \in D \cup {e} : x.kind = "increased" => ~Higher(x.price, m.price)
  <2>1. current.price \in Prices \cup {NoPrice}
    BY <1>1 DEF State
  <2>2. /\ current.price = NoPrice <=> ~(\E x \in D : x.kind = "increased")
        /\ current.price # NoPrice => [kind |-> "increased", price |-> current.price] \in D
        /\ \A x \in D : x.kind = "increased" => ~Higher(x.price, current.price)
    BY <1>2 DEF IsOf
  <2> HIDE DEF current, m
  <2> QED
    BY <1>3, <2>1, <2>2, MergePrice
<1>5. /\ m.placed = (\E x \in D \cup {e} : x.kind = "placed")
      /\ m.delivered = (\E x \in D \cup {e} : x.kind = "delivered")
      /\ m.claimed = (\E x \in D \cup {e} : x.kind = "claimed")
      /\ m.cost = (\E x \in D \cup {e} : x.kind = "cost")
  <2>1. /\ current.placed = (\E x \in D : x.kind = "placed")
        /\ current.delivered = (\E x \in D : x.kind = "delivered")
        /\ current.claimed = (\E x \in D : x.kind = "claimed")
        /\ current.cost = (\E x \in D : x.kind = "cost")
    BY <1>2 DEF IsOf
  <2> HIDE DEF current, m
  <2> QED
    BY <1>3, <2>1
<1> HIDE DEF m
<1> QED
  BY <1>3, <1>4, <1>5 DEF IsOf, m

-----------------------------------------------------------------------------
\* The type invariant, for any writers, logs and bounds.
THEOREM TypeCorrect == Spec => []TypeOK
<1>1. Init => TypeOK
  <2> SUFFICES ASSUME Init PROVE TypeOK
    OBVIOUS
  <2>1. /\ \A w \in Writers : call[w] # "none" => pos[w] <= Len(Log[w])
        /\ call \in [Writers -> {"none", "write", "publish"}]
        /\ seen \in [Writers -> State \cup {Null}]
    BY DEF Init
  <2>2. pos \in [Writers -> Nat \ {0}]
    BY DEF Init
  <2>3. restarts \in 0..MaxRestarts /\ failures \in 0..MaxFailures
    BY BoundsAssumption DEF Init
  <2> QED
    BY <2>1, <2>2, <2>3 DEF Init, TypeOK
<1>2. TypeOK /\ [Next]_vars => TypeOK'
  <2> SUFFICES ASSUME TypeOK, [Next]_vars PROVE TypeOK'
    OBVIOUS
  <2> USE BoundsAssumption
  <2>1. ASSUME NEW w \in Writers, ReadState(w) PROVE TypeOK'
    BY <2>1 DEF TypeOK, ReadState
  <2>2. ASSUME NEW w \in Writers, WriteState(w) PROVE TypeOK'
    <3>1. NextEvent(w) \in LoggedEvents
      BY <2>2, NextEventFacts DEF WriteState
    <3>2. seen[w] \in State \cup {Null}
      BY DEF TypeOK
    <3>3. stored' \in State
      BY <2>2, <3>1, <3>2, MergeType DEF WriteState
    <3>4. done' \subseteq LoggedEvents
      BY <2>2, <3>1 DEF WriteState, TypeOK, LoggedEvents
    <3> QED
      BY <2>2, <3>3, <3>4 DEF TypeOK, WriteState, LoggedEvents
  <2>3. ASSUME NEW w \in Writers, PublishKeyChange(w) PROVE TypeOK'
    <3>1. /\ call' \in [Writers -> {"none", "write", "publish"}]
          /\ pos' \in [Writers -> Nat \ {0}]
      BY <2>3 DEF TypeOK, PublishKeyChange
    <3>2. \A v \in Writers : call'[v] # "none" => call[v] # "none" /\ pos'[v] = pos[v]
      BY <2>3 DEF TypeOK, PublishKeyChange
    <3> QED
      BY <2>3, <3>1, <3>2 DEF TypeOK, PublishKeyChange
  <2>4. ASSUME NEW w \in Writers, StoreFails(w) PROVE TypeOK'
    BY <2>4 DEF TypeOK, StoreFails
  <2>5. CASE Restart
    <3>1. PICK skip \in [Scanners -> Skipped] :
            pos' = [w \in Writers |-> CASE w \in Scanners -> 1 + skip[w]
                                        [] w \notin Scanners /\ call[w] # "none" -> pos[w] + 1
                                        [] OTHER -> pos[w]]
      BY <2>5 DEF Restart
    <3>2. pos' \in [Writers -> Nat \ {0}]
      BY <3>1 DEF TypeOK
    <3> QED
      BY <2>5, <3>2 DEF TypeOK, Restart
  <2>6. CASE UNCHANGED vars
    BY <2>6 DEF TypeOK, vars
  <2> QED
    BY <2>1, <2>2, <2>3, <2>4, <2>5, <2>6 DEF Next, Call
<1> QED
  BY <1>1, <1>2, PTL DEF Spec

\* What is inductive: without an overwriting, nothing is written yet, or the state
\* is that of the events written.
NotRaced == ~raced => IF stored = Null THEN done = {} ELSE IsOf(stored, done)

LEMMA NotRacedInvariant == Spec => []NotRaced
<1>1. Init => NotRaced
  BY DEF Init, NotRaced
<1>2. TypeOK /\ NotRaced /\ [Next]_vars => NotRaced'
  <2> SUFFICES ASSUME TypeOK, NotRaced, [Next]_vars PROVE NotRaced'
    OBVIOUS
  <2>1. ASSUME NEW w \in Writers, WriteState(w) PROVE NotRaced'
    <3> SUFFICES ASSUME ~raced' PROVE stored' # Null /\ IsOf(stored', done')
      BY DEF NotRaced
    <3>1. ~raced /\ seen[w] = stored
      BY <2>1 DEF WriteState, TypeOK
    <3>2. NextEvent(w) \in LoggedEvents
      BY <2>1, NextEventFacts DEF WriteState
    <3>3. stored \in State \cup {Null} /\ done \in SUBSET LoggedEvents
      BY DEF TypeOK, LoggedEvents
    <3>4. (stored = Null => done = {}) /\ (stored # Null => IsOf(stored, done))
      BY <3>1 DEF NotRaced
    <3>5. IsOf(Merge(stored, NextEvent(w)), done \cup {NextEvent(w)})
      BY <3>2, <3>3, <3>4, MergeIsOfAll
    <3>6. Merge(stored, NextEvent(w)) # Null
      BY <3>2, <3>3, MergeType, NullAssumption
    <3> QED
      BY <2>1, <3>1, <3>5, <3>6 DEF WriteState
  <2>2. ASSUME UNCHANGED <<stored, done, raced>> PROVE NotRaced'
    BY <2>2 DEF NotRaced
  <2>3. ASSUME NEW w \in Writers, ReadState(w) \/ PublishKeyChange(w) \/ StoreFails(w)
        PROVE  UNCHANGED <<stored, done, raced>>
    BY <2>3 DEF ReadState, PublishKeyChange, StoreFails
  <2>4. ASSUME Restart \/ UNCHANGED vars PROVE UNCHANGED <<stored, done, raced>>
    BY <2>4 DEF Restart, vars
  <2> QED
    BY <2>1, <2>2, <2>3, <2>4 DEF Next, Call
<1> QED
  BY <1>1, <1>2, TypeCorrect, PTL DEF Spec

\* Events come late, again and out of order, and still the stored state is that of
\* all of them, for every log and any number of restarts and failures.
THEOREM StateIsExact == Spec => []StateIsOfAllEvents
<1>1. NotRaced => StateIsOfAllEvents
  <2> SUFFICES ASSUME NotRaced, ~raced, stored # Null PROVE StateIsOfAllEvents
    BY DEF StateIsOfAllEvents
  <2>1. IsOf(stored, done)
    BY DEF NotRaced
  <2>2. stored.status = IF Occurred("claimed") THEN BountyClaimed
                        ELSE IF Occurred("delivered") THEN MessageDelivered
                        ELSE BountyPlaced
    BY <2>1 DEF IsOf, Status, Occurred
  <2> QED
    BY <2>1, <2>2 DEF IsOf, StateIsOfAllEvents, Occurred
<1> QED
  BY <1>1, NotRacedInvariant, PTL

\* A write that overwrites nothing unread never takes the status back.
THEOREM StatusIsMonotone == Spec => StatusNeverGoesBack
<1> DEFINE Step == ~raced' /\ stored # Null => stored'.status >= stored.status
<1>1. TypeOK /\ NotRaced /\ [Next]_vars => [Step]_vars
  <2> SUFFICES ASSUME TypeOK, NotRaced, [Next]_vars, ~raced', stored # Null
               PROVE  stored'.status >= stored.status
    OBVIOUS
  <2>1. stored.status \in {0, 1, 2}
    BY DEF TypeOK, State, BountyPlaced, MessageDelivered, BountyClaimed
  <2>2. ASSUME NEW w \in Writers, WriteState(w) PROVE stored'.status >= stored.status
    <3>1. ~raced /\ seen[w] = stored
      BY <2>2 DEF WriteState, TypeOK
    <3>2. stored.status = Status(stored.delivered, stored.claimed)
      BY <3>1 DEF NotRaced, IsOf
    <3>3. stored'.status = Status(stored.delivered \/ NextEvent(w).kind = "delivered",
                                  stored.claimed \/ NextEvent(w).kind = "claimed")
      BY <2>2, <3>1 DEF WriteState, Merge
    <3>4. stored.delivered \in BOOLEAN /\ stored.claimed \in BOOLEAN
      BY DEF TypeOK, State
    <3> QED
      BY <3>2, <3>3, <3>4 DEF Status, BountyPlaced, MessageDelivered, BountyClaimed
  <2>3. ASSUME UNCHANGED stored PROVE stored'.status >= stored.status
    BY <2>1, <2>3
  <2>4. ASSUME NEW w \in Writers, ReadState(w) \/ PublishKeyChange(w) \/ StoreFails(w)
        PROVE  UNCHANGED stored
    BY <2>4 DEF ReadState, PublishKeyChange, StoreFails
  <2>5. ASSUME Restart \/ UNCHANGED vars PROVE UNCHANGED stored
    BY <2>5 DEF Restart, vars
  <2> QED
    BY <2>2, <2>3, <2>4, <2>5 DEF Next, Call
<1> QED
  BY <1>1, TypeCorrect, NotRacedInvariant, PTL DEF Spec, StatusNeverGoesBack
=============================================================================
