------------------------------ MODULE RelayState ------------------------------
(***************************************************************************)
(* The state of one relay in the store: the workers that register its      *)
(* events call updateRelayState, which reads the state from redis, merges  *)
(* the event into it and writes it back, in three separate awaits. The     *)
(* getters of the two chains read their events from logs, and read them    *)
(* again after a restart; the submitter registers the delivery cost.       *)
(***************************************************************************)
EXTENDS Naturals, Sequences

CONSTANTS
    Writers,        \* the workers that call the store
    Scanners,       \* those that read a chain, and read it again after a restart
    Log,            \* the events of this relay each of them registers, in order
    Prices,         \* prices <<delivery, ack>> of the bounty's increases
    NoPrice, Null,  \* undefined; no state is stored
    Skipped,        \* how many of its events may lie before the block that a
                    \* restarted scanner starts at (startingBlock)
    MaxRestarts,    \* bound: restarts
    MaxFailures     \* bound: redis calls that fail

Kinds == {"placed", "delivered", "claimed", "increased", "cost"}
Event == [kind : Kinds, price : Prices \cup {NoPrice}]

Higher(p, q) == p[1] > q[1] \/ p[2] > q[2]

\* "if either field increases, it is guaranteed that the other field will not
\* have decreased": the escrow contract's promise.
ASSUME PricesGrow ==
    /\ Prices \subseteq Nat \X Nat /\ NoPrice \notin Prices
    /\ \A p, q \in Prices : Higher(p, q) => ~Higher(q, p)
ASSUME LogAssumption ==
    /\ Scanners \subseteq Writers
    /\ Log \in [Writers -> Seq(Event)]
    /\ \A w \in Writers : \A j \in 1..Len(Log[w]) :
        Log[w][j].kind = "increased" <=> Log[w][j].price # NoPrice
ASSUME BoundsAssumption == MaxRestarts \in Nat /\ MaxFailures \in Nat /\ Skipped \subseteq Nat

\* RelayStatus
BountyPlaced == 0
MessageDelivered == 1
BountyClaimed == 2

State == [placed : BOOLEAN, delivered : BOOLEAN, claimed : BOOLEAN, cost : BOOLEAN,
          price : Prices \cup {NoPrice}, status : {BountyPlaced, MessageDelivered, BountyClaimed}]

NoEvents == [placed |-> FALSE, delivered |-> FALSE, claimed |-> FALSE, cost |-> FALSE,
             price |-> NoPrice, status |-> BountyPlaced]

ASSUME NullAssumption == Null \notin State

VARIABLES
    stored,     \* the value under the relay's key
    call,       \* what each writer's call awaits: nothing, the write, or the publication
    seen,       \* the value each writer's call has read
    pos,        \* the next event of its log
    unannounced,\* the value has been written and no key change published since
    restarts, failures,
    done,       \* history: the events that have been written
    raced       \* history: a call has overwritten a value it had not read

vars == <<stored, call, seen, pos, unannounced, restarts, failures, done, raced>>

Init ==
    /\ stored = Null
    /\ call = [w \in Writers |-> "none"]
    /\ seen = [w \in Writers |-> Null]
    /\ pos = [w \in Writers |-> 1]
    /\ unannounced = FALSE
    /\ restarts = 0 /\ failures = 0
    /\ done = {} /\ raced = FALSE

-----------------------------------------------------------------------------
\* Mutant: the newest increase wins.
MergedPriceNewest(p, e) == IF e.kind = "increased" THEN e.price ELSE p

MergedPrice(p, e) ==
    IF e.kind = "increased" /\ (p = NoPrice \/ Higher(e.price, p)) THEN e.price ELSE p

\* Mutant: the delivery is looked at first.
StatusDeliveredFirst(delivered, claimed) ==
    IF delivered THEN MessageDelivered ELSE IF claimed THEN BountyClaimed ELSE BountyPlaced

Status(delivered, claimed) ==
    CASE claimed -> BountyClaimed
      [] ~claimed /\ delivered -> MessageDelivered
      [] OTHER -> BountyPlaced

\* The existing state, or none, with the event merged into it.
Merge(s, e) ==
    LET current == IF s = Null THEN NoEvents ELSE s
        delivered == current.delivered \/ e.kind = "delivered"
        claimed == current.claimed \/ e.kind = "claimed"
    IN  [placed |-> current.placed \/ e.kind = "placed",
         delivered |-> delivered,
         claimed |-> claimed,
         cost |-> current.cost \/ e.kind = "cost",
         price |-> MergedPrice(current.price, e),
         status |-> Status(delivered, claimed)]

NextEvent(w) == Log[w][pos[w]]

ReadState(w) ==
    /\ call[w] = "none" /\ pos[w] <= Len(Log[w])
    /\ seen' = [seen EXCEPT ![w] = stored]
    /\ call' = [call EXCEPT ![w] = "write"]
    /\ UNCHANGED <<stored, pos, unannounced, restarts, failures, done, raced>>

\* Mutant: a state that the event leaves as it is is neither written nor announced.
WriteChangedState(w) ==
    /\ call[w] = "write"
    /\ LET merged == Merge(seen[w], NextEvent(w)) IN
        /\ stored' = merged
        /\ call' = [call EXCEPT ![w] = IF merged = seen[w] THEN "none" ELSE "publish"]
        /\ pos' = IF merged = seen[w] THEN [pos EXCEPT ![w] = @ + 1] ELSE pos
        /\ unannounced' = (unannounced \/ merged # seen[w])
    /\ done' = done \cup {NextEvent(w)}
    /\ raced' = (raced \/ seen[w] # stored)
    /\ seen' = [seen EXCEPT ![w] = Null]
    /\ UNCHANGED <<restarts, failures>>

WriteState(w) ==
    /\ call[w] = "write"
    /\ stored' = Merge(seen[w], NextEvent(w))
    /\ unannounced' = TRUE
    /\ done' = done \cup {NextEvent(w)}
    /\ raced' = (raced \/ seen[w] # stored)
    /\ call' = [call EXCEPT ![w] = "publish"]
    /\ seen' = [seen EXCEPT ![w] = Null]
    /\ UNCHANGED <<pos, restarts, failures>>

\* The call of `set` ends: the key change is published.
PublishKeyChange(w) ==
    /\ call[w] = "publish"
    /\ unannounced' = FALSE
    /\ call' = [call EXCEPT ![w] = "none"]
    /\ pos' = [pos EXCEPT ![w] = @ + 1]
    /\ UNCHANGED <<stored, seen, restarts, failures, done, raced>>

\* A redis call fails: the worker logs the error and goes on to its next event.
StoreFails(w) ==
    /\ failures < MaxFailures
    /\ failures' = failures + 1
    /\ call[w] # "none"
    /\ call' = [call EXCEPT ![w] = "none"]
    /\ seen' = [seen EXCEPT ![w] = Null]
    /\ pos' = [pos EXCEPT ![w] = @ + 1]
    /\ UNCHANGED <<stored, unannounced, restarts, done, raced>>

\* The relayer restarts: a scanner starts again at its starting block; a cost that
\* was being registered is not registered again.
Restart ==
    /\ restarts < MaxRestarts
    /\ restarts' = restarts + 1
    /\ \E skip \in [Scanners -> Skipped] :
        pos' = [w \in Writers |-> CASE w \in Scanners -> 1 + skip[w]
                                   [] w \notin Scanners /\ call[w] # "none" -> pos[w] + 1
                                   [] OTHER -> pos[w]]
    /\ call' = [w \in Writers |-> "none"]
    /\ seen' = [w \in Writers |-> Null]
    /\ UNCHANGED <<stored, unannounced, failures, done, raced>>

Call(w) == ReadState(w) \/ WriteState(w) \/ PublishKeyChange(w)

Next ==
    \/ \E w \in Writers : Call(w) \/ StoreFails(w)
    \/ Restart

Spec == Init /\ [][Next]_vars

(* Redis answers; a worker goes on with its events.                        *)
FairSpec == Spec /\ \A w \in Writers : WF_vars(Call(w))

-----------------------------------------------------------------------------
TypeOK ==
    /\ stored \in State \cup {Null}
    /\ call \in [Writers -> {"none", "write", "publish"}]
    /\ seen \in [Writers -> State \cup {Null}]
    /\ pos \in [Writers -> Nat \ {0}]
    /\ \A w \in Writers : call[w] # "none" => pos[w] <= Len(Log[w])
    /\ unannounced \in BOOLEAN /\ raced \in BOOLEAN
    /\ restarts \in 0..MaxRestarts /\ failures \in 0..MaxFailures
    /\ done \subseteq {e \in Event : e.kind = "increased" <=> e.price # NoPrice}

Occurred(kind) == \E e \in done : e.kind = kind

\* Events come late, again and out of order, calls fail and workers restart, and
\* still the state is that of all the events written: each is in it, the price is
\* the highest, the status the furthest - as long as no call has overwritten a value
\* it had not read.
StateIsOfAllEvents ==
    ~raced /\ stored # Null =>
        /\ stored.placed = Occurred("placed")
        /\ stored.delivered = Occurred("delivered")
        /\ stored.claimed = Occurred("claimed")
        /\ stored.cost = Occurred("cost")
        /\ stored.price = NoPrice <=> ~Occurred("increased")
        /\ stored.price # NoPrice => [kind |-> "increased", price |-> stored.price] \in done
        /\ \A e \in done : e.kind = "increased" => ~Higher(e.price, stored.price)
        /\ stored.status = IF Occurred("claimed") THEN BountyClaimed
                           ELSE IF Occurred("delivered") THEN MessageDelivered
                           ELSE BountyPlaced

\* The status of a relay never goes back, unless by such an overwriting: a claimed
\* bounty is not taken for an open one.
StatusNeverGoesBack ==
    [][~raced' /\ stored # Null => stored'.status >= stored.status]_vars

\* Unless redis fails, each change of the state is announced to the persister: after
\* a crash between the write and the publication the replay announces it, while the
\* restarted scanner has an event of this relay ahead.
ChangesAnnounced == unannounced /\ failures = 0 ~> ~unannounced \/ failures > 0

\* "Only override the 'BountyIncreased' event data if the new prices are higher than
\* the currently registered ones (events may not be processed in order)."
PriceOnlyGrows ==
    [][stored # Null /\ stored.price # NoPrice /\ stored' # stored
        => stored'.price # NoPrice /\ ~Higher(stored.price, stored'.price)]_vars
=============================================================================
