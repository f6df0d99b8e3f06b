------------------------------- MODULE Pricing -------------------------------
(***************************************************************************)
(* A PricingProvider of one chain: its cache, and the calls of getPrice    *)
(* that run in the pricing worker at the same time, for different ports.   *)
(***************************************************************************)
EXTENDS Integers

CONSTANTS
    Callers,    \* at most one call each
    Prices,
    CacheDuration, PricingMaxTries,
    MaxTime,            \* bound: the last instant
    MaxQueryFailures    \* bound: queries that fail

ASSUME PricingAssumption ==
    /\ Prices \subseteq Nat \ {0} /\ CacheDuration \in Nat /\ PricingMaxTries \in Nat \ {0}
    /\ MaxTime \in Nat /\ MaxQueryFailures \in Nat

VARIABLES
    now,
    market,     \* the price the service tells
    cachedGasPrice,
    calls,      \* of each caller: idle, or updating with what was cached at the
                \* start and the tries so far, or done with the price, and its
                \* age when it was taken
    queryFailures

pricingVars == <<now, market, cachedGasPrice, calls, queryFailures>>

NoPrice == [price |-> 0, timestamp |-> -1]
Idle == [at |-> "idle", cached |-> NoPrice, tryCount |-> 0, age |-> 0]

PricingInit ==
    /\ now = 0 /\ market \in Prices /\ cachedGasPrice = NoPrice
    /\ calls = [c \in Callers |-> Idle] /\ queryFailures = 0

Tick ==
    /\ now < MaxTime
    /\ now' = now + 1
    /\ UNCHANGED <<market, cachedGasPrice, calls, queryFailures>>

MarketMoves ==
    /\ market' \in Prices \ {market}
    /\ UNCHANGED <<now, cachedGasPrice, calls, queryFailures>>

\* Mutant: any cached price will do.
IsCached == cachedGasPrice # NoPrice

IsCacheValid == cachedGasPrice # NoPrice /\ now < cachedGasPrice.timestamp + CacheDuration

\* getPrice, up to the query of updateCoinPrice.
GetPrice(c) ==
    /\ calls[c].at = "idle"
    /\ calls' = [calls EXCEPT ![c] =
           [at |-> IF IsCacheValid THEN "done" ELSE "updating", cached |-> cachedGasPrice, tryCount |-> 0,
            age |-> IF IsCacheValid THEN now - cachedGasPrice.timestamp ELSE 0]]
    /\ UNCHANGED <<now, market, cachedGasPrice, queryFailures>>

\* queryCoinPrice succeeds.
QueryAnswered(c) ==
    LET latestPriceData == [price |-> market, timestamp |-> now]
    IN  /\ calls[c].at = "updating"
        /\ cachedGasPrice' = latestPriceData
        /\ calls' = [calls EXCEPT ![c].at = "done", ![c].cached = latestPriceData]
        /\ UNCHANGED <<now, market, queryFailures>>

GivesUp(call) == call.cached # NoPrice /\ call.tryCount + 1 >= PricingMaxTries

\* It fails: another try, or the price that was cached when the call began. A
\* price never known is queried for ever.
QueryFails(c) ==
    /\ calls[c].at = "updating" /\ queryFailures < MaxQueryFailures
    /\ queryFailures' = queryFailures + 1
    /\ calls' = [calls EXCEPT ![c].tryCount = @ + 1, ![c].at = IF GivesUp(calls[c]) THEN "done" ELSE "updating"]
    /\ UNCHANGED <<now, market, cachedGasPrice>>

\* The answer on the port.
TakePrice(c) ==
    /\ calls[c].at = "done"
    /\ calls' = [calls EXCEPT ![c] = Idle]
    /\ UNCHANGED <<now, market, cachedGasPrice, queryFailures>>

PricingTypeOK ==
    /\ now \in 0..MaxTime /\ market \in Prices /\ queryFailures \in 0..MaxQueryFailures
    /\ cachedGasPrice \in [price : Prices, timestamp : 0..now] \cup {NoPrice}
    /\ calls \in [Callers -> [at : {"idle", "updating", "done"}, tryCount : Nat,
                              cached : [price : Prices, timestamp : 0..now] \cup {NoPrice}, age : 0..MaxTime]]

\* A call gives a known price, and one past its time only after as many failed
\* queries as are configured.
PriceInTime ==
    \A c \in Callers : calls[c].at = "done" =>
        /\ calls[c].cached # NoPrice
        /\ \/ calls[c].tryCount >= PricingMaxTries
           \/ calls[c].age = 0 \/ calls[c].age < CacheDuration
=============================================================================
