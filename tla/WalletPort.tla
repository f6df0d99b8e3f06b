------------------------------ MODULE WalletPort ------------------------------
(***************************************************************************)
(* The way of a transaction request from a submitter to the wallet worker  *)
(* of a chain and back: WalletInterface in the submitter's thread, the     *)
(* port, WalletService in the main thread, the worker thread. A worker     *)
(* that ends is replaced, and everyone waiting is told that it crashed.    *)
(***************************************************************************)
EXTENDS Integers, FiniteSets, Sequences

CONSTANTS Orders, MaxCrashes    \* bound: ends of the wallet worker
ASSUME PortAssumption == MaxCrashes \in Nat

VARIABLES
    nextId,     \* portMessageId
    listener,   \* the message id each order's promise listens to, 0 if none
    toWallet,   \* messages on the port to the service: [id, order]
    held,       \* requests the worker has: [id, order, sent]
    toSubmitter,\* messages on the port to the submitter: [id, order, result], or
                \* Crashed, the broadcast; the order is the request's metadata
    crashes,
    txs         \* history: transactions sent for each order, less the failures
                \* told of it

portVars == <<nextId, listener, toWallet, held, toSubmitter, crashes, txs>>

Results == {"confirmed", "failed"}
Crashed == [id |-> 0, result |-> "failed"]

PortInit ==
    /\ nextId = 1 /\ listener = [o \in Orders |-> 0]
    /\ toWallet = <<>> /\ held = {} /\ toSubmitter = <<>>
    /\ crashes = 0 /\ txs = [o \in Orders |-> 0]

\* WalletInterface.submitTransaction, up to its promise.
SubmitTransaction(o) ==
    /\ nextId' = nextId + 1
    /\ listener' = [listener EXCEPT ![o] = nextId]
    /\ toWallet' = Append(toWallet, [id |-> nextId, order |-> o])
    /\ UNCHANGED <<held, toSubmitter, crashes, txs>>

\* The service hands a request to the worker of the moment.
HandleWalletPortData ==
    /\ toWallet # <<>>
    /\ held' = held \cup {[id |-> Head(toWallet).id, order |-> Head(toWallet).order, sent |-> FALSE]}
    /\ toWallet' = Tail(toWallet)
    /\ UNCHANGED <<nextId, listener, toSubmitter, crashes, txs>>

\* The worker (see WalletWorker) sends the transaction of a request ...
SendTransaction(r) ==
    /\ r \in held /\ ~r.sent
    /\ held' = (held \ {r}) \cup {[r EXCEPT !.sent = TRUE]}
    /\ txs' = [txs EXCEPT ![r.order] = @ + 1]
    /\ UNCHANGED <<nextId, listener, toWallet, toSubmitter, crashes>>

\* ... and answers it: confirmed, if it was sent; or with an error.
SendResult(r, result) ==
    /\ r \in held /\ (result = "confirmed" => r.sent)
    /\ held' = held \ {r}
    /\ toSubmitter' = Append(toSubmitter, [id |-> r.id, order |-> r.order, result |-> result])
    /\ UNCHANGED <<nextId, listener, toWallet, crashes, txs>>

\* Mutant: the requests of the worker that ended are given to the new one.
WorkerExitsRequeue ==
    /\ crashes < MaxCrashes
    /\ crashes' = crashes + 1
    /\ held' = {[r EXCEPT !.sent = FALSE] : r \in held}
    /\ toSubmitter' = Append(toSubmitter, Crashed)
    /\ UNCHANGED <<nextId, listener, toWallet, txs>>

\* The exit handler: abort what is pending, start a worker. The new worker is
\* in place before the service takes the next message of a port.
WorkerExits ==
    /\ crashes < MaxCrashes
    /\ crashes' = crashes + 1
    /\ held' = {}
    /\ toSubmitter' = Append(toSubmitter, Crashed)
    /\ UNCHANGED <<nextId, listener, toWallet, txs>>

\* Mutant: the broadcast is not listened to.
ResolvedIgnoringCrash ==
    {o \in Orders : listener[o] # 0 /\ Head(toSubmitter).id = listener[o]}

\* The orders whose promise the next message resolves, with its result.
Resolved ==
    {o \in Orders : listener[o] # 0 /\ (Head(toSubmitter).id = listener[o] \/ Head(toSubmitter) = Crashed)}

\* The listeners of the port, up to the promises they resolve.
Receive ==
    /\ toSubmitter # <<>>
    /\ toSubmitter' = Tail(toSubmitter)
    /\ listener' = [o \in Orders |-> IF o \in Resolved THEN 0 ELSE listener[o]]
    /\ txs' = [o \in Orders |->
          IF o \in Resolved /\ Head(toSubmitter).result = "failed" THEN txs[o] - 1 ELSE txs[o]]
    /\ UNCHANGED <<nextId, toWallet, held, crashes>>

-----------------------------------------------------------------------------
PortTypeOK ==
    /\ nextId \in Nat /\ listener \in [Orders -> Nat] /\ crashes \in 0..MaxCrashes
    /\ toWallet \in Seq([id : Nat, order : Orders])
    /\ held \in SUBSET [id : Nat, order : Orders, sent : BOOLEAN]
    /\ toSubmitter \in Seq([id : Nat, order : Orders, result : Results] \cup {Crashed})
    /\ txs \in [Orders -> Int]

\* While a promise is pending there is something that will resolve it: its
\* request on its way, with the worker, its answer, or the news of a crash.
Requests(id) ==
    \/ \E j \in DOMAIN toWallet : toWallet[j].id = id
    \/ \E r \in held : r.id = id
    \/ \E j \in DOMAIN toSubmitter : toSubmitter[j].id \in {id, Crashed.id}
NoPromiseForgotten == \A o \in Orders : listener[o] # 0 => Requests(listener[o])
=============================================================================
