-------------------------- MODULE TransactionHelper --------------------------
(***************************************************************************)
(* TransactionHelper, which a wallet worker asks for the fees of its       *)
(* transactions and keeps its idea of the balance in, with the chain as    *)
(* far as these go: a transaction of the worker, repriced and cancelled,   *)
(* mined and settled. WalletWorker has the nonces and the queues.          *)
(***************************************************************************)
EXTENDS Integers

CONSTANTS
    Networks,   \* the fee data a chain may tell
    GasPriceAdjustmentFactor, MaxPriorityFeeAdjustmentFactor, PriorityAdjustmentFactor, \* times FeeBase
    MaxAllowedGasPrice, MaxFeePerGas, MaxAllowedPriorityFeePerGas,  \* or None
    LowBalanceWarning, BalanceUpdateInterval,
    MaxTries,   \* of a confirmation, and of a cancellation
    MaxValue,   \* bound: sent with a transaction
    MaxBalance  \* bound: of the account, with what is unregistered

None == -1      \* undefined
FeeBase == 10000
Fee == [gasPrice : Nat \cup {None}, maxFeePerGas : Nat \cup {None}, maxPriorityFeePerGas : Nat \cup {None}]
NoFees == [gasPrice |-> None, maxFeePerGas |-> None, maxPriorityFeePerGas |-> None]

ASSUME HelperAssumption ==
    /\ Networks \subseteq Fee /\ Networks # {}
    /\ GasPriceAdjustmentFactor \in Nat /\ MaxPriorityFeeAdjustmentFactor \in Nat
    /\ PriorityAdjustmentFactor \in Nat /\ PriorityAdjustmentFactor >= FeeBase
    /\ {MaxAllowedGasPrice, MaxFeePerGas, MaxAllowedPriorityFeePerGas} \subseteq Nat \cup {None}
    /\ LowBalanceWarning \in Nat /\ BalanceUpdateInterval \in Nat
    /\ MaxTries \in Nat \ {0} /\ MaxValue \in Nat /\ MaxBalance \in Nat

VARIABLES
    network,    \* the fee data of the moment
    feeData,
    tx,         \* none, pending or how it was mined: succeeded, reverted or cancelled;
                \* the worker has one to confirm at a time
    stage,      \* of a pending one: waiting, repriced, cancelling, or cancelSent
    tries,      \* of its confirmation, from the first wait, or of its cancellation
    fees,       \* of the transaction
    offer,      \* of its last reprice or cancellation, NoFees if there is none
    held,       \* what the node has for its nonce
    value,      \* sent with the transaction
    account,    \* the balance on the chain, without the pending transaction
    unregistered,   \* history: spent and not registered since the last update of
    walletBalance, transactionsSinceLastBalanceUpdate, isBalanceLow

feeVars == <<network, feeData, fees, offer, held>>
txVars == <<tx, stage, tries, value>>
balanceVars == <<unregistered, walletBalance, transactionsSinceLastBalanceUpdate, isBalanceLow>>
helperVars == <<feeVars, txVars, account, balanceVars>>

-----------------------------------------------------------------------------
Scaled(fee, factor) == IF fee = None THEN None ELSE (fee * factor) \div FeeBase
Capped(fee, cap) == IF cap # None /\ cap < fee THEN cap ELSE fee

\* getAdjustedFeeData: the priority factor comes on top of the caps.
AdjustedFeeData(data, priority) ==
    LET Raised(fee) == IF priority THEN Scaled(fee, PriorityAdjustmentFactor) ELSE fee
    IN  [gasPrice |-> Raised(Capped(Scaled(data.gasPrice, GasPriceAdjustmentFactor), MaxAllowedGasPrice)),
         maxFeePerGas |-> Raised(IF MaxFeePerGas \in {None, 0} THEN data.maxFeePerGas ELSE MaxFeePerGas),
         maxPriorityFeePerGas |->
             Raised(Capped(Scaled(data.maxPriorityFeePerGas, MaxPriorityFeeAdjustmentFactor),
                           MaxAllowedPriorityFeePerGas))]

FeeDataForTransaction(data, priority) ==
    LET adjusted == AdjustedFeeData(data, priority)
    IN  IF adjusted.maxPriorityFeePerGas # None
        THEN [adjusted EXCEPT !.gasPrice = None]
        ELSE [NoFees EXCEPT !.gasPrice = adjusted.gasPrice]

\* Mutant: the fee of the moment, if it is known.
LargestFeeOfMoment(previousFee, priorityFee) ==
    IF previousFee = None THEN None
    ELSE IF priorityFee = None THEN Scaled(previousFee, PriorityAdjustmentFactor) ELSE priorityFee

LargestFee(previousFee, priorityFee) ==
    LET increased == Scaled(previousFee, PriorityAdjustmentFactor)
    IN  IF previousFee # None /\ priorityFee > increased THEN priorityFee ELSE increased

IncreasedFeeData(data, original) ==
    [field \in DOMAIN original |-> LargestFee(original[field], FeeDataForTransaction(data, TRUE)[field])]

\* The signer fills in the fees of a transaction that has none.
Populated(data) ==
    IF data # NoFees THEN data
    ELSE IF network.maxPriorityFeePerGas # None THEN [network EXCEPT !.gasPrice = None] ELSE network

-----------------------------------------------------------------------------
GasCost == 1    \* of every transaction; one that fails sends no value
Mined == {"succeeded", "reverted", "cancelled"}
Spent(outcome) == IF outcome = "succeeded" THEN GasCost + value ELSE GasCost

\* provider.getBalance(..., 'pending').
PendingBalance == IF tx = "pending" THEN account - Spent("succeeded") ELSE account

\* updateFeeData fails, with stale data, or not.
UpdateFeeData(updated) == feeData' = IF updated THEN network ELSE feeData

\* updateWalletBalance, when it succeeds: its caller waits for that.
UpdateWalletBalance(balance) ==
    /\ walletBalance' = balance /\ unregistered' = 0
    /\ transactionsSinceLastBalanceUpdate' = 0
    /\ isBalanceLow' = (balance < LowBalanceWarning)

RunBalanceCheck ==
    IF isBalanceLow \/ transactionsSinceLastBalanceUpdate > BalanceUpdateInterval
    THEN UpdateWalletBalance(PendingBalance)
    ELSE UNCHANGED balanceVars

Less(balance, amount) == IF balance < amount THEN 0 ELSE balance - amount

\* Mutant: the boundary is looked for before the use is taken off.
RegisterBalanceUseAfterwards(amount) ==
    IF ~isBalanceLow /\ walletBalance < LowBalanceWarning THEN UpdateWalletBalance(PendingBalance)
    ELSE /\ walletBalance' = Less(walletBalance, amount) /\ unregistered' = Less(unregistered, amount)
         /\ transactionsSinceLastBalanceUpdate' = transactionsSinceLastBalanceUpdate + 1
         /\ UNCHANGED isBalanceLow

\* Mutant: uses are counted, not taken off.
RegisterBalanceUseCounts(amount) ==
    /\ transactionsSinceLastBalanceUpdate' = transactionsSinceLastBalanceUpdate + 1
    /\ unregistered' = Less(unregistered, amount)
    /\ UNCHANGED <<walletBalance, isBalanceLow>>

\* Crossing the boundary leads to an update.
RegisterBalanceUse(amount) ==
    LET left == Less(walletBalance, amount)
    IN  IF ~isBalanceLow /\ left < LowBalanceWarning THEN UpdateWalletBalance(PendingBalance)
        ELSE /\ walletBalance' = left /\ unregistered' = Less(unregistered, amount)
             /\ transactionsSinceLastBalanceUpdate' = transactionsSinceLastBalanceUpdate + 1
             /\ UNCHANGED isBalanceLow

-----------------------------------------------------------------------------
\* init(): the balance is waited for, the fee data may be missing.
HelperInit ==
    /\ network \in Networks /\ feeData \in {network, NoFees}
    /\ fees = NoFees /\ offer = NoFees /\ held = NoFees
    /\ tx = "none" /\ stage = "waiting" /\ tries = 0 /\ value = 0
    /\ account \in 1..MaxBalance /\ walletBalance = account /\ unregistered = 0
    /\ transactionsSinceLastBalanceUpdate = 0 /\ isBalanceLow = (account < LowBalanceWarning)

\* SubmitQueue: onProcessOrders, then a transaction, if there is one to submit
\* that the account can pay.
ProcessOrders(updated) ==
    /\ UpdateFeeData(updated)
    /\ RunBalanceCheck
    /\ UNCHANGED <<network, account>>

ProcessNothing(updated) == ProcessOrders(updated) /\ UNCHANGED <<fees, offer, held, txVars>>

Submit(updated, amount) ==
    /\ tx = "none" /\ account >= GasCost + amount
    /\ ProcessOrders(updated)
    /\ tx' = "pending" /\ stage' = "waiting" /\ tries' = 1 /\ value' = amount
    /\ fees' = Populated(FeeDataForTransaction(feeData', FALSE)) /\ held' = fees'
    /\ UNCHANGED offer

\* A node takes a transaction of the same nonce only if it offers more.
Outbids(new, old) == \A field \in DOMAIN old : old[field] # None => new[field] > old[field]

\* The fees are those of the original raised, whatever the node has by now.
OfferMore(updated, accepted) ==
    /\ tx = "pending"
    /\ UpdateFeeData(updated)
    /\ offer' = IncreasedFeeData(feeData', fees)
    /\ accepted => Outbids(offer', held)
    /\ held' = IF accepted THEN offer' ELSE held
    /\ UNCHANGED <<network, tx, value, fees, account, balanceVars>>

\* ConfirmQueue, when the transaction was not confirmed in time. The call throws
\* if the node refuses, and may throw though it accepted: it is made again then,
\* while there are tries. (The tries of one that is repriced are not counted.)
Reprice(updated, accepted, answered) ==
    /\ stage = "waiting" /\ tries < MaxTries /\ (answered => accepted)
    /\ OfferMore(updated, accepted)
    /\ tries' = tries + 1
    /\ stage' = IF answered THEN "repriced" ELSE stage

\* A try of cancelTransaction, which finds the nonce not used; after the last one
\* the wallet is stalled.
CancelTransaction(updated, accepted) ==
    /\ \/ stage = "repriced" /\ tries' = 1
       \/ stage = "waiting" /\ tries = MaxTries /\ tries' = 1
       \/ stage \in {"cancelling", "cancelSent"} /\ tries < MaxTries /\ tries' = tries + 1
    /\ OfferMore(updated, accepted)
    /\ stage' = IF accepted \/ stage = "cancelSent" THEN "cancelSent" ELSE "cancelling"

Forget ==
    /\ tx' = "none" /\ stage' = "waiting" /\ tries' = 0 /\ value' = 0
    /\ fees' = NoFees /\ offer' = NoFees /\ held' = NoFees

\* handleConfirmedTransactions, or the receipt of a cancellation: its gas is
\* registered, never the value.
Registered ==
    /\ tx \in {"succeeded", "cancelled"}
    /\ RegisterBalanceUse(GasCost)
    /\ Forget /\ UNCHANGED <<network, feeData, account>>

\* handleRejectedTransactions, of one that reverted or whose confirmation
\* failed; or cancelTransaction finds the nonce used.
NotRegistered ==
    /\ tx \in Mined
    /\ Forget /\ UNCHANGED <<network, feeData, account, balanceVars>>

\* The chain: other fees, the transaction mined, the account funded.
NetworkMoves ==
    /\ network' \in Networks \ {network}
    /\ UNCHANGED <<feeData, fees, offer, held, txVars, account, balanceVars>>

Mine(outcome) ==
    /\ tx = "pending" /\ (outcome = "cancelled" => stage = "cancelSent")
    /\ tx' = outcome
    /\ account' = account - Spent(outcome) /\ unregistered' = unregistered + Spent(outcome)
    /\ UNCHANGED <<feeVars, stage, tries, value, walletBalance, transactionsSinceLastBalanceUpdate, isBalanceLow>>

Fund ==
    /\ account + unregistered < MaxBalance
    /\ account' = account + 1
    /\ UNCHANGED <<feeVars, txVars, balanceVars>>

HelperNext ==
    \/ \E updated \in BOOLEAN : ProcessNothing(updated) \/ (\E amount \in 0..MaxValue : Submit(updated, amount))
    \/ \E updated, accepted \in BOOLEAN :
          CancelTransaction(updated, accepted) \/ \E answered \in BOOLEAN : Reprice(updated, accepted, answered)
    \/ Registered \/ NotRegistered
    \/ NetworkMoves \/ (\E outcome \in Mined : Mine(outcome)) \/ Fund

HelperSpec == HelperInit /\ [][HelperNext]_helperVars

\* Every reprice and every cancellation is of the kind of the transaction it is
\* to replace, offers no less for any of its fees, and offers more for each that
\* is large enough for the factor to show in integers (1 times 1.5 is 1): though
\* the network may tell less, or fees of another kind, or nothing new since. It
\* need not offer more than an earlier replacement, which the node may hold.
ReplacementOutbids ==
    offer # NoFees => \A field \in DOMAIN fees :
        /\ (offer[field] = None) = (fees[field] = None)
        /\ offer[field] >= fees[field]
        /\ fees[field] * (PriorityAdjustmentFactor - FeeBase) >= FeeBase => offer[field] > fees[field]

\* A balance kept that is below the warning has been looked up and warned of.
LowBalanceNoticed == walletBalance < LowBalanceWarning => isBalanceLow

\* The balance kept is above the account by no more than what was spent since it
\* was looked up and has not been registered: the gas of a transaction that is
\* mined and not settled, and, for ever, values, and the gas of those that
\* reverted, failed to be confirmed or were mined before their cancellation.
BalanceNotOverestimated == walletBalance <= account + unregistered
=============================================================================
