------------------------ MODULE TransactionHelperProofs ------------------------
(* The balance that a wallet worker keeps: what bounds its error, and the warning *)
(* when it is low; the fees of a replacement.                                     *)
EXTENDS TransactionHelper, TLAPS

\* The part of the type invariant that the balance needs, and what is true of it.
BalanceInv ==
    /\ tx \in {"none", "pending"} \cup Mined /\ value \in Nat /\ account \in Nat /\ unregistered \in Nat
    /\ walletBalance \in Nat /\ transactionsSinceLastBalanceUpdate \in Nat /\ isBalanceLow \in BOOLEAN
    /\ tx = "pending" => account >= GasCost + value
    /\ BalanceNotOverestimated /\ LowBalanceNoticed

\* A variable that is set to a comparison.
LEMMA Compared ==
    ASSUME NEW low, NEW comparison \in BOOLEAN, low = comparison
    PROVE  low \in BOOLEAN /\ (comparison => low)
BY Zenon

\* A balance is looked up as it is.
LEMMA UpdateIsExact ==
    ASSUME BalanceInv, UpdateWalletBalance(PendingBalance)
    PROVE  /\ walletBalance' \in Nat /\ walletBalance' <= account /\ unregistered' = 0
           /\ transactionsSinceLastBalanceUpdate' \in Nat /\ isBalanceLow' \in BOOLEAN
           /\ walletBalance' < LowBalanceWarning => isBalanceLow'
<1> DEFINE balance == PendingBalance
<1>1. balance \in Nat /\ balance <= account
  BY DEF BalanceInv, PendingBalance, Spent, GasCost
<1>2. /\ walletBalance' = balance /\ unregistered' = 0 /\ transactionsSinceLastBalanceUpdate' = 0
      /\ isBalanceLow' = (balance < LowBalanceWarning)
  BY DEF UpdateWalletBalance
<1>3. isBalanceLow' \in BOOLEAN /\ (balance < LowBalanceWarning => isBalanceLow')
  <2>1. (balance < LowBalanceWarning) \in BOOLEAN
    BY <1>1, HelperAssumption
  <2> HIDE DEF balance
  <2> QED
    BY <1>2, <2>1, Compared
<1> QED
  BY <1>1, <1>2, <1>3

\* Looking at the balance keeps what is true of it, whatever becomes of the transaction.
LEMMA CheckKeeps ==
    ASSUME BalanceInv, RunBalanceCheck, UNCHANGED account
    PROVE  /\ walletBalance' \in Nat /\ unregistered' \in Nat /\ transactionsSinceLastBalanceUpdate' \in Nat
           /\ isBalanceLow' \in BOOLEAN /\ BalanceNotOverestimated' /\ LowBalanceNoticed'
<1> USE HelperAssumption DEF BalanceInv, BalanceNotOverestimated, LowBalanceNoticed
<1>1. CASE UpdateWalletBalance(PendingBalance)
  BY <1>1, UpdateIsExact
<1>2. CASE UNCHANGED balanceVars
  BY <1>2 DEF balanceVars
<1> QED
  BY <1>1, <1>2 DEF RunBalanceCheck

\* So does the registration of the gas of a mined transaction.
LEMMA RegistrationKeeps ==
    ASSUME BalanceInv, RegisterBalanceUse(GasCost), UNCHANGED account
    PROVE  /\ walletBalance' \in Nat /\ unregistered' \in Nat /\ transactionsSinceLastBalanceUpdate' \in Nat
           /\ isBalanceLow' \in BOOLEAN /\ BalanceNotOverestimated' /\ LowBalanceNoticed'
<1> USE HelperAssumption DEF BalanceInv, BalanceNotOverestimated, LowBalanceNoticed
<1> DEFINE left == Less(walletBalance, GasCost)
<1>1. CASE ~isBalanceLow /\ left < LowBalanceWarning
  <2>1. UpdateWalletBalance(PendingBalance)
    BY <1>1 DEF RegisterBalanceUse
  <2> QED
    BY <2>1, UpdateIsExact
<1>2. CASE ~(~isBalanceLow /\ left < LowBalanceWarning)
  <2>1. /\ walletBalance' = left /\ unregistered' = Less(unregistered, GasCost) /\ isBalanceLow' = isBalanceLow
        /\ transactionsSinceLastBalanceUpdate' = transactionsSinceLastBalanceUpdate + 1
    BY <1>2 DEF RegisterBalanceUse
  <2>2. /\ left \in Nat /\ Less(unregistered, GasCost) \in Nat
        /\ left <= account + Less(unregistered, GasCost)
    BY DEF Less, GasCost
  <2> HIDE DEF left
  <2> QED
    BY <1>2, <2>1, <2>2
<1> QED
  BY <1>1, <1>2

\* Each step of the helper and of the chain keeps it.
LEMMA BalanceStep ==
    ASSUME BalanceInv, HelperNext
    PROVE  BalanceInv'
<1> USE HelperAssumption DEF BalanceInv, balanceVars, feeVars, txVars
<1>1. ASSUME NEW updated \in BOOLEAN, ProcessNothing(updated)
      PROVE  BalanceInv'
  <2>1. RunBalanceCheck /\ account' = account /\ tx' = tx /\ value' = value
    BY <1>1 DEF ProcessNothing, ProcessOrders
  <2> QED
    BY <2>1, CheckKeeps
<1>2. ASSUME NEW updated \in BOOLEAN, NEW amount \in 0..MaxValue, Submit(updated, amount)
      PROVE  BalanceInv'
  <2>1. RunBalanceCheck /\ account' = account /\ tx' = "pending" /\ value' = amount /\ account >= GasCost + amount
    BY <1>2 DEF Submit, ProcessOrders
  <2> QED
    BY <2>1, CheckKeeps
<1>3. ASSUME NEW updated \in BOOLEAN, NEW accepted \in BOOLEAN, OfferMore(updated, accepted)
      PROVE  BalanceInv'
  BY <1>3 DEF OfferMore, BalanceNotOverestimated, LowBalanceNoticed
<1>4. CASE Registered
  <2>1. RegisterBalanceUse(GasCost) /\ account' = account /\ tx' = "none" /\ value' = 0
    BY <1>4 DEF Registered, Forget
  <2> QED
    BY <2>1, RegistrationKeeps
<1>5. CASE NotRegistered
  BY <1>5 DEF NotRegistered, Forget, BalanceNotOverestimated, LowBalanceNoticed
<1>6. CASE NetworkMoves
  BY <1>6 DEF NetworkMoves, BalanceNotOverestimated, LowBalanceNoticed
<1>7. ASSUME NEW outcome \in Mined, Mine(outcome)
      PROVE  BalanceInv'
  <2> DEFINE spent == Spent(outcome)
  <2>1. spent \in Nat /\ spent <= GasCost + value /\ GasCost + value <= account
    BY <1>7 DEF Mine, Spent, GasCost
  <2>2. /\ tx' = outcome /\ value' = value /\ account' = account - spent /\ unregistered' = unregistered + spent
        /\ UNCHANGED <<walletBalance, transactionsSinceLastBalanceUpdate, isBalanceLow>>
    BY <1>7 DEF Mine
  <2> HIDE DEF spent
  <2>3. account' \in Nat /\ unregistered' \in Nat /\ account' + unregistered' = account + unregistered
    BY <2>1, <2>2 DEF GasCost
  <2>4. BalanceNotOverestimated' /\ LowBalanceNoticed'
    BY <2>2, <2>3 DEF BalanceNotOverestimated, LowBalanceNoticed
  <2>5. outcome # "pending"
    BY DEF Mined
  <2> QED
    BY <2>2, <2>3, <2>4, <2>5
<1>8. CASE Fund
  <2>1. account' = account + 1 /\ tx' = tx /\ value' = value /\ unregistered' = unregistered
    BY <1>8 DEF Fund
  <2>2. UNCHANGED <<walletBalance, transactionsSinceLastBalanceUpdate, isBalanceLow>>
    BY <1>8 DEF Fund
  <2>3. BalanceNotOverestimated' /\ LowBalanceNoticed'
    BY <2>1, <2>2 DEF BalanceNotOverestimated, LowBalanceNoticed
  <2> QED
    BY <2>1, <2>2, <2>3 DEF GasCost
<1> QED
  BY <1>1, <1>2, <1>3, <1>4, <1>5, <1>6, <1>7, <1>8 DEF HelperNext, CancelTransaction, Reprice

LEMMA BalanceInvariant == HelperSpec => []BalanceInv
<1>1. HelperInit => BalanceInv
  <2> SUFFICES ASSUME HelperInit PROVE BalanceInv
    OBVIOUS
  <2>1. isBalanceLow \in BOOLEAN /\ LowBalanceNoticed
    <3>1. isBalanceLow = (account < LowBalanceWarning) /\ walletBalance = account
      BY DEF HelperInit
    <3>2. (account < LowBalanceWarning) \in BOOLEAN
      BY HelperAssumption DEF HelperInit
    <3> QED
      BY <3>1, <3>2, Compared DEF LowBalanceNoticed
  <2>2. account \in Nat
    BY HelperAssumption DEF HelperInit
  <2> QED
    BY <2>1, <2>2 DEF HelperInit, BalanceInv, BalanceNotOverestimated
<1>2. BalanceInv /\ [HelperNext]_helperVars => BalanceInv'
  BY BalanceStep DEF helperVars, feeVars, txVars, balanceVars, BalanceInv, BalanceNotOverestimated, LowBalanceNoticed
<1> QED
  BY <1>1, <1>2, PTL DEF HelperSpec

\* For every warning level, update interval and value: the balance kept is above
\* the account by no more than was spent unregistered since it was looked up.
THEOREM BalanceNotOverestimatedSafe == HelperSpec => []BalanceNotOverestimated
<1>1. BalanceInv => BalanceNotOverestimated
  BY DEF BalanceInv
<1> QED
  BY <1>1, BalanceInvariant, PTL

\* For every warning level and update interval: a balance kept that is
\* low has been looked up and warned of.
THEOREM LowBalanceNoticedSafe == HelperSpec => []LowBalanceNoticed
<1>1. BalanceInv => LowBalanceNoticed
  BY DEF BalanceInv
<1> QED
  BY <1>1, BalanceInvariant, PTL

-----------------------------------------------------------------------------
Amount == Nat \cup {None}

\* Scaling keeps the kind of a fee.
LEMMA ScaledType ==
    ASSUME NEW fee \in Amount, NEW factor \in Nat
    PROVE  Scaled(fee, factor) \in Amount /\ (Scaled(fee, factor) = None) = (fee = None)
<1>1. CASE fee = None
  BY <1>1 DEF Scaled, Amount
<1>2. CASE fee # None
  <2>1. fee \in Nat /\ fee * factor \in Nat
    BY <1>2 DEF Amount
  <2>2. (fee * factor) \div FeeBase \in Nat
    <3> DEFINE product == fee * factor
    <3>1. product \in Nat
      BY <2>1
    <3> HIDE DEF product
    <3>2. product \div FeeBase \in Nat
      BY <3>1 DEF FeeBase
    <3> QED
      BY <3>2 DEF product
  <2> QED
    BY <1>2, <2>2 DEF Scaled, Amount, None
<1> QED
  BY <1>1, <1>2

\* So do the caps.
LEMMA CappedType ==
    ASSUME NEW fee \in Amount, NEW cap \in Amount
    PROVE  Capped(fee, cap) \in Amount
BY DEF Capped, Amount, None

\* The fees of a transaction are fees.
LEMMA FeesType ==
    ASSUME NEW data \in Fee, NEW priority \in BOOLEAN
    PROVE  FeeDataForTransaction(data, priority) \in Fee
<1> USE HelperAssumption
<1> DEFINE raised(fee) == IF priority THEN Scaled(fee, PriorityAdjustmentFactor) ELSE fee
           gas == Capped(Scaled(data.gasPrice, GasPriceAdjustmentFactor), MaxAllowedGasPrice)
           highest == IF MaxFeePerGas \in {None, 0} THEN data.maxFeePerGas ELSE MaxFeePerGas
           tip == Capped(Scaled(data.maxPriorityFeePerGas, MaxPriorityFeeAdjustmentFactor),
                         MaxAllowedPriorityFeePerGas)
<1>1. data.gasPrice \in Amount /\ data.maxFeePerGas \in Amount /\ data.maxPriorityFeePerGas \in Amount
  BY DEF Fee, Amount
<1>2. gas \in Amount
  BY <1>1, ScaledType, CappedType DEF Amount
<1>3. highest \in Amount
  BY <1>1 DEF Amount
<1>4. tip \in Amount
  BY <1>1, ScaledType, CappedType DEF Amount
<1>5. \A fee \in Amount : raised(fee) \in Amount
  BY ScaledType
<1>6. AdjustedFeeData(data, priority) =
          [gasPrice |-> raised(gas), maxFeePerGas |-> raised(highest), maxPriorityFeePerGas |-> raised(tip)]
  BY DEF AdjustedFeeData
<1>7. raised(gas) \in Amount /\ raised(highest) \in Amount /\ raised(tip) \in Amount
  BY <1>2, <1>3, <1>4, <1>5
<1> HIDE DEF raised, gas, highest, tip
<1>8. AdjustedFeeData(data, priority) \in Fee
  BY <1>6, <1>7 DEF Fee, Amount
<1> QED
  BY <1>8 DEF FeeDataForTransaction, Fee, NoFees, None

\* In integers a factor of at least one takes nothing off, and adds something if
\* what it adds amounts to one.
LEMMA ScaledRaises ==
    ASSUME NEW fee \in Nat, NEW factor \in Nat, factor >= FeeBase
    PROVE  /\ Scaled(fee, factor) >= fee
           /\ fee * (factor - FeeBase) >= FeeBase => Scaled(fee, factor) > fee
<1> DEFINE added == fee * (factor - FeeBase)
<1>1. added \in Nat
  BY DEF FeeBase
<1>2. fee * factor = fee * FeeBase + added
  BY DEF FeeBase
<1>3. Scaled(fee, factor) = (fee * FeeBase + added) \div FeeBase
  BY <1>2 DEF Scaled, None
<1> HIDE DEF added
<1>4. /\ (fee * FeeBase + added) \div FeeBase >= fee
      /\ added >= FeeBase => (fee * FeeBase + added) \div FeeBase > fee
  BY <1>1 DEF FeeBase
<1> QED
  BY <1>3, <1>4 DEF added

\* What one fee of a replacement offers.
Raises(fee, offered) ==
    /\ (offered = None) = (fee = None)
    /\ offered >= fee
    /\ fee * (PriorityAdjustmentFactor - FeeBase) >= FeeBase => offered > fee

\* A fee is raised, or is as unknown as before.
LEMMA LargestFeeRaises ==
    ASSUME NEW previousFee \in Amount, NEW priorityFee \in Amount
    PROVE  LargestFee(previousFee, priorityFee) \in Amount /\ Raises(previousFee, LargestFee(previousFee, priorityFee))
<1> USE HelperAssumption
<1> DEFINE increased == Scaled(previousFee, PriorityAdjustmentFactor)
           added == previousFee * (PriorityAdjustmentFactor - FeeBase)
<1>1. increased \in Amount /\ (increased = None) = (previousFee = None)
  BY ScaledType
<1>2. LargestFee(previousFee, priorityFee) =
          IF previousFee # None /\ priorityFee > increased THEN priorityFee ELSE increased
  BY DEF LargestFee
<1>3. CASE previousFee = None
  <2>1. LargestFee(previousFee, priorityFee) = None
    BY <1>1, <1>2, <1>3
  <2>2. added < FeeBase
    BY <1>3 DEF None, FeeBase
  <2> QED
    BY <1>3, <2>1, <2>2 DEF Raises, Amount, None, FeeBase
<1>4. CASE previousFee # None
  <2>1. previousFee \in Nat
    BY <1>4 DEF Amount
  <2>2. increased >= previousFee /\ (added >= FeeBase => increased > previousFee)
    BY <2>1, ScaledRaises
  <2>3. added \in Int
    BY <2>1 DEF FeeBase
  <2> HIDE DEF increased, added
  <2>4. /\ LargestFee(previousFee, priorityFee) \in Amount /\ LargestFee(previousFee, priorityFee) # None
        /\ LargestFee(previousFee, priorityFee) >= previousFee
        /\ added >= FeeBase => LargestFee(previousFee, priorityFee) > previousFee
    BY <1>1, <1>2, <1>4, <2>1, <2>2, <2>3 DEF Amount, None
  <2> QED
    BY <1>4, <2>4 DEF Raises, added
<1> QED
  BY <1>3, <1>4

\* An offer belongs to a transaction on its way, and raises its fees.
ReplacementInv ==
    /\ network \in Networks /\ feeData \in Fee /\ fees \in Fee
    /\ tx = "none" => offer = NoFees
    /\ ReplacementOutbids

LEMMA OfferRaises ==
    ASSUME ReplacementInv, NEW updated \in BOOLEAN, NEW accepted \in BOOLEAN, OfferMore(updated, accepted)
    PROVE  ReplacementInv'
<1> USE HelperAssumption DEF ReplacementInv
<1>1. fees' = fees /\ tx' = tx /\ tx = "pending" /\ network' = network /\ feeData' \in Fee
  BY DEF OfferMore, UpdateFeeData
<1> DEFINE priority == FeeDataForTransaction(feeData', TRUE)
<1>2. priority \in Fee
  BY <1>1, FeesType
<1>3. DOMAIN fees = {"gasPrice", "maxFeePerGas", "maxPriorityFeePerGas"}
  BY DEF Fee
<1>4. offer' = [field \in DOMAIN fees |-> LargestFee(fees[field], priority[field])]
  BY DEF OfferMore, IncreasedFeeData
<1>5. \A field \in DOMAIN fees : fees[field] \in Amount /\ priority[field] \in Amount
  <2> HIDE DEF priority
  <2> QED
    BY <1>2, <1>3 DEF Fee, Amount
<1> HIDE DEF priority
<1>6. ASSUME NEW field \in DOMAIN fees
      PROVE  Raises(fees[field], offer'[field])
  <2>1. offer'[field] = LargestFee(fees[field], priority[field])
    BY <1>4
  <2> QED
    BY <1>5, <2>1, LargestFeeRaises
<1>7. ReplacementOutbids'
  <2> SUFFICES ASSUME NEW field \in DOMAIN fees
               PROVE  Raises(fees[field], offer'[field])
    BY <1>1, Zenon DEF ReplacementOutbids, Raises
  <2> QED
    BY <1>6
<1> QED
  BY <1>1, <1>7

LEMMA ReplacementStep ==
    ASSUME ReplacementInv, HelperNext
    PROVE  ReplacementInv'
<1> USE HelperAssumption DEF ReplacementInv
<1>0. NoFees \in Fee
  BY DEF NoFees, Fee, None
<1>1. ASSUME NEW updated \in BOOLEAN, NEW amount \in 0..MaxValue, Submit(updated, amount)
      PROVE  ReplacementInv'
  <2>1. tx = "none" /\ offer = NoFees /\ offer' = NoFees /\ network' = network
    BY <1>1 DEF Submit, ProcessOrders
  <2>2. feeData' \in Fee
    BY <1>1 DEF Submit, ProcessOrders, UpdateFeeData
  <2>3. fees' \in Fee
    <3>1. FeeDataForTransaction(feeData', FALSE) \in Fee
      BY <2>2, FeesType
    <3>2. network \in Fee /\ [network EXCEPT !.gasPrice = None] \in Fee
      BY DEF Fee, None
    <3>3. Populated(FeeDataForTransaction(feeData', FALSE)) \in Fee
      BY <3>1, <3>2 DEF Populated
    <3> QED
      BY <1>1, <3>3 DEF Submit
  <2> QED
    BY <2>1, <2>2, <2>3 DEF ReplacementOutbids
<1>2. ASSUME NEW updated \in BOOLEAN, ProcessNothing(updated)
      PROVE  ReplacementInv'
  <2>1. network' = network /\ fees' = fees /\ offer' = offer /\ tx' = tx
    BY <1>2 DEF ProcessNothing, ProcessOrders, txVars
  <2>2. feeData' \in Fee
    BY <1>2 DEF ProcessNothing, ProcessOrders, UpdateFeeData
  <2> QED
    BY <2>1, <2>2 DEF ReplacementOutbids
<1>3. ASSUME NEW updated \in BOOLEAN, NEW accepted \in BOOLEAN, OfferMore(updated, accepted)
      PROVE  ReplacementInv'
  BY <1>3, OfferRaises
<1>4. CASE Registered \/ NotRegistered
  BY <1>0, <1>4 DEF Registered, NotRegistered, Forget, ReplacementOutbids
<1>5. CASE NetworkMoves
  BY <1>5 DEF NetworkMoves, txVars, ReplacementOutbids
<1>6. ASSUME NEW outcome \in Mined, Mine(outcome)
      PROVE  ReplacementInv'
  BY <1>6 DEF Mine, Mined, feeVars, ReplacementOutbids
<1>7. CASE Fund
  BY <1>7 DEF Fund, feeVars, txVars, ReplacementOutbids
<1> QED
  BY <1>1, <1>2, <1>3, <1>4, <1>5, <1>6, <1>7 DEF HelperNext, CancelTransaction, Reprice

\* For every factor and cap, however the fees of the network move, and however
\* often a transaction is repriced and cancelled: no replacement offers less than
\* it, and each of its fees for which the factor amounts to one is raised.
THEOREM ReplacementOutbidsSafe == HelperSpec => []ReplacementOutbids
<1>1. HelperInit => ReplacementInv
  BY HelperAssumption DEF HelperInit, ReplacementInv, ReplacementOutbids, NoFees, Fee, None
<1>2. ReplacementInv /\ [HelperNext]_helperVars => ReplacementInv'
  BY ReplacementStep DEF helperVars, feeVars, txVars, ReplacementInv, ReplacementOutbids
<1>3. ReplacementInv => ReplacementOutbids
  BY DEF ReplacementInv
<1> QED
  BY <1>1, <1>2, <1>3, PTL DEF HelperSpec
=============================================================================
