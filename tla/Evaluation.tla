------------------------------ MODULE Evaluation ------------------------------
(***************************************************************************)
(* The arithmetic of EvaluatorWorker: what a delivery and an ack cost, what*)
(* they are rewarded with, and when they are worth relaying. Amounts are   *)
(* integers, as in the code; a fiat price is what an integer amount of gas *)
(* coins is multiplied by (a float there, with the decimals taken out).    *)
(***************************************************************************)
EXTENDS Integers

CONSTANTS
    UnrewardedDeliveryGas, UnrewardedAckGas, VerificationAckGas,
    ProfitabilityFactor,    \* times DecimalBase
    MinDeliveryReward, MinAckReward,
    RelativeMinDeliveryReward, RelativeMinAckReward,    \* in percent
    MaxUint                 \* MaxUint256

ASSUME EvaluationAssumption ==
    /\ UnrewardedDeliveryGas \in Nat /\ UnrewardedAckGas \in Nat /\ VerificationAckGas \in Nat
    /\ ProfitabilityFactor \in Nat /\ MaxUint \in Nat
    /\ MinDeliveryReward \in Nat /\ MinAckReward \in Nat
    /\ RelativeMinDeliveryReward \in Nat /\ RelativeMinAckReward \in Nat

DecimalBase == 10000

Least(a, b) == IF a < b THEN a ELSE b

CalcGasCost(gas, gasPrice, additionalFee) == gas * gasPrice + additionalFee

CalcGasReward(gas, unrewardedGas, bountyMaxGas, bountyPriceOfGas) ==
    bountyPriceOfGas * Least(IF gas > unrewardedGas THEN gas - unrewardedGas ELSE 0, bountyMaxGas)

\* Mutant: only the ack whose handler uses no gas is considered.
CalcMaxGasLossIdle(gasPrice, unrewardedGas, verificationGas, bountyMaxGas, bountyPriceOfGas) ==
    Least(0, verificationGas * bountyPriceOfGas - (unrewardedGas + verificationGas) * gasPrice)

CalcMaxGasLoss(gasPrice, unrewardedGas, verificationGas, bountyMaxGas, bountyPriceOfGas) ==
    LET minimumGasUsageProfit ==
            verificationGas * bountyPriceOfGas - (unrewardedGas + verificationGas) * gasPrice
        maximumGasUsageProfit ==
            bountyMaxGas * bountyPriceOfGas - (unrewardedGas + verificationGas + bountyMaxGas) * gasPrice
    IN  Least(0, Least(minimumGasUsageProfit, maximumGasUsageProfit))

Adjusted(reward) ==
    IF ProfitabilityFactor = 0 THEN MaxUint ELSE (reward * DecimalBase) \div ProfitabilityFactor

\* profit / cost > percent, in floats: a profit on no cost is infinite.
RelativeExceeds(profit, cost, percent) ==
    IF cost = 0 THEN profit > 0 ELSE profit * 100 > percent * cost

-----------------------------------------------------------------------------
\* Deliveries. The estimate of the gas observed by the contract is not the gas
\* paid for on every chain; value and fees come on top.
SecuredDeliveryReward(bounty, observedGas, sourceGasPrice) ==
    Adjusted(CalcGasReward(observedGas, UnrewardedDeliveryGas, bounty.maxGasDelivery, bounty.priceOfDeliveryGas))
    + CalcMaxGasLoss(sourceGasPrice, UnrewardedAckGas, VerificationAckGas, bounty.maxGasAck, bounty.priceOfAckGas)

RelayDelivery(securedFiatReward, fiatCost) ==
    LET profit == securedFiatReward - fiatCost
    IN  \/ profit > MinDeliveryReward
        \/ RelativeExceeds(profit, fiatCost, RelativeMinDeliveryReward)

\* Acks.
AckProfit(bounty, gas, observedGas, sourceGasPrice, fees) ==
    Adjusted(CalcGasReward(observedGas, UnrewardedAckGas, bounty.maxGasAck, bounty.priceOfAckGas))
    - CalcGasCost(gas, sourceGasPrice, fees)

\* Mutant: an ack is relayed for the delivery's bounty only if it pays itself.
RelayAckForItself(bounty, ackProfit, deliveryCost, usedGasDelivery) ==
    deliveryCost # 0 /\ ackProfit > 0

RelayAckForDeliveryBounty(bounty, ackProfit, deliveryCost, usedGasDelivery) ==
    /\ deliveryCost # 0
    /\ ackProfit + CalcGasReward(usedGasDelivery, 0, bounty.maxGasDelivery, bounty.priceOfDeliveryGas) > 0

RelayAckForAck(ackProfit, ackCost, ackFiatProfit) ==
    \/ ackFiatProfit > MinAckReward
    \/ RelativeExceeds(ackProfit, ackCost, RelativeMinAckReward)
=============================================================================
