------------------------------ MODULE Evaluator ------------------------------
(***************************************************************************)
(* The evaluator worker while it evaluates the delivery of a message and   *)
(* its ack, for submitters or the REST API: it reads the store, asks the *)
(* wallet of the source chain for its fees (see TransactionHelper) and the *)
(* pricing worker for the price of its coin, with an await at each. The    *)
(* gas price and the coin price of the destination chain are fixed. What   *)
(* the delivery has used is what that chain reports, not the estimate.     *)
(***************************************************************************)
EXTENDS Evaluation, Pricing

CONSTANTS
    Bounties,           \* the bounties that may be placed
    GasPrices,          \* of the source chain
    MaxPriceOfAckGas,   \* bound: on their increase
    DestinationGasPrice, DestinationPrice,
    DeliveryGas,        \* gas of the delivery, as estimated, paid and observed alike
    GasReports,         \* gas that the delivery may be reported to have used
    MaxUnobservedGas,   \* bound: gas of an ack paid for and not observed
    AckFees             \* fees, and value, of an ack

ASSUME EvaluatorAssumption ==
    /\ Callers = {"delivery", "ack"}
    /\ Bounties \subseteq [maxGasDelivery : Nat, maxGasAck : Nat, priceOfDeliveryGas : Nat, priceOfAckGas : Nat]
    /\ GasPrices \subseteq Nat /\ MaxPriceOfAckGas \in Nat /\ DestinationGasPrice \in Nat /\ DestinationPrice \in Nat
    /\ DeliveryGas \in Nat \ {0} /\ GasReports \subseteq Nat
    /\ MaxUnobservedGas \in Nat /\ AckFees \subseteq Nat

VARIABLES
    placed,     \* the relay state has the bounty
    bounty,     \* with what it has been increased to
    deliveryGasCost,    \* of the relay state: not 0 if this relayer delivered
    gasSpent,   \* of the payload of the ack's AMB message; 0 if the message is not in
                \* the store, or its payload cannot be parsed
    delivery,   \* the request: idle, gas, price, or relay if it is answered so, with
                \* what it has read so far;
    ack         \* the same, message before gas, relay or drop when it is answered

storeVars == <<placed, bounty, deliveryGasCost, gasSpent>>
requestVars == <<delivery, ack>>
evaluatorVars == <<pricingVars, storeVars, requestVars>>

NoBounty == [maxGasDelivery |-> 0, maxGasAck |-> 0, priceOfDeliveryGas |-> 0, priceOfAckGas |-> 0]
IdleDelivery == [at |-> "idle", gasPrice |-> 0, bounty |-> NoBounty]
IdleAck == [at |-> "idle", gasPrice |-> 0, handlerGas |-> 0, unobservedGas |-> 0, fees |-> 0,
            bounty |-> NoBounty, deliveryGasCost |-> 0, gasSpent |-> 0]

EvaluatorInit ==
    /\ PricingInit
    /\ placed = FALSE /\ bounty \in Bounties /\ deliveryGasCost = 0 /\ gasSpent = 0
    /\ delivery = IdleDelivery /\ ack = IdleAck

-----------------------------------------------------------------------------
Undefined == -1
FeeData == [gasPrice : GasPrices \cup {Undefined}, maxFeePerGas : GasPrices \cup {Undefined}]

\* Mutant: with no gas price the other fee is taken as it comes.
GetGasPriceOrMaxFee(feeData) == IF feeData.gasPrice # Undefined THEN feeData.gasPrice ELSE feeData.maxFeePerGas

\* Of the source chain; its wallet has no fee data, or some, or its worker ends
\* before it answers.
GetGasPrice(feeData) ==
    IF feeData.gasPrice # Undefined THEN feeData.gasPrice
    ELSE IF feeData.maxFeePerGas # Undefined THEN feeData.maxFeePerGas ELSE MaxUint

\* Without a bounty in the relay state the answer is null.
AskDelivery ==
    /\ delivery.at = "idle" /\ placed
    /\ delivery' = [delivery EXCEPT !.at = "gas", !.bounty = bounty]
    /\ UNCHANGED <<pricingVars, storeVars, ack>>

\* The gas prices are answered; the price of the coin is asked for.
DeliveryGasPrices(feeData) ==
    /\ delivery.at = "gas"
    /\ delivery' = [delivery EXCEPT !.at = "price", !.gasPrice = GetGasPrice(feeData)]
    /\ GetPrice("delivery")
    /\ UNCHANGED <<storeVars, ack>>

DeliveryFiatCost == DestinationPrice * CalcGasCost(DeliveryGas, DestinationGasPrice, 0)

EvaluateDelivery ==
    /\ delivery.at = "price"
    /\ LET reward == SecuredDeliveryReward(delivery.bounty, DeliveryGas, delivery.gasPrice)
       IN  delivery' = IF RelayDelivery(calls["delivery"].cached.price * reward, DeliveryFiatCost)
                       THEN [delivery EXCEPT !.at = "relay", !.bounty = NoBounty] ELSE IdleDelivery
    /\ TakePrice("delivery")
    /\ UNCHANGED <<storeVars, ack>>

\* The ack's own handler is estimated to use handlerGas. On some chains more gas
\* is paid for than the contract observes, on some there are fees, or a value.
AskAck(handlerGas, unobservedGas, fees) ==
    /\ ack.at \in {"idle", "drop"} /\ placed
    /\ ack' = [at |-> "message", gasPrice |-> 0, handlerGas |-> handlerGas,
               unobservedGas |-> unobservedGas, fees |-> fees,
               bounty |-> bounty, deliveryGasCost |-> deliveryGasCost, gasSpent |-> 0]
    /\ UNCHANGED <<pricingVars, storeVars, delivery>>

\* The ack's message is looked for if the relay state had the delivery.
GetAckMessage(delivered) ==
    /\ ack.at = "message"
    /\ ack' = [ack EXCEPT !.at = "gas", !.gasSpent = IF delivered THEN gasSpent ELSE 0]
    /\ UNCHANGED <<pricingVars, storeVars, delivery>>

AckGasPrice(feeData) ==
    /\ ack.at = "gas"
    /\ ack' = [ack EXCEPT !.at = "price", !.gasPrice = GetGasPrice(feeData)]
    /\ GetPrice("ack")
    /\ UNCHANGED <<storeVars, delivery>>

AckGas(handlerGas) == UnrewardedAckGas + VerificationAckGas + handlerGas

EvaluateAck ==
    LET observedGas == AckGas(ack.handlerGas)
        gas == observedGas + ack.unobservedGas
        profit == AckProfit(ack.bounty, gas, observedGas, ack.gasPrice, ack.fees)
    IN  /\ ack.at = "price"
        /\ ack' = [ack EXCEPT !.bounty = NoBounty, !.handlerGas = 0, !.at =
               IF \/ RelayAckForDeliveryBounty(ack.bounty, profit, ack.deliveryGasCost, ack.gasSpent)
                  \/ RelayAckForAck(profit, CalcGasCost(gas, ack.gasPrice, ack.fees), calls["ack"].cached.price * profit)
               THEN "relay" ELSE "drop"]
        /\ TakePrice("ack")
        /\ UNCHANGED <<storeVars, delivery>>

-----------------------------------------------------------------------------
\* The store, as getter, collectors and submitter change it.
StoreUnchanged == UNCHANGED <<pricingVars, requestVars>>

PlaceBounty == ~placed /\ placed' = TRUE /\ UNCHANGED <<bounty, deliveryGasCost, gasSpent>> /\ StoreUnchanged

IncreaseBounty ==
    /\ placed /\ bounty.priceOfAckGas < MaxPriceOfAckGas
    /\ bounty' = [bounty EXCEPT !.priceOfAckGas = @ + 1]
    /\ UNCHANGED <<placed, deliveryGasCost, gasSpent>> /\ StoreUnchanged

SetDeliveryCost ==
    /\ delivery.at = "relay" /\ deliveryGasCost = 0
    /\ deliveryGasCost' = DeliveryGas
    /\ UNCHANGED <<placed, bounty, gasSpent>> /\ StoreUnchanged

SetAckMessage ==
    /\ placed /\ gasSpent = 0 /\ gasSpent' \in GasReports
    /\ UNCHANGED <<placed, bounty, deliveryGasCost>> /\ StoreUnchanged

-----------------------------------------------------------------------------
PricingStep ==
    /\ \/ Tick \/ MarketMoves
       \/ \E c \in Callers : QueryAnswered(c) \/ QueryFails(c)
    /\ UNCHANGED <<storeVars, requestVars>>

EvaluatorNext ==
    \/ AskDelivery \/ EvaluateDelivery \/ EvaluateAck
    \/ \E handlerGas \in 0..bounty.maxGasAck, unobservedGas \in 0..MaxUnobservedGas, fees \in AckFees :
          AskAck(handlerGas, unobservedGas, fees)
    \/ \E delivered \in BOOLEAN : GetAckMessage(delivered)
    \/ \E feeData \in FeeData : DeliveryGasPrices(feeData) \/ AckGasPrice(feeData)
    \/ PlaceBounty \/ IncreaseBounty \/ SetDeliveryCost \/ SetAckMessage
    \/ PricingStep

EvaluatorSpec == EvaluatorInit /\ [][EvaluatorNext]_evaluatorVars

-----------------------------------------------------------------------------
\* The type invariant.
EvaluatorTypeOK ==
    /\ PricingTypeOK
    /\ placed \in BOOLEAN /\ gasSpent \in {0} \cup GasReports /\ deliveryGasCost \in {0, DeliveryGas}
    /\ delivery.at \in {"idle", "gas", "price", "relay"} /\ delivery.gasPrice \in Nat
    /\ ack.at \in {"idle", "message", "gas", "price", "relay", "drop"} /\ ack.gasPrice \in Nat

\* The loss the evaluation of a delivery allows for is the worst of its ack,
\* whatever gas the ack's handler uses up to its maximum (the code looks at the
\* two extremes), at every gas price read.
MaxGasLossIsWorst ==
    delivery.at = "price" => \A handlerGas \in 0..delivery.bounty.maxGasAck :
        CalcMaxGasLoss(delivery.gasPrice, UnrewardedAckGas, VerificationAckGas,
                       delivery.bounty.maxGasAck, delivery.bounty.priceOfAckGas)
        <= CalcGasReward(AckGas(handlerGas), UnrewardedAckGas, delivery.bounty.maxGasAck,
                         delivery.bounty.priceOfAckGas)
           - CalcGasCost(AckGas(handlerGas), delivery.gasPrice, 0)

\* Once the relayer has delivered a message because it was worth it, without an
\* adjusted profit, its ack is not worth relaying only for one of these reasons:
\* the gas price is higher than it was; the delivery is not reported to have used
\* the gas it was estimated to be rewarded for; or the ack costs more than the gas
\* that is observed. Not because of time that passes in between: the bounty may
\* be increased, and the price of the coin be any.
SecuredDeliveryAcked ==
    ack.at = "drop" /\ ack.deliveryGasCost # 0 /\ ProfitabilityFactor = DecimalBase =>
        \/ ack.gasPrice > delivery.gasPrice
        \/ ack.gasSpent < DeliveryGas - UnrewardedDeliveryGas
        \/ ack.unobservedGas > 0 \/ ack.fees > 0
=============================================================================
