---------------------------- MODULE EvaluatorProofs ----------------------------
(* What the evaluation of a delivery allows for is the worst of its ack; and a    *)
(* message delivered for its worth has an ack worth relaying.                     *)
EXTENDS Evaluator, TLAPS

-----------------------------------------------------------------------------
\* Products, which the provers do not take apart by themselves.
LEMMA ProductNat ==
    ASSUME NEW a \in Nat, NEW b \in Nat
    PROVE  a * b \in Nat
OBVIOUS

LEMMA ProductMonotone ==
    ASSUME NEW a \in Nat, NEW b \in Nat, NEW c \in Nat, b <= c
    PROVE  a * b <= a * c
<1>1. a * (c - b) \in Nat
  BY ProductNat
<1>2. a * (c - b) = a * c - a * b
  OBVIOUS
<1> QED
  BY <1>1, <1>2

\* The reward of an ack whose handler uses a, with v gas of verification, if all
\* that is above the unrewarded gas is observed.
LEMMA AckReward ==
    ASSUME NEW u \in Nat, NEW v \in Nat, NEW a \in Nat, NEW m \in Nat, NEW p \in Nat
    PROVE  CalcGasReward(u + v + a, u, m, p) = p * Least(v + a, m)
<1>1. (IF u + v + a > u THEN u + v + a - u ELSE 0) = v + a
  OBVIOUS
<1> QED
  BY <1>1 DEF CalcGasReward

\* The two extremes are the worst cases: in between, the profit is a concave
\* function of the gas that the handler uses.
LEMMA ExtremesAreWorst ==
    ASSUME NEW g \in Nat, NEW u \in Nat, NEW v \in Nat, NEW m \in Nat, NEW p \in Nat,
           NEW a \in Nat, a <= m
    PROVE  CalcMaxGasLoss(g, u, v, m, p) <= CalcGasReward(u + v + a, u, m, p) - CalcGasCost(u + v + a, g, 0)
<1> DEFINE idle == v * p - (u + v) * g
           busy == m * p - (u + v + m) * g
           profit == p * Least(v + a, m) - (u + v + a) * g
<1>1. CalcMaxGasLoss(g, u, v, m, p) = Least(0, Least(idle, busy))
  BY DEF CalcMaxGasLoss
<1>2. CalcGasReward(u + v + a, u, m, p) - CalcGasCost(u + v + a, g, 0) = profit
  BY AckReward DEF CalcGasCost
<1>3. idle \in Int /\ busy \in Int /\ profit \in Int
  BY DEF Least
<1>4. idle <= profit \/ busy <= profit
  <2>1. (u + v) * g = u * g + v * g /\ (u + v + m) * g = u * g + v * g + m * g
        /\ (u + v + a) * g = u * g + v * g + a * g
    OBVIOUS
  <2>2. a * g <= m * g
    <3>1. g * a <= g * m
      BY ProductMonotone
    <3> QED
      BY <3>1
  <2>3. CASE v + a > m
    <3>1. profit = m * p - (u + v + a) * g
      BY <2>3 DEF Least
    <3> QED
      BY <2>1, <2>2, <3>1
  <2>4. CASE v + a <= m /\ p >= g
    <3>1. profit = v * p + a * p - (u + v + a) * g
      BY <2>4 DEF Least
    <3>2. a * g <= a * p
      BY <2>4, ProductMonotone
    <3> QED
      BY <2>1, <3>1, <3>2
  <2>5. CASE v + a <= m /\ p < g
    <3>1. profit = v * p + a * p - (u + v + a) * g
      BY <2>5 DEF Least
    <3>2. (m - a) * p <= (m - a) * g
      BY <2>5, ProductMonotone
    <3>3. (m - a) * p = m * p - a * p /\ (m - a) * g = m * g - a * g
      OBVIOUS
    <3>4. v * p \in Nat
      BY ProductNat
    <3> QED
      BY <2>1, <3>1, <3>2, <3>3, <3>4
  <2> QED
    BY <2>3, <2>4, <2>5
<1> HIDE DEF idle, busy, profit
<1> QED
  BY <1>1, <1>2, <1>3, <1>4 DEF Least

\* A better price of the ack gas leaves no greater loss.
LEMMA LossMonotone ==
    ASSUME NEW g \in Nat, NEW u \in Nat, NEW v \in Nat, NEW m \in Nat, NEW p \in Nat, NEW q \in Nat, p <= q
    PROVE  CalcMaxGasLoss(g, u, v, m, p) <= CalcMaxGasLoss(g, u, v, m, q)
<1>1. v * p <= v * q /\ m * p <= m * q
  BY ProductMonotone
<1> DEFINE vp == v * p  vq == v * q  mp == m * p  mq == m * q
           idleCost == (u + v) * g  busyCost == (u + v + m) * g
<1>2. {vp, vq, mp, mq, idleCost, busyCost} \subseteq Nat
  BY ProductNat
<1>3. /\ CalcMaxGasLoss(g, u, v, m, p) = Least(0, Least(vp - idleCost, mp - busyCost))
      /\ CalcMaxGasLoss(g, u, v, m, q) = Least(0, Least(vq - idleCost, mq - busyCost))
  BY DEF CalcMaxGasLoss
<1> HIDE DEF vp, vq, mp, mq, idleCost, busyCost
<1>4. vp <= vq /\ mp <= mq
  BY <1>1 DEF vp, vq, mp, mq
<1> QED
  BY <1>2, <1>3, <1>4 DEF Least

LEMMA LossType ==
    ASSUME NEW g \in Nat, NEW u \in Nat, NEW v \in Nat, NEW m \in Nat, NEW p \in Nat
    PROVE  CalcMaxGasLoss(g, u, v, m, p) \in Int
BY DEF CalcMaxGasLoss, Least

LEMMA RewardType ==
    ASSUME NEW gas \in Int, NEW u \in Nat, NEW m \in Nat, NEW p \in Nat
    PROVE  CalcGasReward(gas, u, m, p) \in Nat
<1>1. Least(IF gas > u THEN gas - u ELSE 0, m) \in Nat
  BY DEF Least
<1> QED
  BY <1>1, ProductNat DEF CalcGasReward

\* With no adjustment a reward stays what it is.
LEMMA Unadjusted ==
    ASSUME NEW reward \in Nat, ProfitabilityFactor = DecimalBase
    PROVE  Adjusted(reward) = reward
<1>1. (reward * 10000) \div 10000 = reward
  OBVIOUS
<1> QED
  BY <1>1 DEF Adjusted, DecimalBase

\* Only a delivery that is rewarded beyond its cost is relayed.
LEMMA RelayedIsRewarded ==
    ASSUME NEW price \in Nat, NEW reward \in Int, NEW cost \in Nat, RelayDelivery(price * reward, cost)
    PROVE  reward > 0
<1> DEFINE profit == price * reward - cost
<1>0. price * reward \in Int /\ profit \in Int
  OBVIOUS
<1>1. profit > 0
  <2>1. CASE profit > MinDeliveryReward
    BY <1>0, <2>1, EvaluationAssumption
  <2>2. CASE cost = 0 /\ profit > 0
    BY <2>2
  <2>3. CASE profit * 100 > RelativeMinDeliveryReward * cost
    <3>1. RelativeMinDeliveryReward * cost \in Nat
      BY EvaluationAssumption, ProductNat
    <3> QED
      BY <1>0, <2>3, <3>1
  <2> QED
    BY <2>1, <2>2, <2>3 DEF RelayDelivery, RelativeExceeds
<1>2. price * reward > 0
  BY <1>0, <1>1
<1>3. CASE reward <= 0
  <2>1. price * (0 - reward) \in Nat
    BY <1>3, ProductNat
  <2>2. price * (0 - reward) = 0 - price * reward
    OBVIOUS
  <2> QED
    BY <1>0, <1>2, <2>1, <2>2
<1> QED
  BY <1>3

-----------------------------------------------------------------------------
Bounty == [maxGasDelivery : Nat, maxGasAck : Nat, priceOfDeliveryGas : Nat, priceOfAckGas : Nat]

\* The prices of the calls.
PriceInv ==
    /\ now \in Nat /\ market \in Nat /\ cachedGasPrice \in [price : Nat, timestamp : Int]
    /\ DOMAIN calls = Callers
    /\ \A c \in Callers : calls[c].cached.price \in Nat

\* The requests, and what they have read.
RequestInv ==
    /\ bounty \in Bounty
    /\ delivery \in [at : {"idle", "gas", "price", "relay"}, gasPrice : Nat, bounty : Bounty]
    /\ gasSpent \in Nat
    /\ ack \in [at : {"idle", "message", "gas", "price", "relay", "drop"}, gasPrice : Nat, handlerGas : Nat,
                unobservedGas : Nat, fees : Nat, bounty : Bounty, deliveryGasCost : Nat, gasSpent : Nat]

\* A bounty is as it was read, or increased since.
SinceIncreased(read) ==
    /\ read.maxGasDelivery = bounty.maxGasDelivery /\ read.maxGasAck = bounty.maxGasAck
    /\ read.priceOfDeliveryGas = bounty.priceOfDeliveryGas /\ read.priceOfAckGas <= bounty.priceOfAckGas

\* The delivery of the bounty pays for the worst of its ack, at the source gas
\* price that was read for the delivery.
Secured(b) ==
    CalcGasReward(DeliveryGas, UnrewardedDeliveryGas, b.maxGasDelivery, b.priceOfDeliveryGas)
    + CalcMaxGasLoss(delivery.gasPrice, UnrewardedAckGas, VerificationAckGas, b.maxGasAck, b.priceOfAckGas) > 0

\* What a relayed delivery has secured stays so, and is so for the ack's request.
SecuredInv ==
    /\ delivery.at \in {"gas", "price"} => SinceIncreased(delivery.bounty)
    /\ deliveryGasCost \in Nat /\ (deliveryGasCost # 0 => delivery.at = "relay")
    /\ delivery.at = "relay" /\ ProfitabilityFactor = DecimalBase => Secured(bounty)
    /\ ack.deliveryGasCost # 0 => delivery.at = "relay"
    /\ ack.at \in {"message", "gas", "price"} => ack.handlerGas <= ack.bounty.maxGasAck
    /\ ack.at \in {"message", "gas", "price"} /\ ack.deliveryGasCost # 0 /\ ProfitabilityFactor = DecimalBase
           => Secured(ack.bounty)

EvaluatorInv == PriceInv /\ RequestInv /\ SecuredInv /\ SecuredDeliveryAcked

-----------------------------------------------------------------------------
\* The calls to the pricing provider keep their prices.
LEMMA GetPriceStep ==
    ASSUME PriceInv, NEW c \in Callers, GetPrice(c)
    PROVE  PriceInv'
BY DEF PriceInv, GetPrice

LEMMA TakePriceStep ==
    ASSUME PriceInv, NEW c \in Callers, TakePrice(c)
    PROVE  PriceInv'
BY DEF PriceInv, TakePrice, Idle, NoPrice

LEMMA PricingKeepsPrices ==
    ASSUME PriceInv, PricingStep
    PROVE  PriceInv' /\ UNCHANGED <<storeVars, requestVars>>
<1> USE PricingAssumption DEF PriceInv
<1>1. UNCHANGED <<storeVars, requestVars>>
  BY DEF PricingStep
<1>2. ASSUME Tick PROVE PriceInv'
  BY <1>2 DEF Tick
<1>3. ASSUME MarketMoves PROVE PriceInv'
  BY <1>3 DEF MarketMoves
<1>4. ASSUME NEW c \in Callers, QueryAnswered(c) PROVE PriceInv'
  BY <1>4 DEF QueryAnswered
<1>5. ASSUME NEW c \in Callers, QueryFails(c) PROVE PriceInv'
  BY <1>5 DEF QueryFails
<1> QED
  BY <1>1, <1>2, <1>3, <1>4, <1>5 DEF PricingStep

\* Reading a state of the store: what is secured depends on nothing else.
LEMMA SecuredGrows ==
    ASSUME NEW b \in Bounty, NEW c \in Bounty, delivery.gasPrice \in Nat, Secured(b),
           c.maxGasDelivery = b.maxGasDelivery, c.maxGasAck = b.maxGasAck,
           c.priceOfDeliveryGas = b.priceOfDeliveryGas, b.priceOfAckGas <= c.priceOfAckGas
    PROVE  Secured(c)
<1> DEFINE reward == CalcGasReward(DeliveryGas, UnrewardedDeliveryGas, b.maxGasDelivery, b.priceOfDeliveryGas)
           lossOf(x) == CalcMaxGasLoss(delivery.gasPrice, UnrewardedAckGas, VerificationAckGas,
                                       x.maxGasAck, x.priceOfAckGas)
<1>0. DeliveryGas \in Int
  BY EvaluatorAssumption
<1>1. reward \in Nat
  BY <1>0, RewardType, EvaluationAssumption, EvaluatorAssumption DEF Bounty
<1>2. lossOf(b) \in Int /\ lossOf(c) \in Int
  BY LossType, EvaluationAssumption DEF Bounty
<1>3. lossOf(b) <= lossOf(c)
  BY LossMonotone, EvaluationAssumption DEF Bounty
<1>4. reward + lossOf(b) > 0
  BY DEF Secured
<1>5. reward + lossOf(c) > 0 => Secured(c)
  BY DEF Secured
<1> HIDE DEF reward, lossOf
<1> QED
  BY <1>1, <1>2, <1>3, <1>4, <1>5

\* The decision on a delivery: what is relayed is secured.
LEMMA DeliverySecured ==
    ASSUME EvaluatorInv, delivery.at = "price", ProfitabilityFactor = DecimalBase,
           RelayDelivery(calls["delivery"].cached.price
                             * SecuredDeliveryReward(delivery.bounty, DeliveryGas, delivery.gasPrice),
                         DeliveryFiatCost)
    PROVE  Secured(delivery.bounty)
<1> DEFINE b == delivery.bounty
           reward == CalcGasReward(DeliveryGas, UnrewardedDeliveryGas, b.maxGasDelivery, b.priceOfDeliveryGas)
           loss == CalcMaxGasLoss(delivery.gasPrice, UnrewardedAckGas, VerificationAckGas,
                                  b.maxGasAck, b.priceOfAckGas)
<1> USE EvaluationAssumption, EvaluatorAssumption
<1>1. b \in Bounty /\ delivery.gasPrice \in Nat /\ calls["delivery"].cached.price \in Nat
  BY DEF EvaluatorInv, RequestInv, PriceInv
<1>0. DeliveryGas \in Int
  OBVIOUS
<1>2. reward \in Nat /\ loss \in Int
  BY <1>0, <1>1, RewardType, LossType DEF Bounty
<1>3. SecuredDeliveryReward(b, DeliveryGas, delivery.gasPrice) = reward + loss
  <2>1. Adjusted(reward) = reward
    BY <1>2, Unadjusted
  <2> QED
    BY <2>1 DEF SecuredDeliveryReward
<1>4. DeliveryFiatCost \in Nat
  BY ProductNat DEF DeliveryFiatCost, CalcGasCost
<1>5. reward + loss > 0 => Secured(b)
  BY DEF Secured
<1> HIDE DEF b, reward, loss
<1>6. reward + loss \in Int
  BY <1>2
<1>7. RelayDelivery(calls["delivery"].cached.price * (reward + loss), DeliveryFiatCost)
  BY <1>3 DEF b
<1>8. reward + loss > 0
  BY <1>1, <1>4, <1>6, <1>7, RelayedIsRewarded
<1> QED
  BY <1>5, <1>8 DEF b

\* The decision on an ack: with a gas price no higher than it was, the ack is
\* relayed for the bounty of the delivery.
LEMMA AckRelayed ==
    ASSUME EvaluatorInv, ack.at = "price", ack.deliveryGasCost # 0, ack.gasPrice <= delivery.gasPrice,
           ProfitabilityFactor = DecimalBase, ack.gasSpent >= DeliveryGas - UnrewardedDeliveryGas
    PROVE  RelayAckForDeliveryBounty(
               ack.bounty,
               AckProfit(ack.bounty, AckGas(ack.handlerGas), AckGas(ack.handlerGas), ack.gasPrice, 0),
               ack.deliveryGasCost, ack.gasSpent)
<1> DEFINE b == ack.bounty
           a == ack.handlerGas
           gas == AckGas(a)
           deliveryReward == CalcGasReward(DeliveryGas, UnrewardedDeliveryGas,
                                           b.maxGasDelivery, b.priceOfDeliveryGas)
           reported == CalcGasReward(ack.gasSpent, 0, b.maxGasDelivery, b.priceOfDeliveryGas)
           loss == CalcMaxGasLoss(delivery.gasPrice, UnrewardedAckGas, VerificationAckGas,
                                  b.maxGasAck, b.priceOfAckGas)
           ackReward == CalcGasReward(gas, UnrewardedAckGas, b.maxGasAck, b.priceOfAckGas)
           cost == CalcGasCost(gas, ack.gasPrice, 0)
           costThen == CalcGasCost(gas, delivery.gasPrice, 0)
<1> USE EvaluationAssumption, EvaluatorAssumption
<1>1. /\ b \in Bounty /\ a \in Nat /\ a <= b.maxGasAck /\ gas \in Nat
      /\ delivery.gasPrice \in Nat /\ ack.gasPrice \in Nat
  BY DEF EvaluatorInv, RequestInv, SecuredInv, AckGas
<1>0. DeliveryGas \in Int /\ gas \in Int
  BY <1>1
<1>2. deliveryReward \in Nat /\ loss \in Int /\ ackReward \in Nat
  BY <1>0, <1>1, RewardType, LossType DEF Bounty
<1>3. cost \in Nat /\ costThen \in Nat /\ cost <= costThen
  BY <1>1, ProductNat, ProductMonotone DEF CalcGasCost
<1>4. loss <= ackReward - costThen
  BY <1>1, ExtremesAreWorst DEF Bounty, AckGas
<1>5. deliveryReward + loss > 0
  BY DEF EvaluatorInv, SecuredInv, Secured
<1>6. AckProfit(b, gas, gas, ack.gasPrice, 0) = ackReward - cost
  <2>1. Adjusted(ackReward) = ackReward
    BY <1>2, Unadjusted
  <2> QED
    BY <2>1 DEF AckProfit
<1>7. reported \in Nat /\ deliveryReward <= reported
  <2> DEFINE estimated == IF DeliveryGas > UnrewardedDeliveryGas THEN DeliveryGas - UnrewardedDeliveryGas ELSE 0
             spent == IF ack.gasSpent > 0 THEN ack.gasSpent - 0 ELSE 0
             max == b.maxGasDelivery
  <2>1. ack.gasSpent \in Nat
    BY DEF EvaluatorInv, RequestInv
  <2>2. estimated \in Nat /\ spent \in Nat /\ estimated <= spent
    BY <2>1
  <2>3. max \in Nat /\ b.priceOfDeliveryGas \in Nat
    BY <1>1 DEF Bounty
  <2>4. Least(estimated, max) \in Nat /\ Least(spent, max) \in Nat /\ Least(estimated, max) <= Least(spent, max)
    <3> HIDE DEF estimated, spent, max
    <3> QED
      BY <2>2, <2>3 DEF Least
  <2>5. /\ deliveryReward = b.priceOfDeliveryGas * Least(estimated, max)
        /\ reported = b.priceOfDeliveryGas * Least(spent, max)
    BY DEF CalcGasReward
  <2> HIDE DEF estimated, spent, max, deliveryReward, reported
  <2> QED
    BY <2>3, <2>4, <2>5, ProductNat, ProductMonotone
<1> HIDE DEF deliveryReward, reported, loss, ackReward, cost, costThen
<1>8. (ackReward - cost) + reported > 0
  BY <1>2, <1>3, <1>4, <1>5, <1>7
<1> QED
  BY <1>6, <1>8 DEF RelayAckForDeliveryBounty, reported

-----------------------------------------------------------------------------
LEMMA EvaluatorInvInit == EvaluatorInit => EvaluatorInv
<1> SUFFICES ASSUME EvaluatorInit PROVE EvaluatorInv
  OBVIOUS
<1> USE EvaluatorAssumption, PricingAssumption DEF EvaluatorInit
<1>1. PriceInv
  BY DEF PricingInit, PriceInv, NoPrice, Idle
<1>2. RequestInv
  BY DEF RequestInv, IdleDelivery, IdleAck, NoBounty, Bounty
<1>3. SecuredInv
  BY DEF SecuredInv, IdleDelivery, IdleAck
<1> QED
  BY <1>1, <1>2, <1>3 DEF EvaluatorInv, SecuredDeliveryAcked, IdleAck

\* A gas price is always defined.
LEMMA KnownGasPrice ==
    ASSUME NEW feeData \in FeeData
    PROVE  GetGasPrice(feeData) \in Nat
<1>1. feeData.gasPrice \in Nat \cup {Undefined} /\ feeData.maxFeePerGas \in Nat \cup {Undefined} /\ MaxUint \in Nat
  BY EvaluatorAssumption, EvaluationAssumption DEF FeeData
<1> QED
  BY <1>1 DEF GetGasPrice

\* The steps of the delivery's request.
LEMMA DeliveryStep ==
    ASSUME EvaluatorInv,
           AskDelivery \/ (\E feeData \in FeeData : DeliveryGasPrices(feeData)) \/ EvaluateDelivery
    PROVE  EvaluatorInv'
<1> USE EvaluatorAssumption, EvaluationAssumption
<1>1. CASE AskDelivery
  <2>1. PriceInv'
    BY <1>1 DEF AskDelivery, pricingVars, EvaluatorInv, PriceInv
  <2>2. RequestInv'
    BY <1>1 DEF AskDelivery, storeVars, EvaluatorInv, RequestInv
  <2>3. SecuredInv'
    BY <1>1 DEF AskDelivery, storeVars, EvaluatorInv, RequestInv, SecuredInv, SinceIncreased, Bounty
  <2>4. SecuredDeliveryAcked'
    BY <1>1 DEF AskDelivery, storeVars, EvaluatorInv, RequestInv, SecuredDeliveryAcked
  <2> QED
    BY <2>1, <2>2, <2>3, <2>4 DEF EvaluatorInv
<1>2. ASSUME NEW feeData \in FeeData, DeliveryGasPrices(feeData) PROVE EvaluatorInv'
  <2>0. GetGasPrice(feeData) \in Nat
    BY KnownGasPrice
  <2>1. PriceInv'
    BY <1>2, GetPriceStep DEF DeliveryGasPrices, EvaluatorInv
  <2>2. RequestInv'
    BY <1>2, <2>0 DEF DeliveryGasPrices, storeVars, EvaluatorInv, RequestInv
  <2>3. SecuredInv'
    BY <1>2 DEF DeliveryGasPrices, storeVars, EvaluatorInv, RequestInv, SecuredInv, SinceIncreased
  <2>4. SecuredDeliveryAcked'
    BY <1>2 DEF DeliveryGasPrices, storeVars, EvaluatorInv, RequestInv, SecuredInv, SecuredDeliveryAcked
  <2> QED
    BY <2>1, <2>2, <2>3, <2>4 DEF EvaluatorInv
<1>3. CASE EvaluateDelivery
  <2> DEFINE relayed == RelayDelivery(calls["delivery"].cached.price
                            * SecuredDeliveryReward(delivery.bounty, DeliveryGas, delivery.gasPrice),
                            DeliveryFiatCost)
  <2>0. /\ delivery.at = "price" /\ ack' = ack /\ UNCHANGED storeVars
        /\ delivery' = IF relayed THEN [delivery EXCEPT !.at = "relay", !.bounty = NoBounty] ELSE IdleDelivery
    BY <1>3 DEF EvaluateDelivery
  <2>1. PriceInv'
    BY <1>3, TakePriceStep DEF EvaluateDelivery, EvaluatorInv
  <2>2. RequestInv'
    BY <2>0 DEF storeVars, EvaluatorInv, RequestInv, IdleDelivery, NoBounty, Bounty
  <2>3. relayed /\ ProfitabilityFactor = DecimalBase => Secured(bounty)
    <3> SUFFICES ASSUME relayed, ProfitabilityFactor = DecimalBase PROVE Secured(bounty)
      OBVIOUS
    <3>1. Secured(delivery.bounty)
      BY <2>0, DeliverySecured
    <3> QED
      BY <2>0, <3>1, SecuredGrows DEF EvaluatorInv, RequestInv, SecuredInv, SinceIncreased
  <2>4. delivery'.at \in {"idle", "relay"}
        /\ (delivery'.at = "relay" => relayed /\ delivery'.gasPrice = delivery.gasPrice)
    BY <2>0 DEF IdleDelivery, EvaluatorInv, RequestInv
  <2>5. bounty' = bounty /\ deliveryGasCost' = deliveryGasCost
    BY <2>0 DEF storeVars
  <2>6. deliveryGasCost = 0 /\ deliveryGasCost \in Nat /\ ack.deliveryGasCost = 0
        /\ (ack.at \in {"message", "gas", "price"} => ack.handlerGas <= ack.bounty.maxGasAck)
    BY <2>0 DEF EvaluatorInv, SecuredInv, RequestInv
  <2> HIDE DEF relayed
  <2>7. delivery'.at = "relay" /\ ProfitabilityFactor = DecimalBase => Secured(bounty)'
    BY <2>3, <2>4, <2>5 DEF Secured
  <2>8. SecuredInv'
    BY <2>0, <2>4, <2>5, <2>6, <2>7 DEF SecuredInv
  <2>9. SecuredDeliveryAcked'
    BY <2>0, <2>5, <2>6 DEF EvaluatorInv, SecuredDeliveryAcked
  <2> QED
    BY <2>1, <2>2, <2>8, <2>9 DEF EvaluatorInv
<1> QED
  BY <1>1, <1>2, <1>3

\* The steps of the ack's request.
LEMMA AckStep ==
    ASSUME EvaluatorInv,
           \/ \E handlerGas \in 0..bounty.maxGasAck, unobservedGas \in 0..MaxUnobservedGas, fees \in AckFees :
                 AskAck(handlerGas, unobservedGas, fees)
           \/ \E delivered \in BOOLEAN : GetAckMessage(delivered)
           \/ \E feeData \in FeeData : AckGasPrice(feeData)
           \/ EvaluateAck
    PROVE  EvaluatorInv'
<1> USE EvaluatorAssumption, EvaluationAssumption
<1>1. ASSUME NEW handlerGas \in 0..bounty.maxGasAck, NEW unobservedGas \in 0..MaxUnobservedGas, NEW fees \in AckFees,
             AskAck(handlerGas, unobservedGas, fees)
      PROVE  EvaluatorInv'
  <2>0. handlerGas \in Nat /\ handlerGas <= bounty.maxGasAck /\ unobservedGas \in Nat /\ fees \in Nat
    BY DEF EvaluatorInv, RequestInv, Bounty
  <2>1. PriceInv'
    BY <1>1 DEF AskAck, pricingVars, EvaluatorInv, PriceInv
  <2>2. RequestInv'
    BY <1>1, <2>0 DEF AskAck, storeVars, EvaluatorInv, RequestInv, SecuredInv
  <2>3. SecuredInv'
    BY <1>1, <2>0 DEF AskAck, storeVars, EvaluatorInv, SecuredInv, SinceIncreased, Secured
  <2>4. SecuredDeliveryAcked'
    BY <1>1 DEF AskAck, storeVars, EvaluatorInv, SecuredDeliveryAcked
  <2> QED
    BY <2>1, <2>2, <2>3, <2>4 DEF EvaluatorInv
<1>2. ASSUME NEW feeData \in FeeData, AckGasPrice(feeData) PROVE EvaluatorInv'
  <2>0. GetGasPrice(feeData) \in Nat
    BY KnownGasPrice
  <2>1. PriceInv'
    BY <1>2, GetPriceStep DEF AckGasPrice, EvaluatorInv
  <2>2. RequestInv'
    BY <1>2, <2>0 DEF AckGasPrice, storeVars, EvaluatorInv, RequestInv
  <2>3. SecuredInv'
    BY <1>2 DEF AckGasPrice, storeVars, EvaluatorInv, RequestInv, SecuredInv, SinceIncreased, Secured
  <2>4. SecuredDeliveryAcked'
    BY <1>2 DEF AckGasPrice, storeVars, EvaluatorInv, RequestInv, SecuredDeliveryAcked
  <2> QED
    BY <2>1, <2>2, <2>3, <2>4 DEF EvaluatorInv
<1>4. ASSUME NEW delivered \in BOOLEAN, GetAckMessage(delivered) PROVE EvaluatorInv'
  <2>1. PriceInv'
    BY <1>4 DEF GetAckMessage, pricingVars, EvaluatorInv, PriceInv
  <2>2. RequestInv'
    BY <1>4 DEF GetAckMessage, storeVars, EvaluatorInv, RequestInv
  <2>3. SecuredInv'
    BY <1>4 DEF GetAckMessage, storeVars, EvaluatorInv, RequestInv, SecuredInv, SinceIncreased, Secured
  <2>4. SecuredDeliveryAcked'
    BY <1>4 DEF GetAckMessage, storeVars, EvaluatorInv, RequestInv, SecuredDeliveryAcked
  <2> QED
    BY <2>1, <2>2, <2>3, <2>4 DEF EvaluatorInv
<1>3. CASE EvaluateAck
  <2> DEFINE observedGas == AckGas(ack.handlerGas)
             gas == observedGas + ack.unobservedGas
             forDelivery == RelayAckForDeliveryBounty(
                                ack.bounty, AckProfit(ack.bounty, gas, observedGas, ack.gasPrice, ack.fees),
                                ack.deliveryGasCost, ack.gasSpent)
  <2>0. /\ ack.at = "price" /\ delivery' = delivery /\ UNCHANGED storeVars
        /\ \E at \in {"relay", "drop"} :
               /\ ack' = [ack EXCEPT !.bounty = NoBounty, !.handlerGas = 0, !.at = at]
               /\ forDelivery => at = "relay"
    BY <1>3 DEF EvaluateAck
  <2> HIDE DEF forDelivery
  <2>1. PriceInv'
    BY <1>3, TakePriceStep DEF EvaluateAck, EvaluatorInv
  <2>2. RequestInv'
    <3>1. NoBounty \in Bounty
      BY DEF NoBounty, Bounty
    <3> DEFINE Acks == [at : {"idle", "message", "gas", "price", "relay", "drop"}, gasPrice : Nat, handlerGas : Nat,
                        unobservedGas : Nat, fees : Nat, bounty : Bounty, deliveryGasCost : Nat, gasSpent : Nat]
    <3>2. ack' \in Acks
      <4>1. PICK at \in {"relay", "drop"} : ack' = [ack EXCEPT !.bounty = NoBounty, !.handlerGas = 0, !.at = at]
        BY <2>0
      <4>2. ack \in Acks
        BY DEF EvaluatorInv, RequestInv
      <4>3. [ack EXCEPT !.bounty = NoBounty] \in Acks
        BY <3>1, <4>2
      <4>4. [ack EXCEPT !.bounty = NoBounty, !.handlerGas = 0] \in Acks
        BY <4>3
      <4>5. [ack EXCEPT !.bounty = NoBounty, !.handlerGas = 0, !.at = at] \in Acks
        BY <4>4
      <4> QED
        BY <4>1, <4>5
    <3> QED
      BY <2>0, <3>2 DEF storeVars, EvaluatorInv, RequestInv
  <2>3. SecuredInv'
    BY <2>0 DEF storeVars, EvaluatorInv, RequestInv, SecuredInv, SinceIncreased, Secured
  <2>4. SecuredDeliveryAcked'
    <3> SUFFICES ASSUME ack'.at = "drop", ack'.deliveryGasCost # 0, ProfitabilityFactor = DecimalBase,
                        ack'.gasSpent >= DeliveryGas - UnrewardedDeliveryGas,
                        ack'.unobservedGas = 0, ack'.fees = 0
                 PROVE  ack'.gasPrice > delivery'.gasPrice
      <4>1. ack'.gasSpent \in Nat /\ ack'.unobservedGas \in Nat /\ ack'.fees \in Nat
        BY <2>2 DEF RequestInv
      <4>2. DeliveryGas - UnrewardedDeliveryGas \in Int
        OBVIOUS
      <4> QED
        BY <4>1, <4>2 DEF SecuredDeliveryAcked
    <3>1. /\ ack.deliveryGasCost # 0 /\ ack'.gasPrice = ack.gasPrice /\ ~forDelivery
          /\ ack.gasSpent >= DeliveryGas - UnrewardedDeliveryGas /\ ack.unobservedGas = 0 /\ ack.fees = 0
          /\ ack.gasPrice \in Nat /\ delivery.gasPrice \in Nat /\ ack.handlerGas \in Nat
      BY <2>0 DEF EvaluatorInv, RequestInv
    <3>2. gas = observedGas
      BY <3>1, EvaluationAssumption DEF AckGas
    <3>3. ack.gasPrice <= delivery.gasPrice => forDelivery
      BY <2>0, <3>1, <3>2, AckRelayed DEF forDelivery
    <3> QED
      BY <2>0, <3>1, <3>3
  <2> QED
    BY <2>1, <2>2, <2>3, <2>4 DEF EvaluatorInv
<1> QED
  BY <1>1, <1>2, <1>3, <1>4

\* The steps of the store.
LEMMA StoreStep ==
    ASSUME EvaluatorInv, PlaceBounty \/ IncreaseBounty \/ SetDeliveryCost \/ SetAckMessage
    PROVE  EvaluatorInv'
<1> USE EvaluatorAssumption DEF StoreUnchanged, requestVars, pricingVars
<1>0. UNCHANGED <<pricingVars, requestVars>>
  BY DEF PlaceBounty, IncreaseBounty, SetDeliveryCost, SetAckMessage
<1>1. PriceInv'
  BY <1>0 DEF EvaluatorInv, PriceInv
<1>2. SecuredDeliveryAcked'
  BY <1>0 DEF EvaluatorInv, SecuredDeliveryAcked, PlaceBounty, IncreaseBounty, SetDeliveryCost, SetAckMessage
<1>3. RequestInv' /\ SecuredInv'
  <2>1. CASE PlaceBounty \/ SetAckMessage
    <3>1. UNCHANGED <<bounty, deliveryGasCost>>
      BY <2>1 DEF PlaceBounty, SetAckMessage
    <3>2. gasSpent' \in Nat
      BY <2>1 DEF PlaceBounty, SetAckMessage, EvaluatorInv, RequestInv
    <3> QED
      BY <1>0, <3>1, <3>2 DEF EvaluatorInv, RequestInv, SecuredInv, SinceIncreased, Secured
  <2>2. CASE SetDeliveryCost
    <3>1. delivery.at = "relay" /\ bounty' = bounty /\ deliveryGasCost' \in Nat /\ gasSpent' = gasSpent
      BY <2>2 DEF SetDeliveryCost
    <3> QED
      BY <1>0, <3>1 DEF EvaluatorInv, RequestInv, SecuredInv, SinceIncreased, Secured
  <2>3. CASE IncreaseBounty
    <3>1. bounty \in Bounty
      BY DEF EvaluatorInv, RequestInv
    <3>2. /\ bounty' \in Bounty /\ deliveryGasCost' = deliveryGasCost /\ gasSpent' = gasSpent
          /\ bounty'.maxGasDelivery = bounty.maxGasDelivery /\ bounty'.maxGasAck = bounty.maxGasAck
          /\ bounty'.priceOfDeliveryGas = bounty.priceOfDeliveryGas
          /\ bounty.priceOfAckGas <= bounty'.priceOfAckGas
      BY <2>3, <3>1 DEF IncreaseBounty, Bounty
    <3>3. RequestInv'
      BY <1>0, <3>2 DEF EvaluatorInv, RequestInv
    <3>4. Secured(bounty) => Secured(bounty')
      BY <3>1, <3>2, SecuredGrows DEF EvaluatorInv, RequestInv
    <3>5. \A b \in Bounty : SinceIncreased(b) => SinceIncreased(b)'
      BY <3>1, <3>2 DEF SinceIncreased, Bounty
    <3>6. delivery.bounty \in Bounty
      BY DEF EvaluatorInv, RequestInv
    <3>7. SecuredInv'
      BY <1>0, <3>2, <3>4, <3>5, <3>6 DEF EvaluatorInv, SecuredInv, Secured
    <3> QED
      BY <3>3, <3>7
  <2> QED
    BY <2>1, <2>2, <2>3
<1> QED
  BY <1>1, <1>2, <1>3 DEF EvaluatorInv

LEMMA EvaluatorInvStep == EvaluatorInv /\ [EvaluatorNext]_evaluatorVars => EvaluatorInv'
<1> SUFFICES ASSUME EvaluatorInv, [EvaluatorNext]_evaluatorVars PROVE EvaluatorInv'
  OBVIOUS
<1>1. CASE PricingStep
  BY <1>1, PricingKeepsPrices
     DEF storeVars, requestVars, EvaluatorInv, RequestInv, SecuredInv, SinceIncreased, Secured, SecuredDeliveryAcked
<1>2. CASE UNCHANGED evaluatorVars
  BY <1>2 DEF evaluatorVars, pricingVars, storeVars, requestVars, EvaluatorInv, PriceInv, RequestInv,
              SecuredInv, SinceIncreased, Secured, SecuredDeliveryAcked
<1> QED
  BY <1>1, <1>2, DeliveryStep, AckStep, StoreStep DEF EvaluatorNext

\* Whatever the gas prices, bounties and gas limits, the loss that the evaluation
\* of a delivery allows for is the worst of its ack.
THEOREM MaxGasLossIsWorstSafe == EvaluatorSpec => []MaxGasLossIsWorst
<1>1. EvaluatorInv => MaxGasLossIsWorst
  <2> SUFFICES ASSUME EvaluatorInv, NEW handlerGas \in 0..delivery.bounty.maxGasAck
               PROVE  CalcMaxGasLoss(delivery.gasPrice, UnrewardedAckGas, VerificationAckGas,
                                     delivery.bounty.maxGasAck, delivery.bounty.priceOfAckGas)
                      <= CalcGasReward(AckGas(handlerGas), UnrewardedAckGas, delivery.bounty.maxGasAck,
                                       delivery.bounty.priceOfAckGas)
                         - CalcGasCost(AckGas(handlerGas), delivery.gasPrice, 0)
    BY DEF MaxGasLossIsWorst
  <2>1. /\ delivery.gasPrice \in Nat /\ delivery.bounty.maxGasAck \in Nat
        /\ delivery.bounty.priceOfAckGas \in Nat
    BY DEF EvaluatorInv, RequestInv, Bounty
  <2>2. handlerGas \in Nat /\ handlerGas <= delivery.bounty.maxGasAck
    BY <2>1
  <2> QED
    BY <2>1, <2>2, ExtremesAreWorst, EvaluationAssumption DEF AckGas
<1> QED
  BY <1>1, EvaluatorInvInit, EvaluatorInvStep, PTL DEF EvaluatorSpec

\* Once the relayer has delivered a message because it was worth it, its ack is
\* relayed too, if the delivery is reported to have used at least the gas it was to
\* be rewarded for, and the ack costs no more than the gas observed, at a gas price
\* no higher than it was; whatever else happened to the store and to the prices.
THEOREM SecuredDeliveryAckedSafe == EvaluatorSpec => []SecuredDeliveryAcked
<1>1. EvaluatorInv => SecuredDeliveryAcked
  BY DEF EvaluatorInv
<1> QED
  BY <1>1, EvaluatorInvInit, EvaluatorInvStep, PTL DEF EvaluatorSpec

-----------------------------------------------------------------------------
(* The calls of getPrice. That a price is in time needs the age of a call  *)
(* that still queries to be none.                                          *)

KnownPrice == [price : Prices, timestamp : 0..now] \cup {NoPrice}
Call == [at : {"idle", "updating", "done"}, tryCount : Nat, cached : KnownPrice, age : 0..MaxTime]

InTime(call) ==
    /\ call.at = "updating" => call.age = 0
    /\ call.at = "done" =>
          /\ call.cached # NoPrice
          /\ call.tryCount >= PricingMaxTries \/ call.age = 0 \/ call.age < CacheDuration

CallsInv == PricingTypeOK /\ \A c \in Callers : InTime(calls[c])

LEMMA CallsTypes ==
    ASSUME CallsInv
    PROVE  /\ now \in Nat /\ now <= MaxTime /\ MaxTime \in Nat /\ market \in Prices
           /\ cachedGasPrice \in KnownPrice /\ calls \in [Callers -> Call]
           /\ queryFailures \in 0..MaxQueryFailures /\ MaxQueryFailures \in Nat
BY PricingAssumption DEF CallsInv, PricingTypeOK, KnownPrice, Call

\* A step that changes one call, and time not.
LEMMA CallStep ==
    ASSUME CallsInv, now' = now, market' \in Prices, cachedGasPrice' \in KnownPrice,
           queryFailures' \in 0..MaxQueryFailures, NEW c \in Callers,
           NEW call \in Call, InTime(call), calls' = [calls EXCEPT ![c] = call]
    PROVE  CallsInv'
<1>1. calls' \in [Callers -> Call]
  BY CallsTypes
<1>2. \A d \in Callers : InTime(calls'[d])
  BY CallsTypes DEF CallsInv
<1>3. PricingTypeOK'
  BY <1>1, CallsTypes DEF PricingTypeOK, KnownPrice, Call
<1>4. \A d \in Callers : InTime(calls[d])'
  BY <1>2 DEF InTime
<1> QED
  BY <1>3, <1>4 DEF CallsInv

LEMMA TriedCall ==
    ASSUME NEW call \in Call, NEW at \in {"idle", "updating", "done"}
    PROVE  [call EXCEPT !.tryCount = @ + 1, !.at = at] \in Call
<1>1. [call EXCEPT !.tryCount = @ + 1] \in Call
  BY DEF Call
<1> QED
  BY <1>1 DEF Call

LEMMA CallsStep ==
    ASSUME CallsInv,
           \/ Tick \/ MarketMoves \/ UNCHANGED pricingVars
           \/ \E c \in Callers : GetPrice(c) \/ QueryAnswered(c) \/ QueryFails(c) \/ TakePrice(c)
    PROVE  CallsInv'
<1>t. /\ now \in Nat /\ now <= MaxTime /\ MaxTime \in Nat /\ market \in Prices
      /\ cachedGasPrice \in KnownPrice /\ calls \in [Callers -> Call]
      /\ queryFailures \in 0..MaxQueryFailures /\ MaxQueryFailures \in Nat
  BY CallsTypes
<1>u. ASSUME now' \in Nat, now <= now', now' <= MaxTime, market' \in Prices,
             UNCHANGED <<cachedGasPrice, calls, queryFailures>>
      PROVE  CallsInv'
  <2>1. 0..now \subseteq 0..now'
    BY <1>t, <1>u
  <2>2. KnownPrice \subseteq KnownPrice'
    BY <2>1 DEF KnownPrice
  <2>3. Call \subseteq Call'
    BY <2>2 DEF Call
  <2>4. cachedGasPrice' \in KnownPrice' /\ calls' \in [Callers -> Call']
    BY <1>t, <1>u, <2>2, <2>3
  <2>5. PricingTypeOK'
    BY <1>t, <1>u, <2>4 DEF PricingTypeOK, KnownPrice, Call
  <2> QED
    BY <1>u, <2>5 DEF CallsInv, InTime
<1>1. CASE Tick
  BY <1>1, <1>t, <1>u DEF Tick
<1>2. CASE MarketMoves
  BY <1>2, <1>t, <1>u DEF MarketMoves
<1>3. CASE UNCHANGED pricingVars
  BY <1>3, <1>t, <1>u DEF pricingVars
<1>4. ASSUME NEW c \in Callers, GetPrice(c) PROVE CallsInv'
  <2> DEFINE call == [at |-> IF IsCacheValid THEN "done" ELSE "updating", cached |-> cachedGasPrice,
                      tryCount |-> 0, age |-> IF IsCacheValid THEN now - cachedGasPrice.timestamp ELSE 0]
  <2>1. calls' = [calls EXCEPT ![c] = call] /\ UNCHANGED <<now, market, cachedGasPrice, queryFailures>>
    BY <1>4 DEF GetPrice
  <2>2. CASE IsCacheValid
    <3>1. /\ cachedGasPrice # NoPrice /\ now < cachedGasPrice.timestamp + CacheDuration
          /\ cachedGasPrice.timestamp \in 0..now
      BY <1>t, <2>2 DEF IsCacheValid, KnownPrice
    <3>2. now - cachedGasPrice.timestamp \in 0..MaxTime /\ now - cachedGasPrice.timestamp < CacheDuration
      BY <1>t, <3>1, PricingAssumption
    <3>3. call \in Call /\ InTime(call)
      BY <1>t, <2>2, <3>1, <3>2 DEF Call, InTime
    <3> QED
      BY <1>t, <2>1, <3>3, CallStep
  <2>3. CASE ~IsCacheValid
    <3>1. call \in Call /\ InTime(call)
      BY <1>t, <2>3 DEF Call, InTime
    <3> QED
      BY <1>t, <2>1, <3>1, CallStep
  <2> QED
    BY <2>2, <2>3
<1>5. ASSUME NEW c \in Callers, QueryAnswered(c) PROVE CallsInv'
  <2> DEFINE latest == [price |-> market, timestamp |-> now]
             call == [calls[c] EXCEPT !.at = "done", !.cached = latest]
  <2>1. /\ calls' = [calls EXCEPT ![c] = call] /\ cachedGasPrice' = latest
        /\ UNCHANGED <<now, market, queryFailures>> /\ calls[c].at = "updating"
    BY <1>5 DEF QueryAnswered
  <2>2. latest \in KnownPrice /\ latest # NoPrice
    BY <1>t DEF KnownPrice, NoPrice
  <2>3. calls[c] \in Call /\ calls[c].age = 0
    BY <1>t, <2>1 DEF CallsInv, InTime
  <2>4. call \in Call /\ call.at = "done" /\ call.cached = latest /\ call.age = 0
    BY <2>2, <2>3 DEF Call
  <2> HIDE DEF latest, call
  <2>5. InTime(call)
    BY <2>2, <2>4 DEF InTime
  <2> QED
    BY <1>t, <2>1, <2>2, <2>4, <2>5, CallStep
<1>6. ASSUME NEW c \in Callers, QueryFails(c) PROVE CallsInv'
  <2> DEFINE call == [calls[c] EXCEPT !.tryCount = @ + 1, !.at = IF GivesUp(calls[c]) THEN "done" ELSE "updating"]
  <2>1. /\ calls' = [calls EXCEPT ![c] = call] /\ queryFailures' = queryFailures + 1
        /\ queryFailures < MaxQueryFailures
        /\ UNCHANGED <<now, market, cachedGasPrice>> /\ calls[c].at = "updating"
    BY <1>6 DEF QueryFails
  <2>2. calls[c] \in Call /\ calls[c].age = 0
    BY <1>t, <2>1 DEF CallsInv, InTime
  <2>0. DOMAIN calls[c] = {"at", "tryCount", "cached", "age"} /\ calls[c].tryCount \in Nat
    BY <2>2 DEF Call
  <2>3. /\ call.age = 0 /\ call.tryCount = calls[c].tryCount + 1 /\ call.cached = calls[c].cached
        /\ call.at = IF GivesUp(calls[c]) THEN "done" ELSE "updating"
    <3> HIDE DEF GivesUp
    <3> QED
      BY <2>0, <2>2
  <2>7. call \in Call
    <3>1. (IF GivesUp(calls[c]) THEN "done" ELSE "updating") \in {"idle", "updating", "done"}
      OBVIOUS
    <3> QED
      BY <2>2, <3>1, TriedCall
  <2>4. queryFailures' \in 0..MaxQueryFailures
    BY <1>t, <2>1
  <2> HIDE DEF call
  <2>5. InTime(call)
    BY <2>3 DEF InTime, GivesUp
  <2> QED
    BY <1>t, <2>1, <2>4, <2>5, <2>7, CallStep
<1>7. ASSUME NEW c \in Callers, TakePrice(c) PROVE CallsInv'
  <2>1. Idle \in Call /\ InTime(Idle)
    BY <1>t DEF Idle, Call, InTime, KnownPrice
  <2> QED
    BY <1>7, <1>t, <2>1, CallStep DEF TakePrice
<1> QED
  BY <1>1, <1>2, <1>3, <1>4, <1>5, <1>6, <1>7

LEMMA CallsInit == EvaluatorInit => CallsInv
<1> SUFFICES ASSUME EvaluatorInit PROVE CallsInv
  OBVIOUS
<1>1. /\ now = 0 /\ market \in Prices /\ cachedGasPrice = NoPrice /\ queryFailures = 0
      /\ calls = [c \in Callers |-> Idle]
  BY DEF EvaluatorInit, PricingInit
<1>2. Idle \in Call
  BY PricingAssumption DEF Idle, Call, KnownPrice
<1>3. PricingTypeOK
  BY <1>1, <1>2, PricingAssumption DEF PricingTypeOK, KnownPrice, Call
<1> QED
  BY <1>1, <1>3 DEF CallsInv, InTime, Idle

LEMMA CallsNext == CallsInv /\ [EvaluatorNext]_evaluatorVars => CallsInv'
<1> SUFFICES ASSUME CallsInv, [EvaluatorNext]_evaluatorVars PROVE CallsInv'
  OBVIOUS
<1>c. "delivery" \in Callers /\ "ack" \in Callers
  BY EvaluatorAssumption
<1>1. CASE PricingStep
  BY <1>1, CallsStep DEF PricingStep
<1>2. ASSUME AskDelivery \/ (\E handlerGas, unobservedGas, fees : AskAck(handlerGas, unobservedGas, fees))
             \/ (\E delivered \in BOOLEAN : GetAckMessage(delivered))
             \/ PlaceBounty \/ IncreaseBounty \/ SetDeliveryCost \/ SetAckMessage \/ UNCHANGED evaluatorVars
      PROVE  UNCHANGED pricingVars
  BY <1>2 DEF AskDelivery, AskAck, GetAckMessage, PlaceBounty, IncreaseBounty, SetDeliveryCost, SetAckMessage,
              StoreUnchanged, evaluatorVars
<1>3. ASSUME EvaluateDelivery \/ EvaluateAck
             \/ \E feeData \in FeeData : DeliveryGasPrices(feeData) \/ AckGasPrice(feeData)
      PROVE  \E c \in Callers : GetPrice(c) \/ TakePrice(c)
  BY <1>3, <1>c DEF EvaluateDelivery, EvaluateAck, DeliveryGasPrices, AckGasPrice
<1> QED
  BY <1>1, <1>2, <1>3, CallsStep DEF EvaluatorNext

\* A call of getPrice is answered with a price that was known, and with one past its
\* cacheDuration only after as many failed queries as maxTries.
THEOREM PriceInTimeSafe == EvaluatorSpec => []PriceInTime
<1>1. CallsInv => PriceInTime
  BY DEF CallsInv, InTime, PriceInTime
<1> QED
  BY <1>1, CallsInit, CallsNext, PTL DEF EvaluatorSpec

\* What the store keeps of the relay state.
StoreTypes == placed \in BOOLEAN /\ gasSpent \in {0} \cup GasReports /\ deliveryGasCost \in {0, DeliveryGas}

LEMMA StoreTypesNext == StoreTypes /\ [EvaluatorNext]_evaluatorVars => StoreTypes'
<1> SUFFICES ASSUME StoreTypes, [EvaluatorNext]_evaluatorVars PROVE StoreTypes'
  OBVIOUS
<1>1. CASE PlaceBounty \/ IncreaseBounty \/ SetDeliveryCost \/ SetAckMessage
  BY <1>1 DEF PlaceBounty, IncreaseBounty, SetDeliveryCost, SetAckMessage, StoreTypes
<1>2. CASE UNCHANGED storeVars
  BY <1>2 DEF storeVars, StoreTypes
<1>3. ASSUME AskDelivery \/ (\E handlerGas, unobservedGas, fees : AskAck(handlerGas, unobservedGas, fees))
             \/ (\E delivered \in BOOLEAN : GetAckMessage(delivered))
             \/ EvaluateDelivery \/ EvaluateAck \/ PricingStep \/ UNCHANGED evaluatorVars
             \/ \E feeData \in FeeData : DeliveryGasPrices(feeData) \/ AckGasPrice(feeData)
      PROVE  UNCHANGED storeVars
  BY <1>3 DEF AskDelivery, AskAck, GetAckMessage, EvaluateDelivery, EvaluateAck, PricingStep, DeliveryGasPrices,
              AckGasPrice, evaluatorVars
<1> QED
  BY <1>1, <1>2, <1>3 DEF EvaluatorNext

\* The types of the evaluator, the store and the pricing provider.
THEOREM EvaluatorTypeCorrect == EvaluatorSpec => []EvaluatorTypeOK
<1>1. EvaluatorInit => StoreTypes
  BY DEF EvaluatorInit, StoreTypes
<1>2. CallsInv /\ EvaluatorInv /\ StoreTypes => EvaluatorTypeOK
  BY DEF CallsInv, EvaluatorInv, RequestInv, StoreTypes, EvaluatorTypeOK
<1> QED
  BY <1>1, <1>2, CallsInit, CallsNext, EvaluatorInvInit, EvaluatorInvStep, StoreTypesNext, PTL
     DEF EvaluatorSpec
=============================================================================
