SPECIFICATION MCSpec
CONSTANTS
    UnrewardedDeliveryGas = 1
    UnrewardedAckGas = 1
    VerificationAckGas = 1
    ProfitabilityFactor = 10000
    MinDeliveryReward = 0
    MinAckReward = 0
    RelativeMinDeliveryReward = 50
    RelativeMinAckReward = 50
    MaxUint = 1000
    Callers <- MCCallers
    Prices = {1, 2}
    CacheDuration = 1
    PricingMaxTries = 2
    MaxTime = 1
    MaxQueryFailures = 2
    Bounties <- MCBounties
    GasPrices = {1, 3}
    MaxPriceOfAckGas = 2
    DestinationGasPrice = 1
    DestinationPrice = 1
    DeliveryGas = 3
    GasReports = {1, 2, 3}
    MaxUnobservedGas = 1
    AckFees = {0, 2}
    Networks <- MCNetworks
    GasPriceAdjustmentFactor = 10000
    MaxPriorityFeeAdjustmentFactor = 10000
    PriorityAdjustmentFactor = 15000
    MaxAllowedGasPrice <- MCNone
    MaxFeePerGas <- MCNone
    MaxAllowedPriorityFeePerGas = 2
    LowBalanceWarning = 2
    BalanceUpdateInterval = 1
    MaxTries = 2
    MaxValue = 1
    MaxBalance = 3
INVARIANTS
    EvaluatorTypeOK
    PriceInTime
    ReplacementOutbids
    LowBalanceNoticed
    BalanceNotOverestimated
    MaxGasLossIsWorst
    SecuredDeliveryAcked
