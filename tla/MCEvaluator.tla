----------------------------- MODULE MCEvaluator -----------------------------
(* The evaluator, and the wallet's TransactionHelper, which share no variable: *)
(* a behaviour is one of either, with the other at rest. The evaluator's are   *)
(* of two kinds: without a failed query, with all bounties, reports of gas,    *)
(* and costs of an ack; or about the prices, with one bounty and those fixed.  *)
EXTENDS Evaluator, TransactionHelper

VARIABLE side   \* which kind of behaviour it is

\* A legacy and an EIP 1559 network, cheap and dear.
MCNetworks == {[gasPrice |-> 1, maxFeePerGas |-> None, maxPriorityFeePerGas |-> None],
               [gasPrice |-> 4, maxFeePerGas |-> None, maxPriorityFeePerGas |-> None],
               [gasPrice |-> 3, maxFeePerGas |-> 4, maxPriorityFeePerGas |-> 2]}
MCNone == None
\* They pay for the ack more or less than the gas of the source chain costs.
MCBounties == [maxGasDelivery : {2}, maxGasAck : {2}, priceOfDeliveryGas : {6}, priceOfAckGas : {0, 2}]
MCCallers == {"delivery", "ack"}

MCInit ==
    /\ EvaluatorInit /\ HelperInit /\ side \in {"evaluator", "prices", "helper"}
    /\ side # "helper" => network.gasPrice = 1 /\ feeData = network /\ account = 1
    /\ side # "evaluator" => bounty.priceOfAckGas = 0
    /\ side = "helper" => market = 1
MCNext ==
    \/ side = "evaluator" /\ EvaluatorNext /\ queryFailures' = 0 /\ UNCHANGED <<helperVars, side>>
    \/ side = "prices" /\ EvaluatorNext /\ bounty' = bounty /\ gasSpent' = 0
       /\ ack'.handlerGas = 0 /\ ack'.unobservedGas = 0 /\ ack'.fees = 0
       /\ UNCHANGED <<helperVars, side>>
    \/ side = "helper" /\ HelperNext /\ UNCHANGED <<evaluatorVars, side>>
MCSpec == MCInit /\ [][MCNext]_<<evaluatorVars, helperVars, side>>
=============================================================================
