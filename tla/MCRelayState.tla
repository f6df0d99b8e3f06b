---------------------------- MODULE MCRelayState ----------------------------
(***************************************************************************)
(* One relay in RelayState: its bounty is placed, increased twice, and     *)
(* claimed on the source chain; the message is delivered on the            *)
(* destination chain; the submitter registers the cost of the delivery.    *)
(***************************************************************************)
EXTENDS RelayState

CONSTANTS source, destination, submitter

Of(kind) == [kind |-> kind, price |-> NoPrice]
Increased(delivery, ack) == [kind |-> "increased", price |-> <<delivery, ack>>]

RelayLog ==
    [w \in {source, destination, submitter} |->
        CASE w = source -> <<Of("placed"), Increased(2, 1), Increased(2, 2), Of("claimed")>>
          [] w = destination -> <<Of("delivered")>>
          [] w = submitter -> <<Of("cost")>>]

RelayPrices == {<<2, 1>>, <<2, 2>>}
=============================================================================
