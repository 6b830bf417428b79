---------------------------- MODULE MCExecEngine ----------------------------
(***************************************************************************)
(* Instances of ExecEngine for TLC.                                        *)
(***************************************************************************)
EXTENDS ExecEngine, TLC

CONSTANTS o1, o2, o3, v1, v2, v3, l1

Order_(side, quantity, reduce_only, linked, spawn) ==
    [order_side |-> side, order_type |-> "Limit", quantity |-> quantity,
     reduce_only |-> reduce_only, linked_order_ids |-> linked, exec_spawn_id |-> spawn]

\* A buy and a reduce-only sell.
BuyAndReduce ==
    o1 :> Order_("Buy", 3, FALSE, {}, None) @@ o2 :> Order_("Sell", 3, TRUE, {}, None)

\* The primary order of an execution algorithm, one it spawned, and a sell linked to the
\* primary, which can flip the position they open.
PrimaryAndSpawned ==
    o1 :> Order_("Buy", 2, FALSE, {o3}, o1) @@ o2 :> Order_("Buy", 1, FALSE, {}, o1)
    @@ o3 :> Order_("Sell", 2, FALSE, {}, None)
SpawnOwner == v1 :> o1 @@ v2 :> o2 @@ v3 :> o3

\* Both orders at two prices, with what the venue repeats; one of them under every type of
\* event, with a leg fill and purges.
NettingBounds ==
    {[orders |-> {o1, o2}, types |-> {"Accepted"}, prices |-> Prices, legs |-> 0,
      purges |-> FALSE],
     [orders |-> {o1}, types |-> EventTypes, prices |-> {2}, legs |-> 1, purges |-> TRUE]}

\* All there is, without purges.
Everything(legs) ==
    [orders |-> ClientOrderIds, types |-> EventTypes, prices |-> Prices, legs |-> legs,
     purges |-> FALSE]
HedgingBounds == {Everything(0)}
LegBounds == {Everything(4)}

SingleOrder == o1 :> Order_("Buy", 2, FALSE, {}, None)
SingleOwner == v1 :> o1 @@ v2 :> o1

Owner == v1 :> o1 @@ v2 :> o2

NettingIds == {NetId}
NetAndVenueIds == {NetId, <<"V", 1>>}
HedgingIds == {NetId, <<"V", 1>>, <<"P", 1>>, <<"P", 2>>, <<"P", 3>>, <<"P", 4>>}
VenuePosition == {<<"V", 1>>}
NoIds == {}

Symmetry == Permutations(TradeIds)
=============================================================================
