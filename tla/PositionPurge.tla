--------------------------- MODULE PositionPurge ---------------------------
(***************************************************************************)
(* Position with the operation purge_events_for_order, which rebuilds a    *)
(* position from its own log after removing the fills of one order.        *)
(***************************************************************************)
EXTENDS Position

Purge(client_order_id) ==
    position' = purge_events_for_order(position, client_order_id)

PurgeNext == Next \/ \E c \in ClientOrderIds : Purge(c)

PurgeSpec == Init /\ [][PurgeNext]_position

-----------------------------------------------------------------------------
\* The quantity the fills of an order, less their base commission, contribute.
Contribution(p, c) ==
    SumFunction([n \in DOMAIN p.events |->
                    IF p.events[n].client_order_id = c
                    THEN Signed(p.events[n]) - BaseCommission(p.events[n]) ELSE 0])

\* Purging an order takes exactly its fills out of the quantity held, although the
\* replay may pass through flat, where Position::apply forgets what came before, and
\* may end on the other side; no fill of the order is left to be counted again.  (An
\* order without fills in the position's log is no change of quantity.)
PurgeRemovesTheOrder ==
    [][\A c \in ClientOrderIds : Purge(c) =>
          /\ position'.signed_qty = position.signed_qty - Contribution(position, c)
          /\ \A i \in DOMAIN position'.events : position'.events[i].client_order_id # c]_position
=============================================================================
