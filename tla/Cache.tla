------------------------------- MODULE Cache -------------------------------
(***************************************************************************)
(* The order and position part of the cache, crates/common/src/cache/      *)
(* mod.rs, as functions on a cache record: the objects themselves, the     *)
(* indexes that answer lookups and queries, and the position snapshots.    *)
(* One instrument, venue, strategy and account: the indexes keyed by these *)
(* hold every id and are left out, as are the backing database, the own    *)
(* order book and market data.  `orders` and `positions` are functions on  *)
(* the ids that have an order or a position; in the other maps an entry    *)
(* that is absent is None, or the empty set if the entries are sets.       *)
(***************************************************************************)
EXTENDS OrderCore, PositionCore

CONSTANTS
    ClientOrderIds,  \* orders that can be submitted
    LegOrderIds,     \* client order ids of combo legs, which have no order in the cache
    VenueOrderIds,   \* ids the venue assigns to orders
    PositionIds,     \* all position ids
    OrderInit        \* the OrderInitialized event of each order

ASSUME CacheAssumption ==
    /\ ClientOrderIds \cap LegOrderIds = {}
    /\ None \notin ClientOrderIds \cup LegOrderIds \cup VenueOrderIds \cup PositionIds
    /\ \A id \in ClientOrderIds :
          /\ OrderInit[id].order_side \in OrderSide
          /\ OrderInit[id].order_type \in OrderType
          /\ OrderInit[id].quantity \in Nat
          /\ OrderInit[id].reduce_only \in BOOLEAN
          /\ OrderInit[id].linked_order_ids \subseteq ClientOrderIds   \* of an OTO parent
          /\ OrderInit[id].exec_spawn_id \in ClientOrderIds \cup {None}

OrderIds == ClientOrderIds \cup LegOrderIds

EmptyCache ==
    [orders              |-> [id \in {} |-> None],
     venue_order_ids     |-> [v \in VenueOrderIds |-> None],
     client_order_ids    |-> [id \in ClientOrderIds |-> None],
     order_position      |-> [id \in OrderIds |-> None],
     position_orders     |-> [p \in PositionIds |-> {}],
     exec_spawn_orders   |-> [id \in ClientOrderIds |-> {}],
     orders_active_local |-> {},
     orders_emulated     |-> {},
     orders_inflight     |-> {},
     orders_open         |-> {},
     orders_closed       |-> {},
     positions           |-> [p \in {} |-> None],
     position_snapshots  |-> [p \in PositionIds |-> << >>],
     positions_open      |-> {},
     positions_closed    |-> {}]

order_exists(c, id) == id \in DOMAIN c.orders
has_position(c, position_id) == position_id \in DOMAIN c.positions

\* A map with an entry added or replaced, and without one.
WithEntry(map, key, value) ==
    [k \in DOMAIN map \cup {key} |-> IF k = key THEN value ELSE map[k]]
WithoutEntry(map, key) == [k \in DOMAIN map \ {key} |-> map[k]]

\* Inserts or removes an id.
Member(S, id, belongs) == IF belongs THEN S \cup {id} ELSE S \ {id}

-----------------------------------------------------------------------------
add_position_id(c, position_id, id) ==
    [c EXCEPT !.order_position[id] = position_id,
              !.position_orders[position_id] = @ \cup {id}]

add_order(c, id, order, position_id) ==
    LET spawn == OrderInit[id].exec_spawn_id
        added == [c EXCEPT
                    !.orders = WithEntry(@, id, order),
                    !.orders_active_local = IF is_active_local(order) THEN @ \cup {id} ELSE @,
                    !.orders_emulated = IF order.emulation_trigger THEN @ \cup {id} ELSE @,
                    !.exec_spawn_orders = [s \in ClientOrderIds |->
                                             IF s = spawn THEN @[s] \cup {id} ELSE @[s]]]
    IN IF position_id = None THEN added ELSE add_position_id(added, position_id, id)

\* A second venue order id is refused unless the order is being modified.
add_venue_order_id(c, id, venue_order_id, overwrite) ==
    IF c.client_order_ids[id] \notin {None, venue_order_id} /\ ~overwrite
    THEN c
    ELSE [c EXCEPT !.client_order_ids[id] = venue_order_id,
                   !.venue_order_ids[venue_order_id] = id]

\* Mutant: an order that closes stays in the index of open orders.
refresh_order_keeps_open(c, id, o) ==
    [c EXCEPT !.orders_active_local = Member(@, id, is_active_local(o)),
              !.orders_inflight = Member(@, id, is_inflight(o)),
              !.orders_open = IF is_open(o) THEN @ \cup {id} ELSE @,
              !.orders_closed = IF is_closed(o) THEN @ \cup {id} ELSE @]

\* The indexes follow the order.  An order that is neither open nor closed stays in the
\* open and closed indexes it is in.
refresh_order(c, id, o) ==
    LET v       == o.venue_order_id
        indexed == IF v # None /\ c.venue_order_ids[v] = None
                   THEN add_venue_order_id(c, id, v, o.last_event = "Updated") ELSE c
    IN [indexed EXCEPT
          !.orders_active_local = Member(@, id, is_active_local(o)),
          !.orders_inflight = Member(@, id, is_inflight(o)),
          !.orders_open = IF is_open(o) \/ is_closed(o) THEN Member(@, id, is_open(o)) ELSE @,
          !.orders_closed = IF is_open(o) \/ is_closed(o) THEN Member(@, id, ~is_open(o)) ELSE @,
          !.orders_emulated = Member(@, id, o.emulation_trigger /\ ~is_closed(o))]

\* Whether update_order returns Ok: the event is applied to a copy of the order first.
Accepts(c, id, event) == Applies(SavePrevious(c.orders[id], event), event)

update_order(c, id, event) ==
    LET order == apply(c.orders[id], event)
    IN IF Accepts(c, id, event)
       THEN refresh_order([c EXCEPT !.orders[id] = order], id, order)
       ELSE c

-----------------------------------------------------------------------------
\* Mutant: a position id used before stays among the closed ones.
add_position_still_closed(c, position_id, p) ==
    add_position_id([c EXCEPT !.positions = WithEntry(@, position_id, p),
                              !.positions_open = @ \cup {position_id}],
                    position_id, p.opening_order_id)

\* Replaces whatever position had the id.
add_position(c, position_id, p) ==
    add_position_id([c EXCEPT !.positions = WithEntry(@, position_id, p),
                              !.positions_open = @ \cup {position_id},
                              !.positions_closed = @ \ {position_id}],
                    position_id, p.opening_order_id)

update_position(c, position_id, p) ==
    [c EXCEPT !.positions[position_id] = p,
              !.positions_open = Member(@, position_id, PositionOpen(p)),
              !.positions_closed = Member(@, position_id, ~PositionOpen(p))]

snapshot_position(c, position_id, p) ==
    [c EXCEPT !.position_snapshots[position_id] = Append(@, p)]

position_contains_trade_id(c, position_id, trade_id) ==
    /\ has_position(c, position_id)
    /\ trade_id \in PositionTradeIds(c.positions[position_id])

-----------------------------------------------------------------------------
\* The order must not be open.  Of several venue order ids only the last is forgotten.
purge_order(c, id) ==
    LET o     == c.orders[id]
        spawn == OrderInit[id].exec_spawn_id
    IN [c EXCEPT
          !.orders = WithoutEntry(@, id),
          !.venue_order_ids = IF o.venue_order_id = None THEN @
                              ELSE [@ EXCEPT ![o.venue_order_id] = None],
          !.client_order_ids[id] = None,
          !.order_position[id] = None,
          !.position_orders = [p \in PositionIds |->
                                 IF p = o.position_id THEN @[p] \ {id} ELSE @[p]],
          !.exec_spawn_orders = [s \in ClientOrderIds |->
                                   IF s = id THEN {} ELSE IF s = spawn THEN @[s] \ {id} ELSE @[s]],
          !.orders_active_local = @ \ {id},
          !.orders_emulated = @ \ {id},
          !.orders_inflight = @ \ {id},
          !.orders_open = @ \ {id},
          !.orders_closed = @ \ {id}]

\* The position must not be open.  Its snapshots go with it.
purge_position(c, position_id) ==
    LET p       == c.positions[position_id]
        traders == {p.events[i].client_order_id : i \in DOMAIN p.events}
    IN [c EXCEPT
          !.positions = WithoutEntry(@, position_id),
          !.order_position = [id \in OrderIds |-> IF id \in traders THEN None ELSE @[id]],
          !.position_orders[position_id] = {},
          !.positions_open = @ \ {position_id},
          !.positions_closed = @ \ {position_id},
          !.position_snapshots[position_id] = << >>]
=============================================================================
