----------------------------- MODULE ExecEngine -----------------------------
(***************************************************************************)
(* The execution engine, crates/execution/src/engine/mod.rs: submission of *)
(* orders and handling of order events.  A fill is routed to a position,   *)
(* checked, applied to its order and then to the position, which it opens, *)
(* changes, closes or flips.                                               *)
(*                                                                         *)
(* The venue is the environment: it sends any event for any order at any   *)
(* time, with a client order id the engine knows or not, and repeats them. *)
(***************************************************************************)
EXTENDS Cache, FiniteSets, Functions

CONSTANTS
    OmsType,            \* "Netting" or "Hedging"
    allow_overfills,    \* ExecutionEngineConfig::allow_overfills
    Unknown,            \* a client order id that no order has
    VenueOrderOwner,    \* the order each venue order id is assigned to
    EventTypes,         \* types of events the venue sends, other than fills
    TradeIds, FillQtys, Prices, Commissions, Currencies,   \* of the fills it sends
    Quantities,         \* new quantities of an update
    VenuePositionIds,   \* position ids it assigns
    SubmitPositionIds,  \* position ids given with a submit command
    MaxCount,           \* bound on the generated position ids
    Bounds              \* what of all that happens in a behaviour, see `bounds`

VARIABLES
    bounds,    \* the orders submitted, the event types and prices of the venue, how many leg
               \* fills are booked, and whether what is closed is purged at intervals
    cache,
    count,     \* PositionIdGenerator::counts of the strategy
    account,   \* whether the account is registered
    history    \* what was traded, and what was left out of the positions

vars == <<bounds, cache, count, account, history>>

\* Position ids: of the NETTING position, generated by the engine, assigned by the venue.
NetId == <<"N", 0>>
Generated(n) == <<"P", n>>
is_virtual(position_id) == position_id[1] = "P"

ASSUME ExecEngineAssumption ==
    /\ OmsType \in {"Netting", "Hedging"}
    /\ allow_overfills \in BOOLEAN
    /\ Unknown \notin OrderIds
    /\ VenueOrderOwner \in [VenueOrderIds -> ClientOrderIds]
    /\ EventTypes \subseteq OrderEventType \ {"Filled"}
    /\ FillQtys \subseteq Nat \ {0}
    /\ Prices \subseteq Int
    /\ Commissions \subseteq Nat
    /\ Currencies \subseteq {"Base", "Settlement"}
    /\ MaxCount \in Nat
    /\ Bounds \subseteq [orders : SUBSET ClientOrderIds, types : SUBSET EventTypes,
                          prices : SUBSET Prices, legs : Nat, purges : BOOLEAN]
    /\ PositionIds = {NetId} \cup VenuePositionIds \cup {Generated(n) : n \in 1 .. MaxCount}
    /\ SubmitPositionIds \subseteq PositionIds
    /\ \A p \in VenuePositionIds : ~is_virtual(p)
    /\ IsFiniteSet(VenuePositionIds)

-----------------------------------------------------------------------------
\* Mutant: the other orders of the execution spawn are not looked at.
determine_fresh_position_id(c, n, fill) ==
    IF fill.position_id # None THEN {<<fill.position_id, n>>}
    ELSE {<<Generated(n + 1), n + 1>>}

\* The sets of <<position id, count>> a new HEDGING fill can be given: one of the
\* venue's, that of an order of the same execution spawn (in the order of a hash set),
\* or a new one.
determine_hedging_position_id(c, n, fill) ==
    LET spawn    == OrderInit[fill.client_order_id].exec_spawn_id
        siblings == IF spawn = None THEN {}
                    ELSE {c.orders[s].position_id : s \in c.exec_spawn_orders[spawn]} \ {None}
    IN IF fill.position_id # None THEN {<<fill.position_id, n>>}
       ELSE IF siblings # {} THEN siblings \X {n}
       ELSE {<<Generated(n + 1), n + 1>>}

\* The first fill of a spawned order gives its position id to the primary order.
Propagated(c, position_id, id) ==
    LET spawn == OrderInit[id].exec_spawn_id
    IN IF /\ spawn # None
          /\ order_exists(c, spawn)
          /\ c.orders[spawn].position_id = None
          /\ c.order_position[spawn] = None
       THEN add_position_id([c EXCEPT !.orders[spawn].position_id = position_id],
                            position_id, spawn)
       ELSE c

\* An order keeps the position it is indexed with, whatever the venue says.
determine_position_id(c, n, fill) ==
    LET id       == fill.client_order_id
        assigned == IF OmsType = "Hedging" THEN determine_hedging_position_id(c, n, fill)
                    ELSE {<<NetId, n>>}
    IN IF c.order_position[id] # None
       THEN {[position_id |-> c.order_position[id], count |-> n, cache |-> c]}
       ELSE {[position_id |-> a[1], count |-> a[2], cache |-> Propagated(c, a[1], id)] :
                a \in assigned}

determine_leg_fill_position_id(c, n, fill) ==
    IF c.order_position[fill.client_order_id] # None
    THEN <<c.order_position[fill.client_order_id], n>>
    ELSE IF OmsType = "Netting" THEN <<NetId, n>>
    ELSE IF fill.position_id # None THEN <<fill.position_id, n>>
    ELSE <<Generated(n + 1), n + 1>>

\* Mutant: the trades of the position are not looked at.
validate_order_only(c, fill) ==
    LET o == c.orders[fill.client_order_id]
    IN /\ [trade_id |-> fill.trade_id, last_qty |-> fill.last_qty] \notin o.fills
       /\ calculate_overfill(o, fill.last_qty) > 0 => allow_overfills

\* Not an exact repetition, not a trade of the position, not too much.
validate_fill_for_order(c, fill) ==
    LET o == c.orders[fill.client_order_id]
    IN /\ [trade_id |-> fill.trade_id, last_qty |-> fill.last_qty] \notin o.fills
       /\ ~position_contains_trade_id(c, fill.position_id, fill.trade_id)
       /\ calculate_overfill(o, fill.last_qty) > 0 => allow_overfills

-----------------------------------------------------------------------------
\* Decimal division rounded half to even (Money::from_decimal).
bankers_round(n, d) ==
    LET q == n \div d
    IN IF 2 * (n % d) > d \/ (2 * (n % d) = d /\ q % 2 # 0) THEN q + 1 ELSE q

\* Results of the handlers below: the cache and count afterwards, and whether the fill
\* reached a position.
Booked(c, n)   == [cache |-> c, count |-> n, booked |-> TRUE]
Unbooked(c, n) == [cache |-> c, count |-> n, booked |-> FALSE]

\* A reduce-only fill never opens a NETTING position.
reject_reduce_only_netting_position_open(c, fill) ==
    /\ OmsType = "Netting"
    /\ order_exists(c, fill.client_order_id)
    /\ OrderInit[fill.client_order_id].reduce_only

is_duplicate_closed_fill(p, fill) ==
    \E i \in DOMAIN p.events :
        /\ p.events[i].trade_id = fill.trade_id
        /\ p.events[i].order_side = fill.order_side
        /\ p.events[i].last_px = fill.last_px
        /\ p.events[i].last_qty = fill.last_qty

\* Mutant: a closed position is overwritten without a snapshot.
reopen_without_snapshot(c, position_id, p) == c

reopen_position(c, position_id, p) ==
    IF OmsType = "Netting" THEN snapshot_position(c, position_id, p) ELSE c

open_position(c, n, fill) == Booked(add_position(c, fill.position_id, NewPosition(fill)), n)

\* open_position, given the closed position that has the id.
open_position_again(c, n, p, fill) ==
    IF is_duplicate_closed_fill(p, fill) THEN Unbooked(c, n)
    ELSE open_position(reopen_position(c, fill.position_id, p), n, fill)

will_flip_position(p, fill) ==
    is_opposite_side(p, fill.order_side) /\ fill.last_qty > p.quantity

\* Mutant: the second part is the whole fill.
whole_difference(p, fill) == fill.last_qty

difference(p, fill) == fill.last_qty - p.quantity

\* The fill is split: the first part closes the position, the second opens one on the
\* other side, under a new id if the id was generated here.
flip_position(c, n, p, fill) ==
    LET commission1 == bankers_round(fill.commission * p.quantity, fill.last_qty)
        split1  == [fill EXCEPT !.last_qty = p.quantity, !.commission = commission1]
        closing == ApplyFill(p, split1)
        updated_cache == update_position(c, fill.position_id, closing)
        kept == IF OmsType = "Netting"
                THEN snapshot_position(updated_cache, fill.position_id, closing)
                ELSE updated_cache
        renew  == OmsType = "Hedging" /\ is_virtual(fill.position_id)
        split2 == [fill EXCEPT !.last_qty = difference(p, fill),
                               !.commission = @ - commission1,
                               !.position_id = IF renew THEN Generated(n + 1) ELSE @]
    IN open_position(kept, IF renew THEN n + 1 ELSE n, split2)

handle_position_update(c, n, fill) ==
    LET p      == c.positions[fill.position_id]
        closed_or_none == has_position(c, fill.position_id) => PositionClosed(p)
    IN IF closed_or_none /\ reject_reduce_only_netting_position_open(c, fill) THEN Unbooked(c, n)
       ELSE IF ~has_position(c, fill.position_id) THEN open_position(c, n, fill)
       ELSE IF PositionClosed(p) THEN open_position_again(c, n, p, fill)
       ELSE IF will_flip_position(p, fill) THEN flip_position(c, n, p, fill)
       ELSE Booked(update_position(c, fill.position_id, ApplyFill(p, fill)), n)

\* The children of an OTO order get the position it opened.
LinkContingent(c, fill) ==
    LET position_id == fill.position_id
        children == {id \in OrderInit[fill.client_order_id].linked_order_ids :
                        order_exists(c, id) /\ c.orders[id].position_id = None}
    IN IF ~(has_position(c, position_id) /\ PositionOpen(c.positions[position_id])) THEN c
       ELSE [c EXCEPT
               !.orders = [id \in DOMAIN @ |->
                             IF id \in children THEN [@[id] EXCEPT !.position_id = position_id]
                             ELSE @[id]],
               !.order_position = [id \in OrderIds |->
                                     IF id \in children THEN position_id ELSE @[id]],
               !.position_orders[position_id] = @ \cup children]

\* Without the account the order has its fill and the position has not.
handle_order_fill(c, n, fill) ==
    IF ~account THEN Unbooked(c, n)
    ELSE LET r == handle_position_update(c, n, fill)
         IN [r EXCEPT !.cache = LinkContingent(@, fill)]

-----------------------------------------------------------------------------
\* The order an event is for: by its client order id, else by its venue order id.
Resolved(event) ==
    IF order_exists(cache, event.client_order_id) THEN event.client_order_id
    ELSE IF /\ event.venue_order_id # None
            /\ cache.venue_order_ids[event.venue_order_id] # None
            /\ order_exists(cache, cache.venue_order_ids[event.venue_order_id])
         THEN cache.venue_order_ids[event.venue_order_id]
    ELSE None

\* Position::apply panics on a trade the position holds.
Panics(fill) ==
    /\ position_contains_trade_id(cache, fill.position_id, fill.trade_id)
    /\ PositionOpen(cache.positions[fill.position_id])

\* A trade that only the status of its order keeps from being applied is lost.
Refused(c, fill) ==
    LET o == c.orders[fill.client_order_id]
    IN history' = [history EXCEPT
                     !.lost = IF o.status = "Filled" /\ validate_fill_for_order(c, fill)
                              THEN @ \cup {fill.trade_id} ELSE @]

\* What the handling of a fill adds to the history.  An order that is indexed with another
\* position after its fill flipped one, and the other has a new id.
Traded(fill, booked) ==
    history' = [history EXCEPT
                  !.net = @ + Signed(fill) - BaseCommission(fill),
                  !.unbooked = IF booked THEN @
                               ELSE @ + Signed(fill) - BaseCommission(fill),
                  !.cash = IF booked
                           THEN @ - Signed(fill) * fill.last_px - SettlementCommission(fill)
                           ELSE @,
                  !.panicked = IF booked /\ Panics(fill) THEN TRUE ELSE @,
                  !.renewed = @ \cup ({cache'.order_position[fill.client_order_id]}
                                      \ {None, fill.position_id}),
                  !.legs = IF fill.client_order_id \in LegOrderIds
                           THEN Append(@, fill) ELSE @]

Init ==
    /\ bounds \in Bounds
    /\ cache = EmptyCache
    /\ count = 0
    /\ account = FALSE
    /\ history = [net |-> 0, unbooked |-> 0, cash |-> 0, panicked |-> FALSE,
                  renewed |-> {}, legs |-> << >>, lost |-> {}, submitted |-> {}]

\* Portfolio registers the account when its first state arrives.
RegisterAccount ==
    /\ ~account
    /\ account' = TRUE
    /\ UNCHANGED <<cache, count, history>>

\* handle_submit_order, for an order that was not submitted before.  An order that has a
\* position id which is not the NETTING one is denied, as is one the client fails to send.
SubmitOrder(id, position_id, sent) ==
    LET order  == NewOrder(OrderInit[id].order_type, OrderInit[id].quantity, FALSE)
        added  == add_order(cache, id, order, position_id)
        denied == OmsType = "Netting" /\ position_id \notin {None, NetId}
    IN /\ id \notin history.submitted
       /\ cache' = IF denied \/ ~sent
                   THEN update_order(added, id, [type |-> "Denied", venue_order_id |-> None])
                   ELSE added
       /\ history' = [history EXCEPT !.submitted = @ \cup {id}]
       /\ UNCHANGED <<count, account>>

\* handle_event, for events other than fills.
HandleEvent(event) ==
    /\ Resolved(event) # None
    /\ cache' = update_order(cache, Resolved(event), event)
    /\ UNCHANGED <<count, account, history>>

\* handle_event, for fills: a position id is determined before the fill is checked.
HandleFill(event) ==
    LET id     == Resolved(event)
        routed == [event EXCEPT !.client_order_id = id]
    IN /\ id # None
       /\ OmsType = "Hedging" => count + 2 <= MaxCount
       /\ \E d \in determine_position_id(cache, count, routed) :
             LET fill == [routed EXCEPT !.position_id = d.position_id]
                 r == handle_order_fill(update_order(d.cache, id, fill), d.count, fill)
             IN IF validate_fill_for_order(d.cache, fill) /\ Accepts(d.cache, id, fill)
                THEN cache' = r.cache /\ count' = r.count /\ Traded(fill, r.booked)
                ELSE cache' = d.cache /\ count' = d.count /\ Refused(d.cache, fill)
       /\ UNCHANGED account

\* handle_leg_fill_without_order: only the position can tell a repetition.
HandleLegFill(event) ==
    LET d    == determine_leg_fill_position_id(cache, count, event)
        fill == [event EXCEPT !.position_id = d[1]]
        r    == handle_position_update(cache, d[2], fill)
    IN /\ Resolved(event) = None
       /\ account
       /\ OmsType = "Hedging" => count + 2 <= MaxCount
       /\ Len(history.legs) < bounds.legs
       /\ IF position_contains_trade_id(cache, d[1], fill.trade_id)
          THEN count' = d[2] /\ UNCHANGED <<cache, history>>
          ELSE cache' = r.cache /\ count' = r.count /\ Traded(fill, r.booked)
       /\ UNCHANGED account

\* purge_closed_orders and purge_closed_positions, for one that closed long enough ago.
PurgeClosedOrder(id) ==
    /\ bounds.purges
    /\ id \in cache.orders_closed
    /\ order_exists(cache, id)
    /\ is_closed(cache.orders[id]) /\ cache.orders[id].ts_closed
    /\ \A linked \in OrderInit[id].linked_order_ids :
          order_exists(cache, linked) => ~is_open(cache.orders[linked])
    /\ cache' = purge_order(cache, id)
    /\ UNCHANGED <<count, account, history>>

PurgeClosedPosition(position_id) ==
    /\ bounds.purges
    /\ position_id \in cache.positions_closed
    /\ has_position(cache, position_id)
    /\ PositionClosed(cache.positions[position_id])
    /\ cache' = purge_position(cache, position_id)
    /\ UNCHANGED <<count, account, history>>

-----------------------------------------------------------------------------
\* The events of an order carry its client order id, or one the engine does not know
\* and the venue's id.
Events ==
    [type : EventTypes \ {"Accepted"}, client_order_id : ClientOrderIds,
     venue_order_id : {None}, quantity : Quantities]
    \cup
    {e \in [type : EventTypes, client_order_id : ClientOrderIds \cup {Unknown},
            venue_order_id : VenueOrderIds, quantity : Quantities] :
        e.client_order_id \in {Unknown, VenueOrderOwner[e.venue_order_id]}}

\* A fill of an order has its side.
Fills ==
    {e \in [type : {"Filled"}, client_order_id : ClientOrderIds \cup {Unknown},
            venue_order_id : VenueOrderIds, trade_id : TradeIds, order_side : OrderSide,
            last_qty : FillQtys, last_px : Prices, commission : Commissions,
            currency : Currencies, position_id : VenuePositionIds \cup {None}] :
        /\ e.client_order_id \in {Unknown, VenueOrderOwner[e.venue_order_id]}
        /\ e.order_side = OrderInit[VenueOrderOwner[e.venue_order_id]].order_side}

\* A leg fill has a venue order id that no order has, here None.
LegFills ==
    [type : {"Filled"}, client_order_id : LegOrderIds, venue_order_id : {None},
     trade_id : TradeIds, order_side : OrderSide, last_qty : FillQtys, last_px : Prices,
     commission : Commissions, currency : Currencies,
     position_id : VenuePositionIds \cup {None}]

Next ==
    /\ \/ RegisterAccount
       \/ \E id \in ClientOrderIds, position_id \in SubmitPositionIds \cup {None}, sent \in BOOLEAN :
             id \in bounds.orders /\ SubmitOrder(id, position_id, sent)
       \/ \E event \in Events : event.type \in bounds.types /\ HandleEvent(event)
       \/ \E event \in Fills : event.last_px \in bounds.prices /\ HandleFill(event)
       \/ \E event \in LegFills : event.last_px \in bounds.prices /\ HandleLegFill(event)
       \/ \E id \in ClientOrderIds : PurgeClosedOrder(id)
       \/ \E position_id \in PositionIds : PurgeClosedPosition(position_id)
    /\ UNCHANGED bounds

Spec == Init /\ [][Next]_vars

-----------------------------------------------------------------------------
\* The signed quantity of a position, if there is one.
Held(c, position_id) == IF has_position(c, position_id) THEN c.positions[position_id].signed_qty ELSE 0

\* Every fill an order accepts, and every leg fill, is in the positions exactly once:
\* through openings, closings, flips split over two positions and reopenings, and
\* whatever is repeated, the positions hold together what was traded, except for the
\* fills the engine logs as not applied to any position.
BooksMatchFills ==
    SumFunction([id \in PositionIds |-> Held(cache, id)]) + history.unbooked = history.net

\* With NETTING all of it is in the one position, also when an order was submitted with
\* another position id, which handle_submit_order denies only after indexing the order.
NettingBooksMatch ==
    OmsType = "Netting" => Held(cache, NetId) + history.unbooked = history.net

\* The realized profit of a NETTING position and of the snapshots of its earlier cycles
\* is together what the cash flows of all its fills say: reopening and flipping loses
\* no profit and no commission.  A purge of the position does, and its snapshots with it.
RealizedIsCash ==
    LET p         == cache.positions[NetId]
        snapshots == cache.position_snapshots[NetId]
        total[n \in 0 .. Len(snapshots)] ==
            IF n = 0 THEN p.realized_pnl ELSE Plus(total[n - 1], snapshots[n].realized_pnl)
    IN OmsType = "Netting" /\ has_position(cache, NetId) /\ ~bounds.purges =>
          total[Len(snapshots)] = Plus(Times(p.signed_qty, p.avg_px_open), <<history.cash, 1>>)

\* A fill whose trade the open position already holds would panic in Position::apply;
\* the engine never lets one through.
NeverPanics == ~history.panicked

\* The queries for open and closed positions, which read the indexes, agree with the
\* positions: Cache::add_position, update_position and purge_position maintain the two
\* sets incrementally, and add_position takes the new position to be open.
PositionIndexesExact ==
    /\ cache.positions_open =
          {id \in DOMAIN cache.positions : PositionOpen(cache.positions[id])}
    /\ cache.positions_closed =
          {id \in DOMAIN cache.positions : PositionClosed(cache.positions[id])}

\* The order indexes, which Cache::refresh_order updates one insertion or removal at a
\* time, agree with the orders through late fills that reopen a closed order, rejected
\* requests and purges.  Only an order whose status went back to Submitted when a request
\* was rejected may be left among the open ones.
OrderIndexesFollow ==
    LET Indexed(f(_)) == {id \in DOMAIN cache.orders : f(cache.orders[id])}
    IN /\ cache.orders_active_local = Indexed(is_active_local)
       /\ cache.orders_inflight = Indexed(is_inflight)
       /\ cache.orders_closed = Indexed(is_closed)
       /\ Indexed(is_open) \subseteq cache.orders_open
       /\ cache.orders_open \ Indexed(is_open) \subseteq
             Indexed(LAMBDA o : o.status = "Submitted")

\* HEDGING fills of the orders an execution algorithm spawned all go to one position,
\* whichever of them fills first, save where the venue or a submission assigns another or
\* a flip renews it: each finds the position through the others or has it from the primary
\* order, so determine_hedging_position_id never generates a second id for them.
SpawnSharesPosition ==
    LET Assigned == VenuePositionIds \cup SubmitPositionIds \cup history.renewed \cup {None}
        Shared(spawn) ==
            {cache.orders[id].position_id : id \in cache.exec_spawn_orders[spawn]} \ Assigned
    IN OmsType = "Hedging" =>
          \A spawn \in ClientOrderIds : \A x, y \in Shared(spawn) : x = y

-----------------------------------------------------------------------------
(***************************************************************************)
(* What a test says and the code does not do.                              *)
(***************************************************************************)
\* A leg fill that is sent again is not applied to the position again.
LegFillAppliedOnce ==
    \A i, j \in DOMAIN history.legs : history.legs[i] = history.legs[j] => i = j
=============================================================================
