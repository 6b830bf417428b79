-------------------------------- MODULE Order --------------------------------
(***************************************************************************)
(* One order that receives an arbitrary stream of order events, as an      *)
(* order in the cache does: venue adapters, the reconciliation and the     *)
(* local components all produce events for it, concurrently, so any event  *)
(* may arrive in any status, late, twice or out of order.                  *)
(***************************************************************************)
EXTENDS OrderCore, FiniteSets, FiniteSetsExt, Functions

CONSTANTS
    OrderTypes,      \* the order types considered
    Quantities,      \* order and fill quantities, in raw units
    TradeIds,        \* trade ids the venue assigns
    VenueOrderIds,   \* order ids the venue assigns
    PositionIds      \* position ids a fill can carry

ASSUME OrderAssumption ==
    /\ OrderTypes \subseteq OrderType
    /\ Quantities \subseteq 1 .. RawMax
    /\ None \notin OrderStatus \cup VenueOrderIds \cup PositionIds

VARIABLES
    order,   \* the order
    firm     \* history: the latest status of the order that was not a Pending one

vars == <<order, firm>>

Fills == [trade_id : TradeIds, last_qty : Quantities]

Orders ==
    [status            : OrderStatus,
     previous_status   : OrderStatus \cup {None},
     order_type        : OrderTypes,
     quantity          : Quantities,
     filled_qty        : 0 .. RawMax,
     leaves_qty        : 0 .. RawMax,
     overfill_qty      : 0 .. RawMax,
     fills             : SUBSET Fills,
     venue_order_id    : VenueOrderIds \cup {None},
     venue_order_ids   : SUBSET VenueOrderIds,
     position_id       : PositionIds \cup {None},
     emulation_trigger : BOOLEAN,
     ts_accepted       : BOOLEAN,
     ts_closed         : BOOLEAN,
     last_event        : OrderEventType]

\* Every field has its type; the quantities stay within the raw range.
TypeOK == order \in Orders /\ firm \in OrderStatus

Init ==
    /\ \E t \in OrderTypes, q \in Quantities, emulated \in BOOLEAN :
          order = NewOrder(t, q, emulated)
    /\ firm = "Initialized"

\* Quantity::from_raw panics on a filled quantity above the raw maximum.
Panics(o, e) ==
    /\ e.type = "Filled"
    /\ Applies(SavePrevious(o, e), e)
    /\ o.filled_qty + e.last_qty > RawMax

\* OrderAny::apply.  A panic ends the process, so no step models it.
Deliver(e) ==
    /\ ~Panics(order, e)
    /\ order' = apply(order, e)
    /\ firm' = IF order'.status \in Pending THEN firm ELSE order'.status

Plain(t) == Deliver([type |-> t])

Accept(v) == Deliver([type |-> "Accepted", venue_order_id |-> v])

Update(q, v) == Deliver([type |-> "Updated", quantity |-> q, venue_order_id |-> v])

Fill(t, q, v, p) ==
    Deliver([type |-> "Filled", trade_id |-> t, last_qty |-> q,
             venue_order_id |-> v, position_id |-> p])

Next ==
    \/ \E t \in PlainEventType : Plain(t)
    \/ \E v \in VenueOrderIds : Accept(v)
    \/ \E q \in Quantities, v \in VenueOrderIds \cup {None} : Update(q, v)
    \/ \E t \in TradeIds, q \in Quantities, v \in VenueOrderIds, p \in PositionIds :
          Fill(t, q, v, p)

Spec == Init /\ [][Next]_vars

-----------------------------------------------------------------------------
\* While a modify or a cancel request is outstanding, `previous_status` is the status
\* the order had when the first of the outstanding requests was made, a working one.
\* So OrderCore::modify_rejected and cancel_rejected never fail with NoPreviousState
\* and always return the order to the status it really has at the venue, however many
\* requests, rejected events and duplicates came in between.
PendingRemembersFirm ==
    order.status \in Pending =>
        /\ order.previous_status = firm
        /\ firm \in {"Submitted", "Accepted", "Triggered", "PartiallyFilled"}

\* OrderCore::filled decrements the leaves while `update` recomputes them from the
\* quantity: the two never drift apart, whatever the order of fills and updates.
LeavesAreTheRest == order.leaves_qty = saturating_sub(order.quantity, order.filled_qty)

\* Every trade is counted once: the filled quantity is the sum over the trades applied,
\* however often and with whatever quantity each of them is redelivered.
EachTradeCountedOnce ==
    /\ \A f, g \in order.fills : f.trade_id = g.trade_id => f = g
    /\ order.filled_qty = SumFunctionOnSet([f \in order.fills |-> f.last_qty], order.fills)

\* `overfill_qty`, accumulated fill by fill, is exactly what the order holds beyond its
\* quantity once it is Filled, and nothing before that: an overfill can only be the last
\* thing that happens to an order.
OverfillIsTheExcess ==
    order.overfill_qty = IF order.status = "Filled"
                         THEN order.filled_qty - order.quantity ELSE 0

\* The derived quantities of an order, the leaves and the overfill, are what its quantity
\* and its fills say, though OrderCore::filled and `update` maintain each by itself.
QuantitiesAgree == LeavesAreTheRest /\ OverfillIsTheExcess

\* A closed order changes in one way only: a trade not seen before on a canceled order.
\* Every other late event leaves all but its saved previous status as it was, and the
\* timestamp that purge_closed_orders relies on is always present.
ClosedStaysUnlessFilled ==
    [][is_closed(order) =>
         /\ order.ts_closed
         /\ \/ [order' EXCEPT !.previous_status = order.previous_status] = order
            \/ order.status = "Canceled" /\ trade_ids(order) # trade_ids(order')]_vars
=============================================================================
