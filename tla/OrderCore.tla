------------------------------ MODULE OrderCore ------------------------------
(***************************************************************************)
(* The order state machine of crates/model/src/orders: the status table    *)
(* OrderStatus::transition, OrderCore::new, OrderCore::apply with the      *)
(* handler of every event, and the `update` the order types run after it.  *)
(* An order is a record and an event is a record; the operators of this    *)
(* module are functions of both and hold no state of their own.            *)
(*                                                                         *)
(* Prices, tags, commissions and timestamps are left out, except that      *)
(* `ts_accepted` and `ts_closed` record whether the field holds a value.   *)
(* The order's event log is kept as far as it is ever read back: `fills`,  *)
(* the trade id and quantity of each OrderFilled it holds, and             *)
(* `last_event`, the kind of the latest event.                             *)
(***************************************************************************)
EXTENDS Quantity, FiniteSets

Pending == {"PendingUpdate", "PendingCancel"}

OrderStatus ==
    {"Initialized", "Denied", "Emulated", "Released", "Submitted", "Accepted",
     "Rejected", "Canceled", "Expired", "Triggered", "PartiallyFilled", "Filled"}
    \cup Pending

OrderType == {"Market", "Limit", "StopMarket", "StopLimit", "MarketToLimit",
              "MarketIfTouched", "LimitIfTouched", "TrailingStopMarket",
              "TrailingStopLimit"}

TRIGGERABLE_ORDER_TYPES == {"StopLimit", "TrailingStopLimit", "LimitIfTouched"}

\* The events whose only content, for this module, is their kind.
PlainEventType ==
    {"Initialized", "Denied", "Emulated", "Released", "Submitted", "Rejected",
     "PendingUpdate", "PendingCancel", "ModifyRejected", "CancelRejected",
     "Triggered", "Canceled", "Expired"}

OrderEventType == PlainEventType \cup {"Accepted", "Updated", "Filled"}

\* transition[s][e] is the status that event e moves an order in status s to.  A
\* status outside its domain, or an event outside the domain of its row, is an
\* InvalidStateTransition.
transition ==
    [Initialized     |-> [Denied |-> "Denied", Emulated |-> "Emulated",
                          Released |-> "Released", Submitted |-> "Submitted",
                          Rejected |-> "Rejected", Accepted |-> "Accepted",
                          Canceled |-> "Canceled", Expired |-> "Expired",
                          Triggered |-> "Triggered", Updated |-> "Initialized"],
     Emulated        |-> [Canceled |-> "Canceled", Expired |-> "Expired",
                          Updated |-> "Emulated", Released |-> "Released"],
     Released        |-> [Submitted |-> "Submitted", Denied |-> "Denied",
                          Canceled |-> "Canceled", Updated |-> "Released"],
     Submitted       |-> [PendingUpdate |-> "PendingUpdate",
                          PendingCancel |-> "PendingCancel",
                          Rejected |-> "Rejected", Canceled |-> "Canceled",
                          Accepted |-> "Accepted", Updated |-> "Submitted",
                          Filled |-> "Filled"],
     Accepted        |-> [Rejected |-> "Rejected",
                          PendingUpdate |-> "PendingUpdate",
                          PendingCancel |-> "PendingCancel",
                          Canceled |-> "Canceled", Triggered |-> "Triggered",
                          Updated |-> "Accepted", Expired |-> "Expired",
                          Filled |-> "Filled"],
     Canceled        |-> [Filled |-> "Filled"],
     PendingUpdate   |-> [Rejected |-> "Rejected", Accepted |-> "Accepted",
                          Canceled |-> "Canceled", Expired |-> "Expired",
                          Triggered |-> "Triggered",
                          PendingUpdate |-> "PendingUpdate",
                          PendingCancel |-> "PendingCancel",
                          ModifyRejected |-> "PendingUpdate",
                          Updated |-> "PendingUpdate", Filled |-> "Filled"],
     PendingCancel   |-> [Rejected |-> "Rejected",
                          PendingCancel |-> "PendingCancel",
                          CancelRejected |-> "PendingCancel",
                          Canceled |-> "Canceled", Expired |-> "Expired",
                          Accepted |-> "Accepted", Filled |-> "Filled"],
     Triggered       |-> [Rejected |-> "Rejected",
                          PendingUpdate |-> "PendingUpdate",
                          PendingCancel |-> "PendingCancel",
                          Canceled |-> "Canceled", Expired |-> "Expired",
                          Filled |-> "Filled", Updated |-> "Triggered"],
     PartiallyFilled |-> [PendingUpdate |-> "PendingUpdate",
                          PendingCancel |-> "PendingCancel",
                          Canceled |-> "Canceled", Expired |-> "Expired",
                          Filled |-> "Filled", Accepted |-> "Accepted",
                          Updated |-> "PartiallyFilled"]]

-----------------------------------------------------------------------------
\* OrderCore::new: the order an OrderInitialized event creates.
NewOrder(order_type, quantity, emulated) ==
    [status            |-> "Initialized",
     previous_status   |-> None,
     order_type        |-> order_type,
     quantity          |-> quantity,
     filled_qty        |-> 0,
     leaves_qty        |-> quantity,
     overfill_qty      |-> 0,
     fills             |-> {},
     venue_order_id    |-> None,
     venue_order_ids   |-> {},
     position_id       |-> None,
     emulation_trigger |-> emulated,
     ts_accepted       |-> FALSE,
     ts_closed         |-> FALSE,
     last_event        |-> "Initialized"]

is_closed(o) == o.status \in {"Denied", "Rejected", "Canceled", "Expired", "Filled"}

is_open(o) ==
    /\ ~o.emulation_trigger
    /\ o.status \in {"Accepted", "Triggered", "PartiallyFilled"} \cup Pending

is_inflight(o) == ~o.emulation_trigger /\ o.status \in {"Submitted"} \cup Pending

is_active_local(o) == o.status \in {"Initialized", "Emulated", "Released"}

trade_ids(o) == {f.trade_id : f \in o.fills}

calculate_overfill(o, qty) == saturating_sub(o.filled_qty + qty, o.quantity)

-----------------------------------------------------------------------------
\* Mutant: a second request overwrites the status saved by the first.
SavePreviousAlways(o, e) ==
    IF e.type \in {"Initialized", "ModifyRejected", "CancelRejected"}
    THEN o
    ELSE [o EXCEPT !.previous_status = o.status]

\* The first assignment of OrderCore::apply, made whether or not the event is
\* applied in the end.
SavePrevious(o, e) ==
    IF e.type \in {"Initialized", "ModifyRejected", "CancelRejected"} \/ o.status \in Pending
    THEN o
    ELSE [o EXCEPT !.previous_status = o.status]

\* Mutant: the trade id of a fill is not looked up first.
AppliesTwice(o, e) ==
    /\ e.type = "Triggered" => o.order_type \in TRIGGERABLE_ORDER_TYPES
    /\ o.status \in DOMAIN transition
    /\ e.type \in DOMAIN transition[o.status]
    /\ e.type \in {"ModifyRejected", "CancelRejected"} => o.previous_status # None

\* The conditions under which OrderCore::apply returns Ok.
Applies(o, e) ==
    /\ e.type = "Filled" => e.trade_id \notin trade_ids(o)
    /\ e.type = "Triggered" => o.order_type \in TRIGGERABLE_ORDER_TYPES
    /\ o.status \in DOMAIN transition
    /\ e.type \in DOMAIN transition[o.status]
    /\ e.type \in {"ModifyRejected", "CancelRejected"} => o.previous_status # None

closed(o) == [o EXCEPT !.ts_closed = TRUE]

accepted(o, e) ==
    [o EXCEPT !.venue_order_id = e.venue_order_id,
              !.venue_order_ids = @ \cup {e.venue_order_id},
              !.ts_accepted = TRUE]

\* modify_rejected and cancel_rejected.
rejected_request(o) == [o EXCEPT !.status = o.previous_status]

\* Mutant: the leaves keep the value they had for the old quantity.
updated_stale_leaves(o, e) ==
    [o EXCEPT !.status = IF @ = "PendingUpdate" THEN o.previous_status ELSE @,
              !.quantity = e.quantity]

\* OrderCore::updated, then the order type's `update`, which takes the new quantity
\* and derives the leaves from it.
updated(o, e) ==
    LET renamed == e.venue_order_id \notin {None, o.venue_order_id}
    IN [o EXCEPT
          !.status = IF @ = "PendingUpdate" /\ o.previous_status # None
                     THEN o.previous_status ELSE @,
          !.venue_order_id = IF renamed THEN e.venue_order_id ELSE @,
          !.venue_order_ids = IF renamed THEN @ \cup {e.venue_order_id} ELSE @,
          !.quantity = e.quantity,
          !.leaves_qty = saturating_sub(e.quantity, o.filled_qty)]

filled(o, e) ==
    LET new_filled_qty == saturating_add(o.filled_qty, e.last_qty)
        complete == new_filled_qty >= o.quantity
    IN [o EXCEPT
          !.overfill_qty = IF new_filled_qty > o.quantity
                           THEN saturating_add(@, new_filled_qty - o.quantity) ELSE @,
          !.status = IF complete THEN "Filled" ELSE "PartiallyFilled",
          !.ts_closed = IF complete THEN TRUE ELSE @,
          !.venue_order_id = e.venue_order_id,
          !.position_id = e.position_id,
          !.fills = @ \cup {[trade_id |-> e.trade_id, last_qty |-> e.last_qty]},
          !.filled_qty = new_filled_qty,
          !.leaves_qty = saturating_sub(@, e.last_qty),
          !.ts_accepted = TRUE]

\* The handler that OrderCore::apply dispatches the event to, on the order whose
\* status has already been moved by the table.
Handled(o, e) ==
    CASE e.type \in {"Denied", "Rejected", "Canceled", "Expired"} -> closed(o)
      [] e.type = "Released" -> [o EXCEPT !.emulation_trigger = FALSE]
      [] e.type = "Accepted" -> accepted(o, e)
      [] e.type \in {"ModifyRejected", "CancelRejected"} -> rejected_request(o)
      [] e.type = "Updated" -> updated(o, e)
      [] e.type = "Filled" -> filled(o, e)
      [] OTHER -> o

\* OrderCore::apply: the order afterwards.  An event that is not applied still
\* leaves the saved previous status behind.
apply(o, e) ==
    LET saved == SavePrevious(o, e)
        moved == [saved EXCEPT !.status = transition[o.status][e.type]]
    IN IF Applies(saved, e)
       THEN [Handled(moved, e) EXCEPT !.last_event = e.type]
       ELSE saved
=============================================================================
