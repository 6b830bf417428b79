--------------------------- MODULE Reconciliation ---------------------------
(***************************************************************************)
(* What the engine makes of the reports a venue sends about an order:      *)
(* crates/execution/src/reconciliation/orders.rs, and the handlers of the  *)
(* execution engine that apply the events it produces to the order.        *)
(*                                                                         *)
(* A status report holds the order's status, quantity, filled quantity and *)
(* venue order id as the venue had them; a fill report one trade.  Prices  *)
(* are left out, so of the amendments a report can show only a change of   *)
(* quantity is modelled.                                                   *)
(***************************************************************************)
EXTENDS OrderCore, Sequences

CONSTANT allow_overfills    \* ExecutionEngineConfig::allow_overfills

ASSUME OverfillsAssumption == allow_overfills \in BOOLEAN

\* Trade ids: the venue's own, and the hash that create_inferred_reconciliation_trade_id
\* makes of what a report said (its timestamp left out).
VenueTrade(n) == <<"T", n>>
InferredTrade(filled_qty, last_qty) == <<"I", filled_qty, last_qty>>
is_inferred(f) == f.trade_id[1] = "I"

\* OrderCore::account_id, which OrderSubmitted and OrderAccepted set.
has_account_id(o) == o.status # "Initialized"

-----------------------------------------------------------------------------
\* The events that reconciliation creates.
create_reconciliation_accepted(o, r) ==
    [type |-> "Accepted",
     venue_order_id |-> IF o.venue_order_id # None THEN o.venue_order_id
                        ELSE r.venue_order_id]

create_reconciliation_updated(o, r) ==
    [type |-> "Updated", quantity |-> r.quantity, venue_order_id |-> o.venue_order_id]

\* create_incremental_inferred_fill: the quantity the order lacks.
create_incremental_inferred_fill(o, r) ==
    LET last_qty == r.filled_qty - o.filled_qty
    IN [type |-> "Filled",
        trade_id |-> InferredTrade(r.filled_qty, last_qty),
        last_qty |-> last_qty,
        venue_order_id |-> create_reconciliation_accepted(o, r).venue_order_id,
        position_id |-> None]

should_reconciliation_update(o, r) == r.quantity # o.quantity /\ r.quantity >= o.filled_qty

\* Mutant: only an order without trades can have been amended.
report_is_working_state(r) == r.status \in {"Accepted", "Triggered"}

report_is_confirmed_state(r) == r.status \in {"Accepted", "Triggered", "PartiallyFilled", "Filled"}

local_accepts_amendment(o) == o.status \in {"Accepted", "Triggered", "PartiallyFilled"}

should_accept_before_reconciliation(o, r) == o.status = "Submitted" /\ r.status # "Rejected"

\* The event, if any, as a sequence of at most one.
reconcile_fill_quantity_mismatch(o, r) ==
    IF r.filled_qty > o.filled_qty
    THEN IF is_closed(o) \/ ~has_account_id(o) THEN << >>
         ELSE <<create_incremental_inferred_fill(o, r)>>
    ELSE IF /\ r.filled_qty = o.filled_qty
            /\ o.status # r.status
            /\ should_reconciliation_update(o, r)
    THEN <<create_reconciliation_updated(o, r)>>
    ELSE << >>

\* A Canceled report for a venue order id that the order has left behind is the cancel
\* half of a cancel-replace.
is_superseded(o, r) ==
    /\ o.venue_order_id \notin {None, r.venue_order_id}
    /\ r.venue_order_id \in o.venue_order_ids

reconcile_order_report(o, r) ==
    IF r.status \in Pending THEN << >>
    ELSE IF o.status = r.status /\ o.filled_qty = r.filled_qty
    THEN IF should_reconciliation_update(o, r)
         THEN <<create_reconciliation_updated(o, r)>> ELSE << >>
    ELSE
    CASE r.status = "Accepted" ->
             IF o.status = "Accepted" /\ should_reconciliation_update(o, r)
             THEN <<create_reconciliation_updated(o, r)>>
             ELSE IF has_account_id(o) THEN <<create_reconciliation_accepted(o, r)>>
             ELSE << >>
      [] r.status = "Rejected" -> IF has_account_id(o) THEN <<[type |-> "Rejected"]>> ELSE << >>
      [] r.status = "Triggered" ->
             IF o.order_type \in TRIGGERABLE_ORDER_TYPES THEN <<[type |-> "Triggered"]>>
             ELSE << >>
      [] r.status = "Canceled" -> IF is_superseded(o, r) THEN << >> ELSE <<[type |-> "Canceled"]>>
      [] r.status = "Expired" -> <<[type |-> "Expired"]>>
      [] r.status \in {"PartiallyFilled", "Filled"} -> reconcile_fill_quantity_mismatch(o, r)
      [] OTHER -> << >>

\* The events of a live status report in the order they happened at the venue: a missed
\* acceptance, an amendment, then the status or the fill.
generate_reconciliation_order_events(o, r) ==
    LET accept   == IF should_accept_before_reconciliation(o, r)
                    THEN <<create_reconciliation_accepted(o, r)>> ELSE << >>
        accepted_order == IF accept = << >> THEN o ELSE apply(o, accept[1])
        update   == IF /\ report_is_confirmed_state(r)
                       /\ local_accepts_amendment(accepted_order)
                       /\ should_reconciliation_update(accepted_order, r)
                    THEN <<create_reconciliation_updated(accepted_order, r)>> ELSE << >>
        working  == IF update = << >> THEN accepted_order ELSE apply(accepted_order, update[1])
    IN accept \o update \o reconcile_order_report(working, r)

\* Mutant: the event does not keep the trade's id.
reconcile_fill_report_renamed(o, f) ==
    IF f.trade_id \in trade_ids(o) \/ calculate_overfill(o, f.last_qty) > 0
    THEN << >>
    ELSE <<[type |-> "Filled", trade_id |-> <<"R", f.trade_id[2]>>, last_qty |-> f.last_qty,
            venue_order_id |-> f.venue_order_id, position_id |-> None]>>

\* reconcile_fill_report: not a trade the order has, not too much.
reconcile_fill_report(o, f) ==
    IF \/ f.trade_id \in trade_ids(o)
       \/ calculate_overfill(o, f.last_qty) > 0 /\ ~allow_overfills
    THEN << >>
    ELSE <<[type |-> "Filled", trade_id |-> f.trade_id, last_qty |-> f.last_qty,
            venue_order_id |-> IF o.venue_order_id # None THEN o.venue_order_id
                               ELSE f.venue_order_id,
            position_id |-> None]>>

-----------------------------------------------------------------------------
\* What ExecutionEngine::handle_event does to the order: a fill is validated before it
\* is applied.
handle_event(o, e) ==
    IF /\ e.type = "Filled"
       /\ \/ [trade_id |-> e.trade_id, last_qty |-> e.last_qty] \in o.fills
          \/ calculate_overfill(o, e.last_qty) > 0 /\ ~allow_overfills
    THEN o
    ELSE apply(o, e)

\* The order after each of the events.
after_events(o, events) ==
    LET after[n \in 0 .. Len(events)] == IF n = 0 THEN o ELSE handle_event(after[n - 1], events[n])
    IN after

handle_events(o, events) == after_events(o, events)[Len(events)]

\* ExecutionEngine::reconcile_order_status_report.
reconcile_order_status_report(o, r) ==
    handle_events(o, generate_reconciliation_order_events(o, r))

\* The order after each of the fill reports.
after_fills(o, fills) ==
    LET after[n \in 0 .. Len(fills)] ==
            IF n = 0 THEN o
            ELSE handle_events(after[n - 1], reconcile_fill_report(after[n - 1], fills[n]))
    IN after

\* ExecutionEngine::reconcile_order_with_fills: the fills one by one, an inferred fill
\* for the rest, then the closure the venue reports.
reconcile_order_with_fills(o, r, fills) ==
    LET filled_order == after_fills(o, fills)[Len(fills)]
        covered  == IF /\ r.status \in {"PartiallyFilled", "Filled"}
                       /\ r.filled_qty > filled_order.filled_qty
                    THEN handle_event(filled_order, create_incremental_inferred_fill(filled_order, r))
                    ELSE filled_order
    IN IF r.status \in {"Canceled", "Expired"} /\ ~is_closed(covered)
       THEN handle_event(covered, [type |-> r.status])
       ELSE covered
=============================================================================
