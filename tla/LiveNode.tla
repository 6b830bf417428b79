------------------------------ MODULE LiveNode ------------------------------
(***************************************************************************)
(* The live node's event loop (crates/live/src/node/mod.rs) and its        *)
(* execution manager (crates/live/src/execution/manager.rs): one order,    *)
(* the requests a strategy makes about it, and the checks by which the     *)
(* manager finds out what became of a request that is not answered.        *)
(*                                                                         *)
(* The venue and the network are the environment.  Requests, answers and   *)
(* reports can be lost, and arrive in any order; the OrderSubmitted that   *)
(* the execution client puts on the node's channel itself comes first.     *)
(* Time is counted in ages: how long ago something happened, up to one     *)
(* more than the threshold it is compared with.  Instrument and client     *)
(* order id filters are empty, and the order is the only one.              *)
(***************************************************************************)
EXTENDS Reconciliation

CONSTANTS
    OrderQty,               \* quantity of the order
    Bounds,                 \* what the environment does at most, see below
    inflight_threshold,     \* of ExecutionManagerConfig, in ticks
    inflight_max_retries,
    open_check_threshold,
    open_check_missing_retries,
    open_check_open_only

ASSUME LiveAssumption ==
    /\ OrderQty \in 1 .. RawMax
    /\ Bounds \subseteq [quantities   : SUBSET (1 .. RawMax),
                         requests     : Nat \ {0},
                         trades       : Nat,
                         reports      : Nat,
                         report_kinds : SUBSET {"Order", "Fill", "OrderWithFills"},
                         open_checks  : Nat]
    /\ inflight_threshold \in Nat \ {0}
    /\ inflight_max_retries \in Nat \ {0}
    /\ open_check_threshold \in Nat \ {0}
    /\ open_check_missing_retries \in Nat \ {0}
    /\ open_check_open_only \in BOOLEAN

ASSUME NoneIsNoStatus == None \notin OrderStatus
ASSUME NoneIsNoAge == None \notin Nat
ASSUME NoneIsNoCheck == None \notin [age : Nat, retry_count : Nat, queried : Nat \cup {None}]

\* A member of Bounds: the quantities of the modifies, the number of requests (the
\* submit, modifies and cancels), of trades of one unit, of answers to queries and of
\* open-order checks, and the kinds of reports that answer a query.
VARIABLES
    bounds,        \* the member of Bounds this behaviour keeps to
    order,         \* the cached order
    commands,      \* the channel of trading commands
    manager,       \* the manager's tracking of the order
    open_check,    \* the open-order report task, or None
    wire,          \* requests on their way to the venue
    net,           \* events and reports on their way to the node
    venue,         \* the order as the venue has it
    history        \* requests, reports and open-order checks made, and whether requests crossed

vars == <<bounds, order, commands, manager, open_check, wire, net, venue, history>>

\* How long ago a request may have been registered before the last retry gives up.
Patience == inflight_threshold * inflight_max_retries

older(age, limit) == IF age = None \/ age > limit THEN age ELSE age + 1

Untracked == [inflight |-> None, retries |-> 0, activity |-> None, recent_fills |-> {}]

Init ==
    /\ bounds \in Bounds
    /\ order = NewOrder("Limit", OrderQty, FALSE)
    /\ commands = <<[type |-> "Submit", req |-> 1]>>
    /\ manager = Untracked
    /\ open_check = None
    /\ wire = {}
    /\ net = {}
    /\ venue = [status |-> None, quantity |-> OrderQty, filled_qty |-> 0, venue_order_id |-> 1]
    /\ history = [requests |-> 1, crossed |-> FALSE, reports |-> 0, open_checks |-> 0]

-----------------------------------------------------------------------------
\* The manager's tracking.
\* Mutant: a new request goes on with the retries of the one before it.
register_keeping_retries(m) ==
    [m EXCEPT !.inflight = [age |-> 0, retry_count |-> m.retries, queried |-> None],
              !.activity = None]

register_inflight(m) ==
    [m EXCEPT !.inflight = [age |-> 0, retry_count |-> 0, queried |-> None],
              !.retries = 0,
              !.activity = None]

record_local_activity(m) == [m EXCEPT !.activity = 0]

clear_recon_tracking(m) == [m EXCEPT !.inflight = None, !.retries = 0, !.activity = None]

mark_fill_processed(m, trade_id) == [m EXCEPT !.recent_fills = @ \cup {trade_id}]

\* observe_execution_report, for a status report alone or with its fills, or for a fill.
observe_execution_report(m, report) ==
    IF report.kind # "Fill" /\ report.status.status \notin Pending
    THEN record_local_activity(clear_recon_tracking(m))
    ELSE IF report.kind = "OrderWithFills" THEN m
    ELSE record_local_activity(m)

\* What process_reconciliation_events leaves of the tracking.
Reconciled(m, events) ==
    LET fills == SelectSeq(events, LAMBDA e : e.type = "Filled")
    IN [m EXCEPT !.activity = IF events = << >> THEN @ ELSE 0,
                 !.recent_fills = @ \cup {fills[i].trade_id : i \in DOMAIN fills}]

-----------------------------------------------------------------------------
\* The strategy.  A request of an order that is not at the venue yet is sent without
\* the pending event.
Request(command, pending) ==
    /\ history.requests < bounds.requests
    /\ order' = IF is_active_local(order) THEN order ELSE apply(order, [type |-> pending])
    /\ is_active_local(order) \/ Applies(order, [type |-> pending])
    /\ commands' = Append(commands, command)
    /\ history' = [history EXCEPT
                     !.requests = @ + 1,
                     !.crossed = @ \/ commands # << >> \/ is_inflight(order)
                                   \/ is_active_local(order)]
    /\ UNCHANGED <<bounds, manager, open_check, wire, net, venue>>

ModifyOrder(qty) ==
    /\ qty # order.quantity
    /\ ~is_closed(order) /\ order.status # "PendingCancel"
    /\ Request([type |-> "Modify", req |-> history.requests + 1, quantity |-> qty],
               "PendingUpdate")

CancelOrder ==
    /\ ~is_closed(order) /\ order.status # "PendingCancel"
    /\ Request([type |-> "Cancel", req |-> history.requests + 1], "PendingCancel")

-----------------------------------------------------------------------------
\* The node takes a command from its channel; the client sends it.
HandleCommand ==
    /\ commands # << >>
    /\ commands' = Tail(commands)
    /\ manager' = register_inflight(manager)
    /\ wire' = wire \cup {Head(commands)}
    /\ net' = IF Head(commands).type = "Submit"
              THEN net \cup {[kind |-> "Event", req |-> 1, event |-> [type |-> "Submitted"]]}
              ELSE net
    /\ UNCHANGED <<bounds, order, open_check, venue, history>>

\* The events that clear the tracking.
Answers == {"Accepted", "Rejected", "Canceled", "Expired", "Denied", "Updated",
            "ModifyRejected", "CancelRejected"}

\* Mutant: OrderSubmitted counts as an answer of the venue.
ObservedAnyEvent(m, e) ==
    IF e.type = "Filled" THEN mark_fill_processed(record_local_activity(m), e.trade_id)
    ELSE clear_recon_tracking(m)

\* The tracking before the event is dispatched to the engine.
Observed(m, e) ==
    CASE e.type = "Filled" -> mark_fill_processed(record_local_activity(m), e.trade_id)
      [] e.type \in Answers -> clear_recon_tracking(m)
      [] OTHER -> record_local_activity(m)

is_submitted(msg) == msg.kind = "Event" /\ msg.event.type = "Submitted"

SubmittedFirst(msg) == is_submitted(msg) \/ ~\E other \in net : is_submitted(other)

HandleOrderEvent(msg) ==
    /\ msg.kind = "Event" /\ SubmittedFirst(msg)
    /\ net' = net \ {msg}
    /\ order' = handle_event(order, msg.event)
    /\ manager' = IF is_closed(order') THEN clear_recon_tracking(Observed(manager, msg.event))
                  ELSE Observed(manager, msg.event)
    /\ history' = [history EXCEPT
                     !.crossed = @ \/ (msg.event.type \in Answers /\ msg.req < history.requests)]
    /\ UNCHANGED <<bounds, commands, open_check, wire, venue>>

\* A fill report of a trade seen lately is skipped before the manager observes it.
HandleReport(msg) ==
    /\ msg.kind \in {"Order", "Fill", "OrderWithFills"} /\ SubmittedFirst(msg)
    /\ net' = net \ {msg}
    /\ IF msg.kind = "Fill" /\ msg.fill.trade_id \in manager.recent_fills
       THEN UNCHANGED <<order, manager>>
       ELSE /\ manager' = observe_execution_report(manager, msg)
            /\ order' = CASE msg.kind = "Order" -> reconcile_order_status_report(order, msg.status)
                          [] msg.kind = "Fill" ->
                                 handle_events(order, reconcile_fill_report(order, msg.fill))
                          [] OTHER -> reconcile_order_with_fills(order, msg.status, msg.fills)
    /\ UNCHANGED <<bounds, commands, open_check, wire, venue, history>>

\* prune_recent_fills_cache, after a minute without the trade.
PruneRecentFills ==
    /\ manager.recent_fills # {}
    /\ manager' = [manager EXCEPT !.recent_fills = {}]
    /\ UNCHANGED <<bounds, order, commands, open_check, wire, net, venue, history>>

-----------------------------------------------------------------------------
gives_up(check) == check.retry_count + 1 >= inflight_max_retries

\* The terminal event of a request that was never answered.
timeout_events(o) ==
    CASE o.status = "Submitted" -> <<[type |-> "Rejected"]>>
      [] o.status \in Pending -> <<[type |-> "Canceled"]>>
      [] OTHER -> << >>

\* Mutant: a request is queried once and then left alone.
is_due_once(check) == check.age > inflight_threshold /\ check.queried = None

is_due(check) ==
    /\ check.age > inflight_threshold
    /\ check.queried # None => check.queried >= inflight_threshold

\* check_inflight_orders, and what the node does with its result.  A query is a request
\* that the venue answers with a report.
CheckInflightOrders ==
    LET check == manager.inflight
        retried == [manager EXCEPT !.inflight.retry_count = @ + 1, !.inflight.queried = 0,
                                   !.retries = check.retry_count + 1]
    IN /\ check # None
       /\ is_due(check)
       /\ IF gives_up(check)
          THEN /\ order' = handle_events(order, timeout_events(order))
               /\ manager' = Reconciled(clear_recon_tracking(manager), timeout_events(order))
               /\ UNCHANGED wire
          ELSE /\ manager' = retried
               /\ wire' = wire \cup {[type |-> "Query"]}
               /\ UNCHANGED order
       /\ UNCHANGED <<bounds, commands, open_check, net, venue, history>>

-----------------------------------------------------------------------------
\* The open-order check asks for the reports of all orders and keeps what it then knows.
StartOpenOrderReportCheck ==
    /\ open_check = None
    /\ history.open_checks < bounds.open_checks
    /\ history' = [history EXCEPT !.open_checks = @ + 1]
    /\ open_check' = [filtered |-> is_open(order) \/ is_inflight(order), answered |-> FALSE,
                      reports |-> << >>]
    /\ UNCHANGED <<bounds, order, commands, manager, wire, net, venue>>

is_deferred(m) == m.activity # None /\ m.activity < open_check_threshold

\* handle_missing_order.  `recent`: the order's last event is too recent.
handle_missing_order(m, recent) ==
    IF recent \/ is_deferred(m) THEN [manager |-> m, events |-> << >>]
    ELSE IF m.retries + 1 >= open_check_missing_retries
    THEN [manager |-> clear_recon_tracking(m), events |-> <<[type |-> "Rejected"]>>]
    ELSE [manager |-> [m EXCEPT !.retries = @ + 1], events |-> << >>]

\* reconcile_open_order_reports: the reports against the order as it is now, the missing
\* ones against the orders as they were when the check began.
ReconcileOpenOrderReports(recent) ==
    LET reported == open_check.reports # << >>
        missing  == handle_missing_order(manager, recent)
        result ==
            IF reported
            THEN [manager |-> manager,
                  events |-> IF is_deferred(manager) THEN << >>
                             ELSE reconcile_order_report(order, open_check.reports[1])]
            ELSE IF ~open_check_open_only /\ open_check.filtered THEN missing
            ELSE [manager |-> manager, events |-> << >>]
    IN /\ open_check # None
       /\ open_check.answered
       /\ open_check' = None
       /\ order' = handle_events(order, result.events)
       /\ manager' = Reconciled(result.manager, result.events)
       /\ UNCHANGED <<bounds, commands, wire, net, venue, history>>

-----------------------------------------------------------------------------
aged(check) ==
    IF check = None THEN None
    ELSE [check EXCEPT !.age = older(@, Patience), !.queried = older(@, inflight_threshold - 1)]

\* Everything gets older; a deadline that has passed stays passed.  A tick is far longer
\* than the OrderSubmitted stays in the node's own channel.
Tick ==
    /\ ~\E msg \in net : is_submitted(msg)
    /\ manager' = [manager EXCEPT
                     !.inflight = aged(@),
                     !.activity = older(@, open_check_threshold - 1)]
    /\ manager' # manager
    /\ UNCHANGED <<bounds, order, commands, open_check, wire, net, venue, history>>

-----------------------------------------------------------------------------
\* The venue.
is_working == venue.status \in {"Accepted", "PartiallyFilled"}

VenueStatus(filled_qty, qty) ==
    IF filled_qty = 0 THEN "Accepted" ELSE IF filled_qty < qty THEN "PartiallyFilled" ELSE "Filled"

Event(req, event) == [kind |-> "Event", req |-> req, event |-> event]

\* It accepts or rejects a request that it receives.
VenueHandles(r, accepts) ==
    LET answer(e) == net' = net \cup {Event(r.req, e)}
        id == venue.venue_order_id
    IN /\ r.type # "Query"
       /\ wire' = wire \ {r}
       /\ \/ /\ r.type = "Submit"
             /\ venue' = [venue EXCEPT !.status = IF accepts THEN "Accepted" ELSE "Rejected"]
             /\ answer(IF accepts THEN [type |-> "Accepted", venue_order_id |-> id]
                       ELSE [type |-> "Rejected"])
          \/ /\ r.type = "Modify"
             /\ accepts => is_working /\ r.quantity > venue.filled_qty
             /\ venue' = IF accepts
                         THEN [venue EXCEPT !.quantity = r.quantity] ELSE venue
             /\ answer(IF accepts
                       THEN [type |-> "Updated", quantity |-> r.quantity, venue_order_id |-> id]
                       ELSE [type |-> "ModifyRejected"])
          \/ /\ r.type = "Cancel"
             /\ accepts => is_working
             /\ venue' = IF accepts THEN [venue EXCEPT !.status = "Canceled"] ELSE venue
             /\ answer(IF accepts THEN [type |-> "Canceled"] ELSE [type |-> "CancelRejected"])
       /\ UNCHANGED <<bounds, order, commands, manager, open_check, history>>

Trade(n) == [trade_id |-> VenueTrade(n), last_qty |-> 1, venue_order_id |-> venue.venue_order_id]

VenueFills ==
    LET n == venue.filled_qty + 1
    IN /\ is_working
       /\ n <= bounds.trades
       /\ venue' = [venue EXCEPT !.filled_qty = n, !.status = VenueStatus(n, venue.quantity)]
       /\ net' = net \cup
              {Event(0, [type |-> "Filled", trade_id |-> VenueTrade(n), last_qty |-> 1,
                         venue_order_id |-> venue.venue_order_id, position_id |-> None])}
       /\ UNCHANGED <<bounds, order, commands, manager, open_check, wire, history>>

\* A query is answered with the order's status, with one of its trades, or with both.
VenueAnswersQuery ==
    LET trades == [n \in 1 .. venue.filled_qty |-> Trade(n)]
        reply(msg) == net' = net \cup {msg}
    IN /\ [type |-> "Query"] \in wire
       /\ wire' = wire \ {[type |-> "Query"]}
       /\ history.reports < bounds.reports
       /\ history' = [history EXCEPT !.reports = @ + 1]
       /\ venue.status # None
       /\ \/ "Order" \in bounds.report_kinds /\ reply([kind |-> "Order", status |-> venue])
          \/ "Fill" \in bounds.report_kinds /\ \E n \in DOMAIN trades : reply([kind |-> "Fill", fill |-> trades[n]])
          \/ "OrderWithFills" \in bounds.report_kinds /\ trades # << >> /\ reply([kind |-> "OrderWithFills", status |-> venue, fills |-> trades])
       /\ UNCHANGED <<bounds, order, commands, manager, open_check, venue>>

\* The answer to the open-order check, which may fail: then it holds no report.
VenueAnswersOpenCheck(failed) ==
    /\ open_check # None /\ ~open_check.answered
    /\ open_check' = [open_check EXCEPT
                        !.answered = TRUE,
                        !.reports = IF failed \/ venue.status = None
                                       \/ (open_check_open_only /\ ~is_working)
                                    THEN << >> ELSE <<venue>>]
    /\ UNCHANGED <<bounds, order, commands, manager, wire, net, venue, history>>

-----------------------------------------------------------------------------
Node ==
    \/ HandleCommand
    \/ \E msg \in net : HandleOrderEvent(msg) \/ HandleReport(msg)
    \/ CheckInflightOrders

Environment ==
    \/ \E r \in wire, accepts \in BOOLEAN : VenueHandles(r, accepts)
    \/ VenueFills
    \/ VenueAnswersQuery
    \/ \E failed \in BOOLEAN : VenueAnswersOpenCheck(failed)

Next ==
    \/ \E qty \in bounds.quantities : ModifyOrder(qty)
    \/ CancelOrder
    \/ Node
    \/ PruneRecentFills
    \/ StartOpenOrderReportCheck
    \/ \E recent \in BOOLEAN : ReconcileOpenOrderReports(recent)
    \/ Tick
    \/ Environment

\* The loop polls its channels and its maintenance timer for ever, and time goes on; what
\* is on its way to or from the venue may never arrive.
Fairness ==
    /\ WF_vars(HandleCommand)
    /\ WF_vars(\E msg \in net : is_submitted(msg) /\ HandleOrderEvent(msg))
    /\ WF_vars(CheckInflightOrders)
    /\ WF_vars(Tick)

Spec == Init /\ [][Next]_vars /\ Fairness

-----------------------------------------------------------------------------
\* check_inflight_orders gives up on a request only when the venue has had the whole
\* patience, the threshold once for every retry, to answer that very request: neither
\* the retries of an earlier request nor a burst of maintenance ticks use it up.
PatienceKept ==
    [][CheckInflightOrders /\ manager'.inflight = None => manager.inflight.age > Patience]_vars

\* A request made when the one before it was settled, about an order that has not traded,
\* stays registered with the manager until the order leaves its in-flight status,
\* whatever is lost or late.  Not so when requests cross, or once the order has trades:
\* an answer to the earlier request, or a report of which nothing is applied, clears the
\* tracking and leaves the order in flight.
WatchedUntilResolved ==
    /\ is_inflight(order)
    /\ ~history.crossed
    /\ venue.filled_qty = 0
    => manager.inflight # None \/ commands # << >>

\* The order holds more than the venue traded only if some of it was inferred: without
\* an inferred fill each trade counts once, through whichever of the channels (event,
\* fill report, report with fills) and however often it arrives.
OvercountNeedsInference ==
    order.filled_qty > venue.filled_qty => \E f \in order.fills : is_inferred(f)

\* A status report about an order that is behind it and has no request outstanding
\* brings the order to the reported quantity and fills: an amendment the node missed is
\* applied before the fill.  If the venue has filled the order and the node lacked some of
\* the fills, it is filled, and the report of an order the venue still works never fills it.
\* Left open is the status of an order that has all the fills, when the report shows that
\* the venue has reduced its quantity to them.
ReportIsAdopted ==
    [][\A msg \in net :
         /\ msg.kind = "Order"
         /\ HandleReport(msg)
         /\ order.status \in {"Submitted", "Accepted", "PartiallyFilled"}
         /\ order.filled_qty <= msg.status.filled_qty
         /\ msg.status.status \in {"Accepted", "PartiallyFilled", "Filled"}
         => /\ order'.quantity = msg.status.quantity
            /\ order'.filled_qty = msg.status.filled_qty
            /\ order'.status = "Filled" => msg.status.status = "Filled"
            /\ /\ msg.status.status = "Filled"
               /\ order.filled_qty < msg.status.filled_qty
               => order'.status = "Filled"]_vars

\* An order does not stay Submitted for ever, even if the venue never answers and whatever
\* it has traded: the in-flight check resolves it.  Not so when another request crosses the
\* submission, whose answer clears the tracking of both.
SubmitsResolved ==
    order.status = "Submitted" /\ ~history.crossed
    ~> order.status # "Submitted" \/ history.crossed
=============================================================================
