---------------------------- MODULE OrderEmulator ----------------------------
(***************************************************************************)
(* The order emulator (crates/execution/src/order_emulator/emulator.rs) at *)
(* work on one list of contingent orders: the commands of the strategy,    *)
(* the ticks that release held orders, the queue that takes the released   *)
(* orders to the execution engine, the events that come back from the      *)
(* venue, and a crash of the process with the restart that reloads the     *)
(* emulated orders from the cache database.                                *)
(*                                                                         *)
(* Prices are left out: a tick matches any set of the resting orders.      *)
(* Every event of an order is applied to the cached order by the execution *)
(* engine and then published to the emulator, in one step.                 *)
(***************************************************************************)
EXTENDS OrderManager

CONSTANTS
    OrderLists,     \* the lists of orders to start from, see ListAssumption
    OrderQty        \* the quantity of every order

\* With a list goes how many amendments of its orders at the venue, and how many crashes,
\* there are at most.
ASSUME ListAssumption ==
    /\ OrderQty \in Nat \ {0}
    /\ \A l \in OrderLists :
         /\ l.max_updates \in Nat
         /\ l.max_restarts \in Nat
         /\ DOMAIN l.attributes = Range(l.ids)
         /\ \A id \in Range(l.ids) : l.attributes[id] \in Attributes(Range(l.ids))

VARIABLES
    ids, list, bounds,        \* the orders as listed, their attributes, and the bounds
    orders, submit_order_commands, matching_core, feeds, subscribed_strategies,
    queue, panic,             \* the emulator's state, see OrderManager
    phase,                    \* what the process is doing
    sent,                     \* the quantities an order was handed to the execution client with
    unheard,                  \* orders with an event that the emulator did not hear
    unmade,                   \* orders whose released form could not be made
    updates, restarts         \* how many there have been

emulator == <<orders, submit_order_commands, matching_core, feeds, subscribed_strategies,
              queue, panic>>
vars == <<ids, list, bounds, emulator, phase, sent, unheard, unmade, updates, restarts>>

Ids == Range(ids)

state ==
    [orders |-> orders, submit_order_commands |-> submit_order_commands,
     matching_core |-> matching_core, feeds |-> feeds,
     subscribed_strategies |-> subscribed_strategies, queue |-> queue, panic |-> panic]

Init ==
    /\ \E l \in OrderLists :
         /\ ids = l.ids
         /\ list = l.attributes
         /\ bounds = [updates |-> l.max_updates, restarts |-> l.max_restarts]
    /\ orders = [id \in Ids |-> NewOrder(list[id].order_type, OrderQty, list[id].emulated)]
    /\ submit_order_commands = {}
    /\ matching_core = {}
    /\ feeds = {}
    /\ subscribed_strategies = FALSE
    /\ queue = <<>>
    /\ panic = None
    /\ phase = "Submitting"
    /\ sent = [id \in Ids |-> <<>>]
    /\ unheard = {}
    /\ unmade = {}
    /\ updates = 0
    /\ restarts = 0

\* The emulator's state becomes s; a panic ends the process.
Become(s) ==
    /\ orders' = s.orders
    /\ submit_order_commands' = s.submit_order_commands
    /\ matching_core' = s.matching_core
    /\ feeds' = s.feeds
    /\ subscribed_strategies' = s.subscribed_strategies
    /\ queue' = s.queue
    /\ panic' = s.panic
    /\ phase' = IF panicked(s) THEN "Panicked" ELSE "Running"

-----------------------------------------------------------------------------
\* Commands of the strategy.

is_oto_child(id) == list[id].parent # None /\ list[list[id].parent].contingency = "Oto"

\* Strategy::submit_order_list and OrderEmulator::handle_submit_order_list, which leaves
\* the children of an OTO order to wait for it.
SubmitOrderList ==
    /\ phase = "Submitting"
    /\ Become(FoldLeft(LAMBDA s, id : create_new_submit_order(s, list, id),
                       [state EXCEPT !.subscribed_strategies = TRUE],
                       SelectSeq(ids, LAMBDA id : ~is_oto_child(id))))
    /\ UNCHANGED <<ids, list, bounds, sent, unheard, unmade, updates, restarts>>

\* Strategy::modify_order of an order that is emulated.  handle_modify_order sends its
\* OrderUpdated to the execution engine while it still borrows the cache, which the engine
\* borrows mutably to apply the event.
ModifyOrder(id) ==
    /\ phase = "Running"
    /\ orders[id].status = "Emulated"
    /\ Become([state EXCEPT !.panic = "OrderEmulator::handle_modify_order"])
    /\ UNCHANGED <<ids, list, bounds, sent, unheard, unmade, updates, restarts>>

\* Strategy::cancel_order of an order with an emulation trigger, and handle_cancel_order.
\* An order that still has its trigger is never open, so the emulator cancels it itself.
CancelOrder(id) ==
    /\ phase = "Running"
    /\ orders[id].emulation_trigger
    /\ ~is_closed(orders[id])
    /\ Become(cancel_order(state, id))
    /\ UNCHANGED <<ids, list, bounds, sent, unheard, unmade, updates, restarts>>

\* Strategy::cancel_all_orders and handle_cancel_all_orders, which reaches the orders that
\* rest in the matching core.
CancelAllOrders ==
    /\ phase = "Running"
    /\ matching_core # {}
    /\ Become(FoldLeft(cancel_order, state,
                       SelectSeq(ids, LAMBDA id : id \in matching_core)))
    /\ UNCHANGED <<ids, list, bounds, sent, unheard, unmade, updates, restarts>>

-----------------------------------------------------------------------------
\* Ticks.

\* A matched order leaves the matching core, and its command is popped.
taken(s, id) ==
    [s EXCEPT !.submit_order_commands = @ \ {id}, !.matching_core = @ \ {id}]

\* The end of fill_market_order and fill_limit_order: a new order of the released type
\* takes the place of the old one.
release(s, id, order_type) ==
    LET transformed == NewOrder(order_type, s.orders[id].quantity, FALSE)
    IN [taken(s, id) EXCEPT !.orders[id] = apply(transformed, Plain("Released")),
                            !.queue = Append(@, id)]

fill_market_order(s, id) ==
    CASE id \notin s.submit_order_commands ->
           [s EXCEPT !.panic = "OrderEmulator::fill_market_order"]
      [] id \in s.submit_order_commands /\ list[id].gtd ->
           [taken(s, id) EXCEPT !.panic = "MarketOrder::new"]
      [] id \in s.submit_order_commands /\ ~list[id].gtd -> release(s, id, "Market")

\* LimitOrder::new_checked refuses an order that would show more than its quantity, which
\* a contingency may have reduced; fill_limit_order has taken the held order out by then.
fill_limit_order(s, id) ==
    CASE id \notin s.submit_order_commands -> s
      [] id \in s.submit_order_commands /\ list[id].display_qty > s.orders[id].quantity ->
           taken(s, id)
      [] id \in s.submit_order_commands /\ list[id].display_qty <= s.orders[id].quantity ->
           release(s, id, "Limit")

\* What a MatchAction leads to: trigger_stop_order and the type test of fill_limit_order.
execute_match(s, id) ==
    IF panicked(s) THEN s
    ELSE IF list[id].order_type \in TRIGGERABLE_ORDER_TYPES THEN fill_limit_order(s, id)
    ELSE fill_market_order(s, id)

\* The matched orders of one side, as iterate_bids and iterate_asks find them.
iterate_side(s, matched, buy) ==
    FoldLeft(execute_match, s,
             SelectSeq(ids, LAMBDA id : id \in matched \cap s.matching_core /\ list[id].buy = buy))

\* on_quote_tick and on_trade_tick with iterate_orders.
OnTick(matched) ==
    /\ phase = "Running"
    /\ feeds # {}
    /\ Become(iterate_side(iterate_side(state, matched, TRUE), matched, FALSE))
    /\ unmade' = unmade \cup {id \in matched \ matching_core' : orders'[id].status = "Emulated"}
    /\ UNCHANGED <<ids, list, bounds, sent, unheard, updates, restarts>>

-----------------------------------------------------------------------------
\* The execution engine, the execution client and the venue.

\* ExecutionEngine::process: the cached order changes, and the emulator hears of it when
\* it runs and is subscribed.
Processed(s, id, e) ==
    LET processed == update_order(s, id, e)
    IN IF phase = "Running" /\ s.subscribed_strategies /\ Applies(s.orders[id], e)
       THEN on_event(processed, list, id, e) ELSE processed

Process(s, id, e) ==
    /\ Become(Processed(s, id, e))
    /\ unheard' = IF s.subscribed_strategies THEN unheard ELSE unheard \cup {id}

\* The next SubmitOrder command is denied, by the risk engine or the execution engine.
DenyCommand ==
    /\ phase = "Running"
    /\ queue # <<>>
    /\ Process([state EXCEPT !.queue = Tail(@)], Head(queue), Plain("Denied"))
    /\ UNCHANGED <<ids, list, bounds, sent, unmade, updates, restarts>>

\* Mutant: the command stays in the queue.
HandleCommandAgain ==
    LET id == Head(queue)
    IN /\ phase = "Running"
       /\ queue # <<>>
       /\ sent' = IF is_closed(orders[id]) THEN sent
                  ELSE [sent EXCEPT ![id] = Append(@, orders[id].quantity)]
       /\ UNCHANGED <<ids, list, bounds, emulator, phase, unheard, unmade, updates, restarts>>

\* ExecutionEngine::handle_submit_order hands the order to the client, which drops an
\* order that is closed.
HandleCommand ==
    LET id == Head(queue)
    IN /\ phase = "Running"
       /\ queue # <<>>
       /\ Become([state EXCEPT !.queue = Tail(@)])
       /\ sent' = IF is_closed(orders[id]) THEN sent
                  ELSE [sent EXCEPT ![id] = Append(@, orders[id].quantity)]
       /\ UNCHANGED <<ids, list, bounds, unheard, unmade, updates, restarts>>

was_sent(id) == sent[id] # <<>>

\* The events of an order that was sent.  After a restart, reconciliation brings those
\* that were missed before the emulator starts.  A venue trades no more than it was sent.
VenueEvents(id) ==
    LET o == orders[id]
    IN CASE o.status \in {"Initialized", "Released"} -> {Plain("Submitted")}
         [] o.status = "Submitted" -> {[type |-> "Accepted", venue_order_id |-> id],
                                       Plain("Rejected")}
         [] o.status \in {"Accepted", "PartiallyFilled"} ->
              {[type |-> "Filled", trade_id |-> o.filled_qty, last_qty |-> 1,
                venue_order_id |-> id, position_id |-> None] :
                  n \in o.filled_qty + 1 .. FoldLeft(saturating_add, 0, sent[id])}
              \cup {UpdatedTo(o.quantity + 1) : n \in updates + 1 .. bounds.updates}
              \cup {Plain("Canceled"), Plain("Expired")}
         [] OTHER -> {}

\* An amendment changes the order that the venue has.
Amended(id, e) ==
    IF e.type = "Updated"
    THEN updates' = updates + 1 /\ sent' = [sent EXCEPT ![id][1] = e.quantity]
    ELSE UNCHANGED <<updates, sent>>

VenueEvent(id) ==
    /\ phase = "Running"
    /\ was_sent(id)
    /\ \E e \in VenueEvents(id) : Process(state, id, e) /\ Amended(id, e)
    /\ UNCHANGED <<ids, list, bounds, unmade, restarts>>

-----------------------------------------------------------------------------
\* Crash and restart.

\* The process ends, with everything but the cache database.
Crash ==
    /\ phase \in {"Running", "Panicked"}
    /\ restarts < bounds.restarts
    /\ phase' = "Reconciling"
    /\ submit_order_commands' = {}
    /\ matching_core' = {}
    /\ feeds' = {}
    /\ subscribed_strategies' = FALSE
    /\ queue' = <<>>
    /\ panic' = None
    /\ restarts' = restarts + 1
    /\ UNCHANGED <<ids, list, bounds, orders, sent, unheard, unmade, updates>>

\* Startup reconciliation applies an event before the emulator is started.
ReconcileEvent(id) ==
    /\ phase = "Reconciling"
    /\ was_sent(id)
    /\ \E e \in VenueEvents(id) :
         orders' = update_order(state, id, e).orders /\ Amended(id, e)
    /\ unheard' = unheard \cup {id}
    /\ UNCHANGED <<ids, list, bounds, submit_order_commands, matching_core, feeds,
                   subscribed_strategies, queue, panic, phase, unmade, restarts>>

\* The OTO children that on_start leaves for later.
waits_for_parent(s, id) ==
    /\ is_oto_child(id)
    /\ LET parent == s.orders[list[id].parent]
       IN is_active_local(parent) \/ parent.filled_qty = 0

\* One order of OrderEmulator::on_start; `flat` holds the orders whose position is closed.
reactivate(s, id, flat) ==
    LET o == s.orders[id]
        parent == list[id].parent
        orphaned == parent \in flat /\ is_closed(s.orders[parent])
    IN CASE ~o.emulation_trigger \/ o.status \notin {"Initialized", "Emulated"} -> s
         [] OTHER -> IF orphaned THEN cancel_order(s, id)
                     ELSE IF waits_for_parent(s, id) THEN s
                     ELSE handle_submit_order(s, list, id)

\* A position is closed by the orders of the list or by any other.
on_start ==
    /\ phase = "Reconciling"
    /\ \E flat \in SUBSET {id \in Ids : orders[id].filled_qty > 0} :
         Become(FoldLeft(LAMBDA s, id : reactivate(s, id, flat), state, ids))
    /\ UNCHANGED <<ids, list, bounds, sent, unheard, unmade, updates, restarts>>

-----------------------------------------------------------------------------
Next ==
    \/ SubmitOrderList
    \/ \E id \in Ids : ModifyOrder(id)
    \/ \E id \in Ids : CancelOrder(id)
    \/ CancelAllOrders
    \/ \E matched \in SUBSET matching_core \ {{}} : OnTick(matched)
    \/ DenyCommand
    \/ HandleCommand
    \/ \E id \in Ids : VenueEvent(id)
    \/ Crash
    \/ \E id \in Ids : ReconcileEvent(id)
    \/ on_start

Spec == Init /\ [][Next]_vars

-----------------------------------------------------------------------------
\* An order that says it is emulated is the emulator's to watch: it rests in the matching
\* core, its SubmitOrder command is kept and its market data subscribed to, and the core
\* holds no other order.  The exception is an order whose release failed: fill_limit_order
\* drops the command and takes the order out of the core before LimitOrder::new_checked
\* refuses it, and returns, so that it is Emulated and nobody watches it.  An order that
\* says it is released is on its way to the execution client or has been there, unless a
\* crash lost the command: on_start does not look at it.  Commands, ticks, contingencies and
\* the reload of on_start each change the order, the core and the kept commands in several
\* steps.
StatusIsTrue ==
    /\ phase = "Running" =>
          /\ {id \in Ids : orders[id].status = "Emulated"} \subseteq matching_core \cup unmade
          /\ \A id \in matching_core :
                /\ orders[id].status = "Emulated"
                /\ id \in submit_order_commands
                /\ list[id].feed \in feeds
    /\ \A id \in Ids : orders[id].status = "Released" =>
          id \in Range(queue) \/ was_sent(id) \/ restarts > 0

\* The emulator never holds an order that it already holds, which OrderMatchingCore::add_order
\* asserts, and never releases one to the market whose command it has given away, which
\* fill_market_order expects to find: whatever fills, ticks and restarts have come before.
HeldOnceReleasedOnce ==
    panic \notin {"OrderMatchingCore::add_order", "OrderEmulator::fill_market_order"}

\* docs/concepts/orders/emulated.md:93 says that "The emulated order can be modified (by the
\* trader) and updated (by the market) until *released* or canceled": no command to modify a
\* held order ends the process.
EmulatedOrderCanBeModified == panic # "OrderEmulator::handle_modify_order"

\* An order is handed to the client once.  Only an OTO child can be handed over again: it is
\* released, and so without a kept command, when its parent fills once more, and
\* handle_order_filled submits it anew.  Each further time takes a further fill.
SentAgainByParentFill ==
    \A id \in Ids : Len(sent[id]) > 1 =>
        is_oto_child(id) /\ Len(sent[id]) <= orders[list[id].parent].filled_qty

\* Once a parent has a fill, no emulated child of it is still waiting to be submitted, unless
\* the emulator did not hear of the fill: after a restart it is subscribed to no strategy
\* until it holds an order, and children that wait for their parent are not held.
ChildFollowsParent ==
    phase = "Running" =>
        \A id \in Ids :
            /\ is_oto_child(id)
            /\ orders[id].emulation_trigger
            /\ orders[id].status = "Initialized"
            => orders[list[id].parent].filled_qty = 0 \/ list[id].parent \in unheard

\* Of a one-cancels-other group, no order is held any longer once another has traded, unless
\* the emulator did not hear of the trade.
OcoTradeLeavesNoneHeld ==
    phase = "Running" =>
        \A id \in Ids :
            list[id].contingency = "Oco" /\ orders[id].filled_qty > 0 /\ id \notin unheard =>
                \A linked \in Range(list[id].linked) \ {id} : linked \notin matching_core

\* Of a one-updates-other group, an order that is still local is left the open quantity of
\* the one that trades, unless a later fill of their parent has set it to what the parent
\* has traded: handle_order_filled does not look at what the group has traded already.
\* An amendment at the venue is not passed on within such a group.
OuoSharesLeaves ==
    phase = "Running" =>
        \A id \in Ids :
            list[id].contingency = "Ouo" /\ orders[id].filled_qty > 0
                                      /\ id \notin unheard /\ updates = 0 =>
                \A linked \in Range(list[id].linked) \ {id} :
                    is_active_local(orders[linked]) =>
                        orders[linked].quantity \in
                            {orders[id].leaves_qty, orders[list[id].parent].filled_qty}

\* A held child is never empty, nor larger than what its parent has traded, unless an amendment at the
\* venue has passed the parent's own quantity on to it, or the emulator did not hear of a
\* fill: on_start holds the child with the quantity it has.
HeldChildIsCovered ==
    \A id \in matching_core :
        is_oto_child(id) /\ updates = 0 /\ list[id].parent \notin unheard =>
            orders[id].quantity \in 1 .. orders[list[id].parent].filled_qty

\* An order that the venue rejects, or cancels or lets expire before it has traded, takes
\* with it the orders linked to it that are still local, if the emulator hears of it.
VenueCloseReachesLinked ==
    [][\A id \in Ids :
          /\ was_sent(id)
          /\ ~is_closed(orders[id])
          /\ orders'[id].status \in {"Rejected", "Canceled", "Expired"}
          /\ orders'[id].filled_qty = 0
          /\ phase = "Running" /\ subscribed_strategies
          => \A linked \in Range(list[id].linked) \ {id} : ~is_active_local(orders'[linked])
      ]_vars

\* docs/concepts/orders/advanced.md:121 says that "Canceling a parent order will cancel all
\* associated child orders".
ParentCancelReachesChildren ==
    phase = "Running" =>
        \A id \in Ids :
            is_oto_child(id) /\ orders[list[id].parent].status = "Canceled"
                             /\ orders[list[id].parent].filled_qty = 0 =>
                is_closed(orders[id])
=============================================================================
