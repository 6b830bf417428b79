---------------------------- MODULE OrderManager ----------------------------
(***************************************************************************)
(* The order emulator's handling of a list of contingent orders:           *)
(* OrderManager (crates/execution/src/order_manager/manager.rs) decides    *)
(* what a change of one order means for the orders linked to it, and the   *)
(* methods of OrderEmulator (crates/execution/src/order_emulator) hold,    *)
(* update, cancel and release the orders.                                  *)
(*                                                                         *)
(* The operators are functions of the emulator's state, a record           *)
(*     orders                 the cached orders                            *)
(*     submit_order_commands  the ids whose SubmitOrder command is kept    *)
(*     matching_core          the ids resting in the matching core         *)
(*     feeds                  the market data subscribed to                *)
(*     subscribed_strategies  whether order events are subscribed to       *)
(*     queue                  the SubmitOrder commands sent on             *)
(*     panic                  where the code panicked, or None             *)
(* and of the list, which gives what does not change about each order.     *)
(* The manager returns its actions to the emulator, which dispatches them  *)
(* in turn; as no action of one linked order reads what another changed,   *)
(* each is carried out here as soon as it is decided.                      *)
(*                                                                         *)
(* The events the emulator publishes while it handles a command, a tick or *)
(* an event do not come back to it: its own handler skips them, because it *)
(* is already borrowed (handlers.rs).  All orders are of one instrument    *)
(* and one strategy, and without an execution algorithm.                   *)
(***************************************************************************)
EXTENDS OrderCore, SequencesExt

ContingencyType == {"NoContingency", "Oto", "Oco", "Ouo"}
Feed == {"Quotes", "Trades"}

\* What is fixed about an order: `supported` is whether the emulator can hold it (its
\* trigger type is one of the three supported, its trigger instrument is known, and a
\* trailing stop has a trigger price), `gtd` whether it expires at a time, and `display_qty`
\* the part of it to show in the book, 0 for an order that does not say.
Attributes(Ids) ==
    [order_type : OrderType, buy : BOOLEAN, emulated : BOOLEAN, feed : Feed,
     gtd : BOOLEAN, display_qty : Nat, supported : BOOLEAN, contingency : ContingencyType,
     linked : Seq(Ids), parent : Ids \cup {None}]

Plain(type) == [type |-> type]
UpdatedTo(quantity) == [type |-> "Updated", quantity |-> quantity, venue_order_id |-> None]

panicked(s) == s.panic # None

\* Cache::update_order: the order stays as it is when it refuses the event.
update_order(s, id, e) ==
    IF Applies(s.orders[id], e)
    THEN [s EXCEPT !.orders[id] = apply(@, e)]
    ELSE s

should_manage_order(o) == is_active_local(o)

-----------------------------------------------------------------------------
\* Mutant: the canceled order stays in the matching core.
cancel_keeping_order(s, id) ==
    IF is_closed(s.orders[id]) THEN s
    ELSE update_order([s EXCEPT !.submit_order_commands = @ \ {id}], id, Plain("Canceled"))

\* OrderManager::cancel_order and OrderEmulator::cancel_order.  The mark "pending cancel
\* locally" that the first looks for is set and taken away within the second.
cancel_order(s, id) ==
    IF is_closed(s.orders[id]) THEN s
    ELSE update_order([s EXCEPT !.submit_order_commands = @ \ {id},
                                !.matching_core = @ \ {id}],
                      id, Plain("Canceled"))

\* OrderManager::modify_order_quantity and OrderEmulator::update_order.
modify_order_quantity(s, id, quantity) == update_order(s, id, UpdatedTo(quantity))

\* OrderEmulator::handle_submit_order: the order is held, unless the emulator cannot.
handle_submit_order(s, list, id) ==
    LET cached == [s EXCEPT !.submit_order_commands = @ \cup {id}]
        watched == [cached EXCEPT !.feeds = @ \cup {list[id].feed}]
        held == [watched EXCEPT !.matching_core = @ \cup {id},
                                !.subscribed_strategies = TRUE]
    IN CASE ~list[id].supported -> cancel_order(cached, id)
         [] list[id].supported /\ id \in s.matching_core ->
               [watched EXCEPT !.panic = "OrderMatchingCore::add_order"]
         [] list[id].supported /\ id \notin s.matching_core ->
               update_order(held, id, Plain("Emulated"))

\* OrderManager::create_new_submit_order: to the emulator itself, or on to the risk engine.
create_new_submit_order(s, list, id) ==
    LET cached == [s EXCEPT !.submit_order_commands = @ \cup {id}]
    IN IF s.orders[id].emulation_trigger
       THEN handle_submit_order(cached, list, id)
       ELSE [cached EXCEPT !.queue = Append(@, id)]

-----------------------------------------------------------------------------
\* Mutant: the child keeps the quantity it was listed with.
trigger_child_unsized(s, list, id, child) ==
    IF child \in s.submit_order_commands THEN s
    ELSE create_new_submit_order(s, list, child)

\* Mutant: the child is submitted whether or not it has been.
trigger_child_again(s, list, id, child) ==
    LET parent_filled_qty == s.orders[id].filled_qty
        sized == IF parent_filled_qty # s.orders[child].leaves_qty
                 THEN modify_order_quantity(s, child, parent_filled_qty) ELSE s
    IN create_new_submit_order(sized, list, child)

\* The branch of handle_order_filled for one child of an OTO order.
trigger_child(s, list, id, child) ==
    LET parent_filled_qty == s.orders[id].filled_qty
        sized == IF parent_filled_qty # s.orders[child].leaves_qty
                 THEN modify_order_quantity(s, child, parent_filled_qty) ELSE s
    IN IF child \in s.submit_order_commands THEN sized
       ELSE create_new_submit_order(sized, list, child)

\* Mutant: the orders of a group are only told when one of them is closed.
follow_order_closed(s, list, id, linked) ==
    IF is_closed(s.orders[id]) THEN cancel_order(s, linked) ELSE s

\* The branches of handle_contingencies for one order linked to order id.
follow_order(s, list, id, linked) ==
    LET o == s.orders[id]
        c == s.orders[linked]
        type == list[id].contingency
        cancels == is_closed(o) /\ (type = "Oto" => o.filled_qty = 0)
        quantity == IF type = "Oto" THEN o.filled_qty ELSE o.leaves_qty
        modifies == \/ type = "Oto" /\ quantity > 0 /\ quantity # c.quantity
                    \/ type = "Ouo" /\ quantity # c.leaves_qty
    IN CASE type # "NoContingency" /\ cancels -> cancel_order(s, linked)
         [] ~cancels /\ modifies -> modify_order_quantity(s, linked, quantity)
         [] OTHER -> s

\* The branch of handle_contingencies_update for one order linked to order id.
follow_quantity(s, list, id, linked) ==
    LET quantity == s.orders[id].quantity
    IN IF /\ quantity > 0
          /\ list[id].contingency \in {"Oto", "Oco"}
          /\ quantity # s.orders[linked].quantity
       THEN modify_order_quantity(s, linked, quantity)
       ELSE s

\* The linked orders that the manager manages, in the order of the list.
managed_linked(s, list, id) ==
    SelectSeq(list[id].linked,
              LAMBDA linked : linked # id /\ should_manage_order(s.orders[linked]))

handle_contingencies(s, list, id) ==
    FoldLeft(LAMBDA t, linked : follow_order(t, list, id, linked),
             s, managed_linked(s, list, id))

handle_contingencies_update(s, list, id) ==
    FoldLeft(LAMBDA t, linked : follow_quantity(t, list, id, linked),
             s, managed_linked(s, list, id))

\* Mutant: the children wait until the parent is completely filled.
handle_order_filled_full(s, list, id) ==
    CASE list[id].contingency = "Oto" /\ is_closed(s.orders[id]) ->
           FoldLeft(LAMBDA t, child : trigger_child(t, list, id, child),
                    s, managed_linked(s, list, id))
      [] list[id].contingency = "Oco" ->
           FoldLeft(LAMBDA t, linked : cancel_order(t, linked), s, managed_linked(s, list, id))
      [] list[id].contingency = "Ouo" -> handle_contingencies(s, list, id)
      [] OTHER -> s

\* Mutant: an order that starts to fill leaves the others of its group alone.
handle_order_filled_last(s, list, id) ==
    CASE list[id].contingency = "Oto" ->
           FoldLeft(LAMBDA t, child : trigger_child(t, list, id, child),
                    s, managed_linked(s, list, id))
      [] list[id].contingency \in {"Oco", "Ouo"} -> handle_contingencies(s, list, id)
      [] OTHER -> s

handle_order_filled(s, list, id) ==
    CASE list[id].contingency = "Oto" ->
           FoldLeft(LAMBDA t, child : trigger_child(t, list, id, child),
                    s, managed_linked(s, list, id))
      [] list[id].contingency = "Oco" ->
           FoldLeft(LAMBDA t, linked : cancel_order(t, linked), s, managed_linked(s, list, id))
      [] list[id].contingency = "Ouo" -> handle_contingencies(s, list, id)
      [] OTHER -> s

\* Mutant: a rejection is not among the events that reach the linked orders.
handle_event_unrejected(s, list, id, e) ==
    CASE e.type \in {"Canceled", "Expired"} -> handle_contingencies(s, list, id)
      [] e.type = "Updated" -> handle_contingencies_update(s, list, id)
      [] e.type = "Filled" -> handle_order_filled(s, list, id)
      [] OTHER -> s

\* OrderManager::handle_event.
handle_event(s, list, id, e) ==
    CASE e.type \in {"Rejected", "Canceled", "Expired"} -> handle_contingencies(s, list, id)
      [] e.type = "Updated" -> handle_contingencies_update(s, list, id)
      [] e.type = "Filled" -> handle_order_filled(s, list, id)
      [] OTHER -> s

\* OrderEmulator::on_event, called after the event has changed the cached order.
on_event(s, list, id, e) ==
    LET managed == handle_event(s, list, id, e)
    IN IF is_closed(managed.orders[id])
       THEN [managed EXCEPT !.matching_core = @ \ {id}] ELSE managed
=============================================================================
