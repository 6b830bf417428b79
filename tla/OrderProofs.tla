----------------------------- MODULE OrderProofs -----------------------------
(***************************************************************************)
(* Proofs about module Order, for every set of order types, quantities,    *)
(* trade ids and venue order ids and every width RawMax of a quantity.     *)
(*                                                                         *)
(* The inductive invariant is the conjunction of the type invariant with   *)
(* three of the invariants the model checker checks.  They are needed      *)
(* together: the status a rejected request restores is a status (and not   *)
(* None) only because PendingRemembersFirm holds; the fill handler's       *)
(* `overfill_qty` stays below RawMax only because OverfillIsTheExcess says *)
(* that it is 0 before; its leaves are right because they were.  The last  *)
(* theorem, that each trade counts once, has an invariant of its own: the  *)
(* filled quantity is the sum over the fills, which have distinct trades.  *)
(***************************************************************************)
EXTENDS Order, CoreLemmas

Working == {"Submitted", "Accepted", "Triggered", "PartiallyFilled"}

Events ==
    [type : PlainEventType]
    \cup [type : {"Accepted"}, venue_order_id : VenueOrderIds]
    \cup [type : {"Updated"}, quantity : Quantities, venue_order_id : VenueOrderIds \cup {None}]
    \cup [type : {"Filled"}, trade_id : TradeIds, last_qty : Quantities,
          venue_order_id : VenueOrderIds, position_id : PositionIds]

\* The parts of the invariant that speak of the order alone, for any order.
Accounts(o) ==
    /\ o.leaves_qty = saturating_sub(o.quantity, o.filled_qty)
    /\ o.overfill_qty = IF o.status = "Filled" THEN o.filled_qty - o.quantity ELSE 0
    /\ is_closed(o) => o.ts_closed

\* The history variable says what its name does.
FirmIsLatest == order.status \notin Pending => firm = order.status

\* Every handler that closes the order records when.
ClosedHasTimestamp == is_closed(order) => order.ts_closed

IInv ==
    /\ TypeOK
    /\ FirmIsLatest
    /\ PendingRemembersFirm
    /\ LeavesAreTheRest
    /\ OverfillIsTheExcess
    /\ ClosedHasTimestamp

-----------------------------------------------------------------------------
\* What the proofs use of the table OrderStatus::transition: it leads to statuses; a
\* request is only accepted while the order works at the venue; only a fill fills; no
\* event leaves Filled.
LEMMA TransitionStatus ==
    ASSUME NEW s \in DOMAIN transition, NEW t \in DOMAIN transition[s]
    PROVE  /\ s # "Filled"
           /\ transition[s][t] \in OrderStatus
           /\ transition[s][t] \in Pending => s \in Working \cup Pending
           /\ transition[s][t] = "Filled" => t = "Filled"
           /\ t \in {"ModifyRejected", "CancelRejected"} => s \in Pending
           /\ t = "Updated" => transition[s][t] = s
           /\ t # "Initialized"
           /\ transition[s][t] \in {"Denied", "Rejected", "Canceled", "Expired"} =>
                 t \in {"Denied", "Rejected", "Canceled", "Expired"}
           /\ s \in {"Denied", "Rejected", "Canceled", "Expired"} =>
                 s = "Canceled" /\ t = "Filled"
BY SMTT(30) DEF transition, OrderStatus, Pending, Working

\* OrderCore::apply first saves the status: of a Pending order nothing changes, of any
\* other one at most `previous_status`.
LEMMA SavePreviousKeeps ==
    ASSUME NEW o \in Orders, NEW e \in Events
    PROVE  /\ SavePrevious(o, e) \in Orders
           /\ o.status \in Pending => SavePrevious(o, e) = o
           /\ Accounts(o) => Accounts(SavePrevious(o, e))
           /\ SavePrevious(o, e).status = o.status
           /\ SavePrevious(o, e).overfill_qty = o.overfill_qty
           /\ o.status \notin Pending =>
                 \/ e.type \in {"ModifyRejected", "CancelRejected", "Initialized"}
                 \/ SavePrevious(o, e).previous_status = o.status
BY DEF SavePrevious, Orders, Accounts, is_closed

\* The handler of every event but OrderFilled and OrderUpdated leaves the quantities alone.
LEMMA SimpleHandlers ==
    ASSUME NEW o \in Orders, NEW e \in Events, e.type \notin {"Updated", "Filled"},
           e.type \in {"ModifyRejected", "CancelRejected"} => o.previous_status \in OrderStatus
    PROVE  /\ Handled(o, e) \in Orders
           /\ Handled(o, e).quantity = o.quantity
           /\ Handled(o, e).filled_qty = o.filled_qty
           /\ Handled(o, e).leaves_qty = o.leaves_qty
           /\ Handled(o, e).overfill_qty = o.overfill_qty
           /\ Handled(o, e).previous_status = o.previous_status
           /\ e.type \in {"Denied", "Rejected", "Canceled", "Expired"} => Handled(o, e).ts_closed
           /\ Handled(o, e).status = IF e.type \in {"ModifyRejected", "CancelRejected"}
                                     THEN o.previous_status ELSE o.status
<1>1. CASE e.type \in {"Denied", "Rejected", "Canceled", "Expired"}
  BY <1>1 DEF Handled, closed, Orders
<1>2. CASE e.type = "Released"
  BY <1>2 DEF Handled, Orders
<1>3. CASE e.type = "Accepted"
  <2>1. e.venue_order_id \in VenueOrderIds
    BY <1>3 DEF Events, PlainEventType
  <2> QED
    BY <1>3, <2>1 DEF Handled, accepted, Orders
<1>4. CASE e.type \in {"ModifyRejected", "CancelRejected"}
  BY <1>4 DEF Handled, rejected_request, Orders
<1>5. CASE e.type \in {"Initialized", "Emulated", "Submitted", "PendingUpdate",
                      "PendingCancel", "Triggered"}
  BY <1>5 DEF Handled
<1> QED
  BY <1>1, <1>2, <1>3, <1>4, <1>5 DEF Events, PlainEventType

\* OrderUpdated replaces the quantity and derives the leaves from it.
LEMMA UpdatedHandler ==
    ASSUME NEW o \in Orders, NEW e \in Events, e.type = "Updated"
    PROVE  /\ Handled(o, e) \in Orders
           /\ Handled(o, e).leaves_qty =
                saturating_sub(Handled(o, e).quantity, Handled(o, e).filled_qty)
           /\ Handled(o, e).filled_qty = o.filled_qty
           /\ Handled(o, e).overfill_qty = o.overfill_qty
           /\ Handled(o, e).previous_status = o.previous_status
           /\ Handled(o, e).status =
                IF o.status = "PendingUpdate" /\ o.previous_status # None
                THEN o.previous_status ELSE o.status
<1>1. e.quantity \in Quantities /\ e.venue_order_id \in VenueOrderIds \cup {None}
  BY DEF Events, PlainEventType
<1>2. e.quantity \in 1 .. RawMax
  BY <1>1, OrderAssumption
<1>3. saturating_sub(e.quantity, o.filled_qty) \in 0 .. RawMax
  BY <1>2, RawMaxAssumption DEF saturating_sub, Orders
<1> DEFINE stat == IF o.status = "PendingUpdate" /\ o.previous_status # None
                   THEN o.previous_status ELSE o.status
           renamed == e.venue_order_id \notin {None, o.venue_order_id}
           vid == IF renamed THEN e.venue_order_id ELSE o.venue_order_id
           vids == IF renamed THEN o.venue_order_ids \cup {e.venue_order_id}
                   ELSE o.venue_order_ids
           rest == saturating_sub(e.quantity, o.filled_qty)
<1>4. stat \in OrderStatus /\ vid \in VenueOrderIds \cup {None} /\ vids \in SUBSET VenueOrderIds
  BY <1>1 DEF Orders
<1>5. Handled(o, e) =
        [o EXCEPT !.status = stat, !.venue_order_id = vid, !.venue_order_ids = vids,
                  !.quantity = e.quantity, !.leaves_qty = rest]
  BY DEF Handled, updated
<1>6. rest = saturating_sub(e.quantity, o.filled_qty) /\ rest \in 0 .. RawMax
  BY <1>3
<1> HIDE DEF stat, vid, vids, rest
<1>7. Handled(o, e) \in Orders
  BY <1>1, <1>4, <1>5, <1>6, ZenonT(60) DEF Orders
<1>8. /\ Handled(o, e).leaves_qty = rest
      /\ Handled(o, e).quantity = e.quantity
      /\ Handled(o, e).filled_qty = o.filled_qty
      /\ Handled(o, e).overfill_qty = o.overfill_qty
      /\ Handled(o, e).previous_status = o.previous_status
      /\ Handled(o, e).status = stat
  BY <1>5 DEF Orders
<1> QED
  BY <1>6, <1>7, <1>8 DEF stat

\* OrderFilled: the leaves stay the rest of the order, also where the sum saturates, and
\* the overfill of an order that had none is its excess.
LEMMA FilledHandler ==
    ASSUME NEW o \in Orders, NEW e \in Events, e.type = "Filled",
           o.leaves_qty = saturating_sub(o.quantity, o.filled_qty), o.overfill_qty = 0
    PROVE  /\ Handled(o, e) \in Orders
           /\ Accounts(Handled(o, e))
           /\ Handled(o, e).status \in {"PartiallyFilled", "Filled"}
<1> DEFINE n == saturating_add(o.filled_qty, e.last_qty)
<1>1. /\ e.last_qty \in 1 .. RawMax /\ e.last_qty \in Quantities /\ e.trade_id \in TradeIds
      /\ e.venue_order_id \in VenueOrderIds /\ e.position_id \in PositionIds
  BY OrderAssumption DEF Events, PlainEventType
<1>2. o.quantity \in 1 .. RawMax /\ o.filled_qty \in 0 .. RawMax
  BY OrderAssumption DEF Orders
<1>3. n \in 0 .. RawMax
  BY <1>1, <1>2, RawMaxAssumption DEF saturating_add
<1>4. saturating_sub(o.leaves_qty, e.last_qty) = saturating_sub(o.quantity, n)
  BY <1>1, <1>2, RawMaxAssumption DEF saturating_sub, saturating_add
<1>5. saturating_sub(o.quantity, n) \in 0 .. RawMax
  BY <1>2, <1>3, RawMaxAssumption DEF saturating_sub
<1>6. n > o.quantity => saturating_add(0, n - o.quantity) = n - o.quantity
  BY <1>2, <1>3, RawMaxAssumption DEF saturating_add
<1> DEFINE over == IF n > o.quantity THEN saturating_add(o.overfill_qty, n - o.quantity)
                   ELSE o.overfill_qty
           stat == IF n >= o.quantity THEN "Filled" ELSE "PartiallyFilled"
           done == IF n >= o.quantity THEN TRUE ELSE o.ts_closed
           fls  == o.fills \cup {[trade_id |-> e.trade_id, last_qty |-> e.last_qty]}
           rest == saturating_sub(o.leaves_qty, e.last_qty)
<1>7. /\ over \in 0 .. RawMax
      /\ over = IF stat = "Filled" THEN n - o.quantity ELSE 0
      /\ stat \in OrderStatus
      /\ stat \in {"PartiallyFilled", "Filled"}
  BY <1>2, <1>3, <1>6, RawMaxAssumption DEF OrderStatus
<1>8. done \in BOOLEAN
  BY DEF Orders
<1>8a. stat = "Filled" => done
  OBVIOUS
<1>9. fls \in SUBSET Fills
  BY <1>1 DEF Orders, Fills
<1>10. rest \in 0 .. RawMax /\ rest = saturating_sub(o.quantity, n)
  BY <1>4, <1>5
<1>11. Handled(o, e) =
         [o EXCEPT !.overfill_qty = over, !.status = stat, !.ts_closed = done,
                   !.venue_order_id = e.venue_order_id, !.position_id = e.position_id,
                   !.fills = fls, !.filled_qty = n, !.leaves_qty = rest,
                   !.ts_accepted = TRUE]
  BY DEF Handled, filled
<1> HIDE DEF n, over, stat, done, fls, rest
<1>12. Handled(o, e) \in Orders
  BY <1>1, <1>3, <1>7, <1>8, <1>9, <1>10, <1>11, ZenonT(60) DEF Orders
<1>13. Accounts(Handled(o, e))
  BY <1>7, <1>8a, <1>10, <1>11 DEF Orders, Accounts, is_closed
<1>14. Handled(o, e).status = stat
  BY <1>11 DEF Orders
<1> QED
  BY <1>7, <1>12, <1>13, <1>14

-----------------------------------------------------------------------------
\* A new order satisfies the invariant.
LEMMA InitIInv == Init => IInv
<1> SUFFICES ASSUME NEW t \in OrderTypes, NEW q \in Quantities, NEW emulated \in BOOLEAN,
                    order = NewOrder(t, q, emulated), firm = "Initialized"
             PROVE  IInv
  BY DEF Init
<1>1. q \in 1 .. RawMax
  BY OrderAssumption
<1>2. TypeOK
  BY <1>1, RawMaxAssumption DEF TypeOK, Orders, NewOrder, OrderStatus, OrderEventType, PlainEventType
<1>3. PendingRemembersFirm /\ FirmIsLatest
  BY DEF PendingRemembersFirm, FirmIsLatest, NewOrder, Pending
<1>4. LeavesAreTheRest /\ OverfillIsTheExcess
  BY <1>1 DEF LeavesAreTheRest, OverfillIsTheExcess, NewOrder, saturating_sub
<1>5. ClosedHasTimestamp
  BY DEF ClosedHasTimestamp, NewOrder, is_closed
<1> QED
  BY <1>2, <1>3, <1>4, <1>5 DEF IInv

\* Whatever event an order receives, in whatever state, the invariant is preserved.
LEMMA DeliverIInv ==
    ASSUME IInv, NEW e \in Events, Deliver(e)
    PROVE  IInv'
<1> DEFINE saved == SavePrevious(order, e)
           moved == [saved EXCEPT !.status = transition[order.status][e.type]]
           handled == Handled(moved, e)
<1>1. order \in Orders /\ firm \in OrderStatus /\ Accounts(order)
  BY DEF IInv, TypeOK, LeavesAreTheRest, OverfillIsTheExcess, ClosedHasTimestamp, Accounts
<1>2. /\ saved \in Orders
      /\ order.status \in Pending => saved = order
      /\ Accounts(saved)
      /\ saved.status = order.status
      /\ saved.overfill_qty = order.overfill_qty
      /\ order.status \notin Pending =>
            \/ e.type \in {"ModifyRejected", "CancelRejected", "Initialized"}
            \/ saved.previous_status = order.status
  BY <1>1, SavePreviousKeeps
<1>3. SUFFICES /\ order' \in Orders
               /\ Accounts(order')
               /\ order'.status \in Pending =>
                     order'.previous_status = firm /\ firm \in Working
  <2>1. /\ firm' \in OrderStatus
        /\ order'.status \in Pending => firm' = firm
        /\ FirmIsLatest'
    BY <1>1, <1>3 DEF Deliver, Orders, FirmIsLatest
  <2> QED
    BY <1>3, <2>1 DEF IInv, TypeOK, PendingRemembersFirm, LeavesAreTheRest,
       OverfillIsTheExcess, ClosedHasTimestamp, Accounts, Working
<1>4. CASE ~Applies(saved, e)
  <2>1. order' = saved
    BY <1>4 DEF Deliver, apply
  <2> QED
    BY <1>1, <1>2, <2>1 DEF IInv, PendingRemembersFirm, Working
<1>5. CASE Applies(saved, e)
  <2>1. order' = [handled EXCEPT !.last_event = e.type]
    BY <1>5 DEF Deliver, apply
  <2>2. /\ order.status \in DOMAIN transition
        /\ e.type \in DOMAIN transition[order.status]
    BY <1>2, <1>5 DEF Applies
  <2>3. e.type \in OrderEventType
    BY DEF Events, OrderEventType
  <2> HIDE DEF saved
  <2>4. /\ moved \in Orders
        /\ moved.status = transition[order.status][e.type]
        /\ moved.previous_status = saved.previous_status
        /\ moved.quantity = saved.quantity
        /\ moved.filled_qty = saved.filled_qty
        /\ moved.leaves_qty = saved.leaves_qty
        /\ moved.overfill_qty = saved.overfill_qty
    BY <1>2, <2>2, TransitionStatus DEF Orders
  <2>5. saved.overfill_qty = 0
    BY <1>1, <1>2, <2>2, TransitionStatus, SMTT(20) DEF Accounts
  <2>6. SUFFICES /\ handled \in Orders
                 /\ Accounts(handled)
                 /\ handled.status \in Pending =>
                       handled.previous_status = firm /\ firm \in Working
    BY <2>1, <2>3, <2>6 DEF Orders, Accounts, is_closed
  <2> HIDE DEF moved
  <2>7. CASE e.type = "Filled"
    BY <1>2, <2>4, <2>5, <2>7, FilledHandler DEF Accounts, Pending
  <2>8. CASE e.type = "Updated"
    BY <1>1, <1>2, <2>2, <2>4, <2>5, <2>8, UpdatedHandler, TransitionStatus
    DEF Accounts, Pending, IInv, PendingRemembersFirm, Working, is_closed
  <2>9. CASE e.type \notin {"Filled", "Updated"}
    <3>1. e.type \in {"ModifyRejected", "CancelRejected"} =>
             saved.previous_status \in Working /\ saved.previous_status \in OrderStatus
      BY <1>1, <1>2, <2>2, TransitionStatus DEF IInv, PendingRemembersFirm, Working
    <3>2. /\ handled \in Orders
          /\ Accounts(handled)
          /\ handled.previous_status = saved.previous_status
          /\ handled.status = IF e.type \in {"ModifyRejected", "CancelRejected"}
                              THEN saved.previous_status
                              ELSE transition[order.status][e.type]
      BY <1>2, <2>2, <2>4, <2>5, <2>9, <3>1, SimpleHandlers, TransitionStatus
      DEF Accounts, Working, is_closed
    <3>3. ASSUME handled.status \in Pending
          PROVE  saved.previous_status = firm /\ firm \in Working
      <4>1. /\ e.type \notin {"ModifyRejected", "CancelRejected"}
            /\ transition[order.status][e.type] \in Pending
        BY <3>1, <3>2, <3>3 DEF Working, Pending
      <4>2. order.status \in Working \cup Pending /\ e.type # "Initialized"
        BY <2>2, <4>1, TransitionStatus
      <4> QED
        BY <1>2, <4>1, <4>2 DEF IInv, PendingRemembersFirm, FirmIsLatest, Working
    <3> QED
      BY <3>2, <3>3
  <2> QED
    BY <2>7, <2>8, <2>9
<1> QED
  BY <1>4, <1>5

\* Every step of the order keeps the invariant: each disjunct of Next delivers an event.
LEMMA NextIInv == IInv /\ [Next]_vars => IInv'
<1> SUFFICES ASSUME IInv, [Next]_vars PROVE IInv'
  OBVIOUS
<1>1. CASE UNCHANGED vars
  BY <1>1 DEF IInv, TypeOK, FirmIsLatest, PendingRemembersFirm, LeavesAreTheRest,
     OverfillIsTheExcess, ClosedHasTimestamp, vars
<1>2. ASSUME NEW t \in PlainEventType, Plain(t) PROVE IInv'
  <2>1. [type |-> t] \in Events
    BY DEF Events
  <2> QED
    BY <1>2, <2>1, DeliverIInv DEF Plain
<1>3. ASSUME NEW v \in VenueOrderIds, Accept(v) PROVE IInv'
  <2>1. [type |-> "Accepted", venue_order_id |-> v] \in Events
    BY DEF Events
  <2> QED
    BY <1>3, <2>1, DeliverIInv DEF Accept
<1>4. ASSUME NEW q \in Quantities, NEW v \in VenueOrderIds \cup {None}, Update(q, v)
      PROVE  IInv'
  <2>1. [type |-> "Updated", quantity |-> q, venue_order_id |-> v] \in Events
    BY DEF Events
  <2> QED
    BY <1>4, <2>1, DeliverIInv DEF Update
<1>5. ASSUME NEW t \in TradeIds, NEW q \in Quantities, NEW v \in VenueOrderIds,
             NEW p \in PositionIds, Fill(t, q, v, p)
      PROVE  IInv'
  <2>1. [type |-> "Filled", trade_id |-> t, last_qty |-> q,
         venue_order_id |-> v, position_id |-> p] \in Events
    BY DEF Events
  <2> QED
    BY <1>5, <2>1, DeliverIInv DEF Fill
<1> QED
  BY <1>1, <1>2, <1>3, <1>4, <1>5 DEF Next

\* The fields of an order always hold values of their types, whatever events arrive:
\* in particular no rejected request ever puts None into its status.
THEOREM OrderTypeCorrect == Spec => []TypeOK
<1>1. IInv => TypeOK
  BY DEF IInv
<1> QED
  BY <1>1, InitIInv, NextIInv, PTL DEF Spec

\* A rejected modify or cancel returns the order to its last firm status.
THEOREM RequestsRestoreFirm == Spec => []PendingRemembersFirm
<1>1. IInv => PendingRemembersFirm
  BY DEF IInv
<1> QED
  BY <1>1, InitIInv, NextIInv, PTL DEF Spec

\* The leaves never drift from the quantity and what was filled of it, and the accumulated
\* overfill is the order's excess.
THEOREM QuantitiesCorrect == Spec => []QuantitiesAgree
<1>1. IInv => QuantitiesAgree
  BY DEF IInv, QuantitiesAgree
<1> QED
  BY <1>1, InitIInv, NextIInv, PTL DEF Spec

\* The trade a fill brings is new to an order the fill is applied to.
LEMMA FilledAddsTrade ==
    ASSUME NEW o \in Orders, NEW e \in Events, e.type = "Filled", Applies(o, e),
           NEW s \in OrderStatus
    PROVE  trade_ids(Handled([o EXCEPT !.status = s], e)) # trade_ids(o)
<1>1. e.trade_id \notin trade_ids(o)
  BY DEF Applies
<1>2. [trade_id |-> e.trade_id, last_qty |-> e.last_qty]
        \in Handled([o EXCEPT !.status = s], e).fills
  BY DEF Handled, filled, Orders
<1>3. e.trade_id \in trade_ids(Handled([o EXCEPT !.status = s], e))
  BY <1>2 DEF trade_ids
<1> QED
  BY <1>1, <1>3

\* A closed order only ever changes by a new trade on a canceled one.
THEOREM ClosedOrdersStayClosed == Spec => ClosedStaysUnlessFilled
<1> DEFINE Kept == is_closed(order) =>
              /\ order.ts_closed
              /\ \/ [order' EXCEPT !.previous_status = order.previous_status] = order
                 \/ order.status = "Canceled" /\ trade_ids(order) # trade_ids(order')
<1>1. ASSUME IInv, is_closed(order), NEW e \in Events, Deliver(e) PROVE Kept
  <2> DEFINE saved == SavePrevious(order, e)
             moved == [saved EXCEPT !.status = transition[order.status][e.type]]
  <2>1. order \in Orders /\ order.ts_closed
    BY <1>1 DEF IInv, TypeOK, ClosedHasTimestamp
  <2>2. /\ saved \in Orders
        /\ saved.status = order.status
        /\ saved.fills = order.fills
        /\ [saved EXCEPT !.previous_status = order.previous_status] = order
    BY <2>1 DEF SavePrevious, Orders
  <2>3. CASE ~Applies(saved, e)
    BY <1>1, <2>1, <2>2, <2>3 DEF Deliver, apply
  <2>4. CASE Applies(saved, e)
    <3>1. /\ order.status \in DOMAIN transition
          /\ e.type \in DOMAIN transition[order.status]
      BY <2>2, <2>4 DEF Applies
    <3>2. order.status = "Canceled" /\ e.type = "Filled"
      BY <1>1, <3>1, TransitionStatus DEF is_closed
    <3>3. transition[order.status][e.type] \in OrderStatus
      BY <3>1, TransitionStatus
    <3>4. order' = [Handled(moved, e) EXCEPT !.last_event = e.type]
      BY <1>1, <2>4 DEF Deliver, apply
    <3>5. trade_ids(Handled(moved, e)) # trade_ids(saved)
      BY <2>2, <2>4, <3>2, <3>3, FilledAddsTrade
    <3>6. trade_ids(order') = trade_ids(Handled(moved, e))
      BY <2>2, <3>2, <3>4 DEF trade_ids, Handled, filled, Orders
    <3>7. trade_ids(saved) = trade_ids(order)
      BY <2>2 DEF trade_ids
    <3> QED
      BY <2>1, <3>2, <3>5, <3>6, <3>7
  <2> QED
    BY <2>3, <2>4
<1>2. ASSUME IInv, [Next]_vars PROVE [Kept]_vars
  <2>1. CASE UNCHANGED vars
    BY <2>1
  <2>2. CASE Next
    <3>1. PICK e \in Events : Deliver(e)
      BY <2>2 DEF Next, Plain, Accept, Update, Fill, Events
    <3> QED
      BY <1>1, <1>2, <3>1
  <2> QED
    BY <1>2, <2>1, <2>2
<1> QED
  BY <1>2, InitIInv, NextIInv, PTL DEF Spec, ClosedStaysUnlessFilled

-----------------------------------------------------------------------------
\* The sum of the quantities of a set of fills.
Filled(fills) == SumFunctionOnSet([f \in fills |-> f.last_qty], fills)

\* EachTradeCountedOnce, of any order, whose fills are finitely many.
Counted(o) ==
    /\ IsFiniteSet(o.fills)
    /\ \A f, g \in o.fills : f.trade_id = g.trade_id => f = g
    /\ o.filled_qty = Filled(o.fills)

\* One more fill adds its quantity to the sum.
LEMMA FilledPlus ==
    ASSUME NEW fills \in SUBSET Fills, IsFiniteSet(fills), NEW f \in Fills, f \notin fills
    PROVE  /\ Filled(fills) \in Int
           /\ Filled(fills \cup {f}) = Filled(fills) + f.last_qty
<1> DEFINE more == fills \cup {f}
           w == [x \in fills |-> x.last_qty]
           v == [x \in more |-> x.last_qty]
<1>1. \A x \in more : x.last_qty \in Int
  <2>1. \A x \in more : x.last_qty \in Quantities
    BY DEF Fills
  <2>2. \A x \in more : x.last_qty \in 1 .. RawMax
    BY <2>1, OrderAssumption
  <2> QED BY <2>2
<1>2. IsFiniteSet(more) /\ more \ {f} = fills
  BY FS_AddElement
<1>3. /\ \A x \in more : v[x] \in Int
      /\ \A x \in fills : w[x] \in Int /\ w[x] = v[x]
      /\ v[f] = f.last_qty
  BY <1>1
<1> HIDE DEF w, v
<1>4. SumFunctionOnSet(v, more) = v[f] + SumFunctionOnSet(v, more \ {f})
  BY <1>2, <1>3, SumWithout
<1>5. SumFunctionOnSet(w, fills) = SumFunctionOnSet(v, fills) /\ SumFunctionOnSet(w, fills) \in Int
  BY <1>3, SumSame, SumType
<1>6. Filled(fills) = SumFunctionOnSet(w, fills) /\ Filled(more) = SumFunctionOnSet(v, more)
  BY DEF Filled, w, v
<1> HIDE DEF more
<1>7. f.last_qty \in Int
  BY <1>1 DEF more
<1>8. Filled(more) = f.last_qty + Filled(fills)
  BY <1>2, <1>3, <1>4, <1>5, <1>6
<1>9. Filled(fills) \in Int
  BY <1>5, <1>6
<1> QED BY <1>7, <1>8, <1>9 DEF more

\* Only a fill changes the fills and the filled quantity.
LEMMA OthersKeepFills ==
    ASSUME NEW o \in Orders, NEW e \in Events, e.type # "Filled"
    PROVE  Handled(o, e).fills = o.fills /\ Handled(o, e).filled_qty = o.filled_qty
<1>1. CASE e.type \in {"Denied", "Rejected", "Canceled", "Expired"}
  BY <1>1 DEF Handled, closed, Orders
<1>2. CASE e.type = "Released"
  BY <1>2 DEF Handled, Orders
<1>3. CASE e.type = "Accepted"
  BY <1>3 DEF Handled, accepted, Orders
<1>4. CASE e.type \in {"ModifyRejected", "CancelRejected"}
  BY <1>4 DEF Handled, rejected_request, Orders
<1>5. CASE e.type = "Updated"
  BY <1>5 DEF Handled, updated, Orders
<1>6. CASE e.type \in {"Initialized", "Emulated", "Submitted", "PendingUpdate",
                      "PendingCancel", "Triggered"}
  BY <1>6 DEF Handled
<1> QED
  BY <1>1, <1>2, <1>3, <1>4, <1>5, <1>6 DEF Events, PlainEventType

\* Whatever event arrives, every trade stays counted once.
LEMMA DeliverCounted ==
    ASSUME IInv, Counted(order), NEW e \in Events, Deliver(e)
    PROVE  Counted(order')
<1> DEFINE saved == SavePrevious(order, e)
           moved == [saved EXCEPT !.status = transition[order.status][e.type]]
           handled == Handled(moved, e)
<1>1. order \in Orders
  BY DEF IInv, TypeOK
<1>2. /\ saved \in Orders /\ saved.fills = order.fills /\ saved.filled_qty = order.filled_qty
      /\ saved.status = order.status
  BY <1>1 DEF SavePrevious, Orders
<1>3. CASE ~Applies(saved, e)
  <2>1. order' = saved
    BY <1>3 DEF Deliver, apply
  <2> QED BY <1>2, <2>1 DEF Counted
<1>4. CASE Applies(saved, e)
  <2>1. order' = [handled EXCEPT !.last_event = e.type]
    BY <1>4 DEF Deliver, apply
  <2>2. transition[order.status][e.type] \in OrderStatus
    BY <1>2, <1>4, TransitionStatus DEF Applies
  <2> HIDE DEF saved
  <2>3. moved \in Orders /\ moved.fills = order.fills /\ moved.filled_qty = order.filled_qty
    BY <1>2, <2>2 DEF Orders
  <2> HIDE DEF moved
  <2>4. CASE e.type # "Filled"
    <3>1. handled.fills = order.fills /\ handled.filled_qty = order.filled_qty
      BY <2>3, <2>4, OthersKeepFills
    <3> HIDE DEF handled
    <3>2. order'.fills = handled.fills /\ order'.filled_qty = handled.filled_qty
      BY <2>1
    <3> QED BY <3>1, <3>2 DEF Counted
  <2>5. CASE e.type = "Filled"
    <3> DEFINE f == [trade_id |-> e.trade_id, last_qty |-> e.last_qty]
    <3>1. f \in Fills /\ e.last_qty \in Nat
      <4>1. e.trade_id \in TradeIds /\ e.last_qty \in Quantities
        BY <2>5 DEF Events, PlainEventType
      <4>2. e.last_qty \in 1 .. RawMax
        BY <4>1, OrderAssumption
      <4> QED BY <4>1, <4>2 DEF Fills
    <3>2. /\ handled.fills = order.fills \cup {f}
          /\ handled.filled_qty = saturating_add(order.filled_qty, e.last_qty)
      BY <2>3, <2>5 DEF Handled, filled, Orders
    <3>3. e.trade_id \notin trade_ids(order)
      BY <1>2, <1>4, <2>5 DEF Applies, trade_ids
    <3>4. \A g \in order.fills : g.trade_id # f.trade_id
      BY <3>3 DEF trade_ids
    <3>5. f.last_qty = e.last_qty
      OBVIOUS
    <3> HIDE DEF handled, f
    <3>6. order'.fills = order.fills \cup {f} /\ order'.filled_qty = handled.filled_qty
      BY <2>1, <3>2
    <3>7. f \notin order.fills
      BY <3>4
    <3>8. order.fills \in SUBSET Fills
      BY <1>1 DEF Orders
    <3>9. /\ Filled(order.fills) \in Int
          /\ Filled(order.fills \cup {f}) = Filled(order.fills) + e.last_qty
      BY <3>1, <3>5, <3>7, <3>8, FilledPlus DEF Counted
    <3>10. order'.filled_qty = Filled(order'.fills)
      <4>1. order.filled_qty + e.last_qty <= RawMax
        <5>1. ~(order.filled_qty + e.last_qty > RawMax)
          BY <1>4, <2>5 DEF Deliver, Panics, saved
        <5> QED BY <5>1, <3>1, <3>9, RawMaxAssumption DEF Counted
      <4>2. order'.filled_qty = order.filled_qty + e.last_qty
        BY <3>1, <3>2, <3>6, <3>9, <4>1, RawMaxAssumption DEF saturating_add, Counted
      <4> QED BY <3>6, <3>9, <4>2 DEF Counted
    <3>11. IsFiniteSet(order'.fills)
      BY <3>6, FS_AddElement DEF Counted
    <3>12. \A g, h \in order'.fills : g.trade_id = h.trade_id => g = h
      BY <3>4, <3>6 DEF Counted
    <3> QED BY <3>10, <3>11, <3>12 DEF Counted
  <2> QED BY <2>4, <2>5
<1> QED BY <1>3, <1>4

\* However often, late and with whatever quantity a venue redelivers its trades, the filled
\* quantity of an order is the sum over its trades, each counted once.
THEOREM TradesAlwaysCountedOnce == Spec => []EachTradeCountedOnce
<1>1. Init => Counted(order)
  <2> SUFFICES ASSUME order.fills = {}, order.filled_qty = 0 PROVE Counted(order)
    BY DEF Init, NewOrder
  <2>1. IsFiniteSet({}) /\ SumFunctionOnSet([f \in {} |-> f.last_qty], {}) = 0
    BY FS_EmptySet, SumType
  <2> QED BY <2>1 DEF Counted, Filled
<1>2. IInv /\ Counted(order) /\ [Next]_vars => Counted(order)'
  <2> SUFFICES ASSUME IInv, Counted(order), [Next]_vars PROVE Counted(order')
    BY DEF Counted
  <2>1. CASE UNCHANGED vars
    BY <2>1 DEF vars, Counted
  <2>2. CASE Next
    <3>1. PICK e \in Events : Deliver(e)
      BY <2>2 DEF Next, Plain, Accept, Update, Fill, Events
    <3> QED BY <3>1, DeliverCounted
  <2> QED BY <2>1, <2>2
<1>3. Counted(order) => EachTradeCountedOnce
  BY DEF Counted, Filled, EachTradeCountedOnce
<1> QED
  BY <1>1, <1>2, <1>3, InitIInv, NextIInv, PTL DEF Spec
=============================================================================
