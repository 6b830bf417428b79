----------------------------- MODULE LiveProofs -----------------------------
(***************************************************************************)
(* The live node, for every threshold, number of retries and quantity, and *)
(* whatever the strategy, the venue and the network do: the in-flight      *)
(* check keeps its patience; without an inferred fill the order counts     *)
(* every trade of the venue at most once; an order that is behind a status *)
(* report is brought to it; and a request that crosses no other stays      *)
(* registered until the order, which has not traded, leaves its in-flight  *)
(* status.                                                                 *)
(*                                                                         *)
(* What apply, the reconciliation of a report and the recursive            *)
(* after_events and after_fills do to the order is stated in lemmas about  *)
(* any order (Sound, Untraded), then used in one lemma per action.         *)
(***************************************************************************)
EXTENDS LiveNode, FiniteSetTheorems, SequenceTheorems, TLAPS

\* A step that names no prover is Zenon's.
USE Zenon

Rejections == {"ModifyRejected", "CancelRejected"}

\* A row of the table: the events that name the status they lead to, and those that leave
\* the order where it is.
Row(s, leads, stays) ==
    /\ s \in DOMAIN transition /\ DOMAIN transition[s] = leads \cup stays
    /\ \A t \in leads : transition[s][t] = t
    /\ \A t \in stays : transition[s][t] = s

Rows ==
    /\ DOMAIN transition = OrderStatus \ {"Denied", "Rejected", "Expired", "Filled"}
    /\ Row("Initialized", {"Denied", "Emulated", "Released", "Submitted", "Rejected", "Accepted",
                           "Canceled", "Expired", "Triggered"}, {"Updated"})
    /\ Row("Emulated", {"Canceled", "Expired", "Released"}, {"Updated"})
    /\ Row("Released", {"Submitted", "Denied", "Canceled"}, {"Updated"})
    /\ Row("Submitted", Pending \cup {"Rejected", "Canceled", "Accepted", "Filled"}, {"Updated"})
    /\ Row("Accepted", Pending \cup {"Rejected", "Canceled", "Triggered", "Expired", "Filled"},
                       {"Updated"})
    /\ Row("Canceled", {"Filled"}, {})
    /\ Row("PendingUpdate", Pending \cup {"Rejected", "Accepted", "Canceled", "Expired",
                                          "Triggered", "Filled"},
                            {"ModifyRejected", "Updated"})
    /\ Row("PendingCancel", {"PendingCancel", "Rejected", "Canceled", "Expired", "Accepted",
                             "Filled"}, {"CancelRejected"})
    /\ Row("Triggered", Pending \cup {"Rejected", "Canceled", "Expired", "Filled"}, {"Updated"})
    /\ Row("PartiallyFilled", Pending \cup {"Canceled", "Expired", "Filled", "Accepted"},
                              {"Updated"})

LEMMA TableRows == Rows
<1>1. DOMAIN transition = OrderStatus \ {"Denied", "Rejected", "Expired", "Filled"}
  BY SMT DEF transition, OrderStatus, Pending
<1>2. Row("Initialized", {"Denied", "Emulated", "Released", "Submitted", "Rejected", "Accepted",
                          "Canceled", "Expired", "Triggered"}, {"Updated"})
  BY SMT DEF transition, Row
<1>3. Row("Emulated", {"Canceled", "Expired", "Released"}, {"Updated"})
  BY SMT DEF transition, Row
<1>4. Row("Released", {"Submitted", "Denied", "Canceled"}, {"Updated"})
  BY SMT DEF transition, Row
<1>5. Row("Submitted", Pending \cup {"Rejected", "Canceled", "Accepted", "Filled"}, {"Updated"})
  BY SMT DEF transition, Row, Pending
<1>6. Row("Accepted", Pending \cup {"Rejected", "Canceled", "Triggered", "Expired", "Filled"},
                      {"Updated"})
  BY SMT DEF transition, Row, Pending
<1>7. Row("Canceled", {"Filled"}, {})
  BY SMT DEF transition, Row
<1>8. Row("PendingUpdate", Pending \cup {"Rejected", "Accepted", "Canceled", "Expired",
                                         "Triggered", "Filled"},
                           {"ModifyRejected", "Updated"})
  BY SMT DEF transition, Row, Pending
<1>9. Row("PendingCancel", {"PendingCancel", "Rejected", "Canceled", "Expired", "Accepted",
                            "Filled"}, {"CancelRejected"})
  BY SMT DEF transition, Row
<1>10. Row("Triggered", Pending \cup {"Rejected", "Canceled", "Expired", "Filled"}, {"Updated"})
  BY SMT DEF transition, Row, Pending
<1>11. Row("PartiallyFilled", Pending \cup {"Canceled", "Expired", "Filled", "Accepted"},
                              {"Updated"})
  BY SMT DEF transition, Row, Pending
<1> QED
  BY <1>1, <1>2, <1>3, <1>4, <1>5, <1>6, <1>7, <1>8, <1>9, <1>10, <1>11 DEF Rows

\* What the proofs use of the table.
LEMMA TransitionFacts ==
    ASSUME NEW s \in DOMAIN transition, NEW t \in DOMAIN transition[s]
    PROVE  /\ transition[s][t] \in OrderStatus
           /\ transition[s][t] \in Pending => t = transition[s][t] \/ s \in Pending
           /\ t \in Rejections => s \in Pending
BY TableRows, SMT DEF Rows, Row, OrderStatus, Pending, Rejections

\* The event t takes an order from status s to status n.
Leads(s, t, n) == s \in DOMAIN transition /\ t \in DOMAIN transition[s] /\ transition[s][t] = n

LEMMA LeadFacts ==
    /\ Leads("Submitted", "Accepted", "Accepted")
    /\ \A s \in {"Accepted", "PartiallyFilled"} : Leads(s, "Updated", s) /\ Leads(s, "Filled", "Filled")
    /\ \A t \in Pending : Leads("Accepted", t, t)
    /\ "Accepted" \notin DOMAIN transition["Accepted"]
    /\ transition["PartiallyFilled"]["Accepted"] = "Accepted"
BY TableRows, SMT DEF Rows, Row, Leads, Pending

\* The retries of a request and the time they took: each query but the last was left
\* unanswered for the threshold, the last one for as long as it has been out.
Paced(c) ==
    /\ c \in [age : Nat, retry_count : Nat, queried : Nat \cup {None}]
    /\ c.retry_count < inflight_max_retries
    /\ c.retry_count # 0 =>
          /\ c.queried # None
          /\ \/ c.age > c.retry_count * inflight_threshold + c.queried
             \/ c.age = Patience + 1

Tracking(m) ==
    /\ DOMAIN m = {"inflight", "retries", "activity", "recent_fills"}
    /\ m.inflight # None => Paced(m.inflight)

Inv == Tracking(manager)

\* The constants, and the products of theirs that the argument needs.
LEMMA Products ==
    /\ inflight_threshold \in Nat \ {0} /\ inflight_max_retries \in Nat \ {0}
    /\ Patience \in Nat /\ inflight_max_retries * inflight_threshold = Patience
    /\ \A r \in Nat : /\ r * inflight_threshold \in Nat
                      /\ (r + 1) * inflight_threshold = r * inflight_threshold + inflight_threshold
    /\ \A r \in Nat : r <= inflight_max_retries => r * inflight_threshold <= Patience
<1>1. inflight_threshold \in Nat \ {0} /\ inflight_max_retries \in Nat \ {0}
  BY LiveAssumption
<1> DEFINE T == inflight_threshold
           M == inflight_max_retries
<1>2. \A r \in Nat : r * T \in Nat /\ (r + 1) * T = r * T + T
  BY <1>1, SMT
<1>3. ASSUME NEW r \in Nat, r <= M
      PROVE  r * T <= M * T
  <2>1. M = r + (M - r) /\ M - r \in Nat
    BY <1>1, <1>3, SMT
  <2>2. \A a, b, c \in Nat : (a + b) * c = a * c + b * c /\ b * c >= 0
    BY SMT
  <2>3. M * T = r * T + (M - r) * T /\ (M - r) * T >= 0
    BY <1>1, <2>1, <2>2, SMT
  <2>4. (M - r) * T \in Nat /\ r * T \in Nat
    BY <1>1, <2>1, SMT
  <2> QED
    BY <2>3, <2>4, SMT
<1>4. M * T = T * M /\ M * T \in Nat
  BY <1>1, SMT
<1> QED
  BY <1>1, <1>2, <1>3, <1>4 DEF Patience

\* What the manager's operations leave of the tracking.
LEMMA TrackingKept ==
    ASSUME NEW m, Tracking(m)
    PROVE  /\ Tracking(register_inflight(m))
           /\ Tracking(record_local_activity(m))
           /\ Tracking(clear_recon_tracking(m))
           /\ \A id : Tracking(mark_fill_processed(m, id))
           /\ \A events : Tracking(Reconciled(m, events))
           /\ Tracking([m EXCEPT !.recent_fills = {}])
           /\ Tracking([m EXCEPT !.retries = @ + 1])
<1> DEFINE New == [age |-> 0, retry_count |-> 0, queried |-> None]
<1>1. Paced(New)
  BY Products, SMT DEF Paced
<1> HIDE DEF New
<1>2. register_inflight(m).inflight = New /\ DOMAIN register_inflight(m) = DOMAIN m
  BY DEF register_inflight, Tracking, New
<1>3. Tracking(register_inflight(m))
  BY <1>1, <1>2 DEF Tracking
<1>4. Tracking(clear_recon_tracking(m))
  BY DEF clear_recon_tracking, Tracking
<1>5. Tracking(record_local_activity(m))
  BY DEF record_local_activity, Tracking
<1>6. \A id : Tracking(mark_fill_processed(m, id))
  BY DEF mark_fill_processed, Tracking
<1>7. \A events : Tracking(Reconciled(m, events))
  BY DEF Reconciled, Tracking
<1>8. Tracking([m EXCEPT !.recent_fills = {}]) /\ Tracking([m EXCEPT !.retries = @ + 1])
  BY DEF Tracking
<1> QED
  BY <1>3, <1>4, <1>5, <1>6, <1>7, <1>8

\* A due check was registered more than its retries, this one included, ago.
LEMMA DueIsPaced ==
    ASSUME NEW c, Paced(c), is_due(c)
    PROVE  \/ c.age > (c.retry_count + 1) * inflight_threshold
           \/ c.age = Patience + 1
<1>1. c.retry_count \in Nat /\ c.age \in Nat
  BY Products DEF Paced
<1>2. CASE c.retry_count = 0
  BY <1>1, <1>2, Products, SMT DEF is_due
<1>3. CASE c.retry_count # 0
  <2>1. c.queried \in Nat /\ c.queried >= inflight_threshold
    BY <1>3 DEF Paced, is_due
  <2>2. \/ c.age > c.retry_count * inflight_threshold + c.queried
        \/ c.age = Patience + 1
    BY <1>3 DEF Paced
  <2>3. c.retry_count * inflight_threshold \in Nat
    BY <1>1, Products
  <2> QED
    BY <1>1, <2>1, <2>2, <2>3, Products, SMT
<1> QED
  BY <1>2, <1>3

\* A check that is repeated is one of those that Paced allows.
LEMMA RetryIsPaced ==
    ASSUME NEW c, Paced(c), is_due(c), ~gives_up(c)
    PROVE  Paced([c EXCEPT !.retry_count = @ + 1, !.queried = 0])
<1> DEFINE d == [c EXCEPT !.retry_count = @ + 1, !.queried = 0]
<1>1. /\ d \in [age : Nat, retry_count : Nat, queried : Nat \cup {None}] /\ d.age = c.age
      /\ d.retry_count = c.retry_count + 1 /\ d.queried = 0
  <2>1. c \in [age : Nat, retry_count : Nat, queried : Nat \cup {None}]
    BY DEF Paced
  <2>2. c.retry_count + 1 \in Nat /\ 0 \in Nat \cup {None}
    BY <2>1, SMT
  <2> QED
    BY <2>1, <2>2
<1> HIDE DEF d
<1>2. /\ c.retry_count \in Nat /\ c.age \in Nat /\ Patience \in Nat
      /\ c.retry_count + 1 < inflight_max_retries
  BY Products, SMT DEF Paced, gives_up
<1>3. \/ c.age > (c.retry_count + 1) * inflight_threshold
      \/ c.age = Patience + 1
  BY DueIsPaced
<1>4. \/ d.age > d.retry_count * inflight_threshold + d.queried
      \/ d.age = Patience + 1
  BY <1>1, <1>2, <1>3, Products, SMT
<1>5. d.queried # None /\ d.retry_count < inflight_max_retries
  BY <1>1, <1>2, NoneIsNoAge, SMT
<1>6. Paced(d)
  BY <1>1, <1>4, <1>5 DEF Paced
<1> QED
  BY <1>6 DEF d

\* A tick makes a check and its query older by the same.
LEMMA OlderIsPaced ==
    ASSUME NEW c, Paced(c)
    PROVE  Paced([c EXCEPT !.age = older(@, Patience),
                           !.queried = older(@, inflight_threshold - 1)])
<1> DEFINE d == [c EXCEPT !.age = older(@, Patience), !.queried = older(@, inflight_threshold - 1)]
<1>1. /\ d \in [age : Nat, retry_count : Nat, queried : Nat \cup {None}]
      /\ d.age = older(c.age, Patience) /\ d.retry_count = c.retry_count
      /\ d.queried = older(c.queried, inflight_threshold - 1)
  <2>1. c \in [age : Nat, retry_count : Nat, queried : Nat \cup {None}]
    BY DEF Paced
  <2>2. older(c.age, Patience) \in Nat /\ older(c.queried, inflight_threshold - 1) \in Nat \cup {None}
    <3>1. c.age \in Nat /\ c.queried \in Nat \cup {None}
      BY <2>1
    <3> QED
      BY <3>1, SMT DEF older
  <2> QED
    BY <2>1, <2>2
<1> HIDE DEF d
<1>2. /\ c.age \in Nat /\ c.retry_count \in 0 .. inflight_max_retries - 1
      /\ c.queried \in Nat \cup {None}
      /\ c.retry_count # 0 =>
            /\ c.queried # None
            /\ \/ c.age > c.retry_count * inflight_threshold + c.queried
               \/ c.age = Patience + 1
  BY Products, SMT DEF Paced
<1>3. d.age = IF c.age > Patience THEN c.age ELSE c.age + 1
  BY <1>1, <1>2, NoneIsNoAge DEF older
<1>4. d.queried = IF c.queried = None \/ c.queried > inflight_threshold - 1 THEN c.queried
                  ELSE c.queried + 1
  BY <1>1 DEF older
<1>5. d.age \in Nat /\ d.queried \in Nat \cup {None}
  BY <1>2, <1>3, <1>4, Products, SMT
<1>6. ASSUME c.retry_count # 0
      PROVE  /\ d.queried # None
             /\ \/ d.age > d.retry_count * inflight_threshold + d.queried
                \/ d.age = Patience + 1
  <2>1. d.queried \in Nat /\ d.queried <= c.queried + 1 /\ c.queried \in Nat
    BY <1>2, <1>4, <1>6, Products, SMT
  <2> DEFINE X == c.retry_count * inflight_threshold
  <2>2. X \in Nat /\ Patience \in Nat /\ inflight_threshold \in Nat \ {0}
    BY <1>2, Products, SMT
  <2>a. \/ c.age > X + c.queried
        \/ c.age = Patience + 1
    BY <1>2, <1>6
  <2>b. SUFFICES d.queried # None /\ (d.age > X + d.queried \/ d.age = Patience + 1)
    BY <1>1
  <2>c. X + inflight_threshold <= Patience
    <3>1. (c.retry_count + 1) * inflight_threshold <= Patience
      BY <1>2, Products, SMT
    <3> QED
      BY <1>2, <3>1, Products, SMT
  <2> HIDE DEF X
  <2>3. CASE c.age = Patience + 1
    BY <1>3, <2>1, <2>2, <2>3, NoneIsNoAge, SMT
  <2>4. CASE c.age <= Patience
    BY <1>2, <1>3, <2>1, <2>2, <2>4, <2>a, NoneIsNoAge, SMT
  <2>5. CASE c.age > Patience + 1
    <3>1. c.age > X + c.queried /\ d.age = c.age
      BY <1>2, <1>3, <2>2, <2>5, <2>a, SMT
    <3>2. d.queried = c.queried \/ d.queried <= inflight_threshold
      BY <1>4, <2>1, <2>2, SMT
    <3> QED
      BY <1>2, <2>1, <2>2, <2>5, <2>c, <3>1, <3>2, NoneIsNoAge, SMT
  <2> QED
    BY <1>2, <2>2, <2>3, <2>4, <2>5, SMT
<1> QED
  BY <1>1, <1>2, <1>5, <1>6 DEF Paced

\* Every step keeps the tracking paced.
LEMMA TrackingStep ==
    ASSUME Tracking(manager), [Next]_vars
    PROVE  Tracking(manager')
<1> USE TrackingKept
<1>1. ASSUME manager' = manager
      PROVE  Tracking(manager')
  BY <1>1 DEF Tracking
<1>2. CASE HandleCommand
  BY <1>2 DEF HandleCommand
<1>3. \A e : Tracking(Observed(manager, e))
  BY DEF Observed
<1>4. ASSUME NEW msg \in net, HandleOrderEvent(msg)
      PROVE  Tracking(manager')
  <2>1. Tracking(clear_recon_tracking(Observed(manager, msg.event)))
    BY <1>3
  <2> QED
    BY <1>3, <1>4, <2>1 DEF HandleOrderEvent
<1>5. ASSUME NEW msg \in net, HandleReport(msg)
      PROVE  Tracking(manager')
  <2>1. Tracking(record_local_activity(clear_recon_tracking(manager)))
    OBVIOUS
  <2>2. Tracking(observe_execution_report(manager, msg))
    BY <2>1 DEF observe_execution_report
  <2> QED
    BY <1>1, <1>5, <2>2 DEF HandleReport
<1>6. CASE CheckInflightOrders
  <2> DEFINE c == manager.inflight
             d == [c EXCEPT !.retry_count = @ + 1, !.queried = 0]
             retried == [manager EXCEPT !.inflight.retry_count = @ + 1, !.inflight.queried = 0,
                                        !.retries = c.retry_count + 1]
  <2>1. Paced(c) /\ is_due(c)
    BY <1>6 DEF CheckInflightOrders, Tracking
  <2>2. CASE gives_up(c)
    <3>1. manager' = Reconciled(clear_recon_tracking(manager), timeout_events(order))
      BY <1>6, <2>2 DEF CheckInflightOrders
    <3>2. Tracking(clear_recon_tracking(manager))
      OBVIOUS
    <3> QED
      BY <3>1, <3>2
  <2>3. CASE ~gives_up(c)
    <3>1. manager' = retried
      BY <1>6, <2>3 DEF CheckInflightOrders
    <3>2. Paced(d)
      BY <2>1, <2>3, RetryIsPaced
    <3>3. retried.inflight = d /\ DOMAIN retried = DOMAIN manager
      BY DEF Tracking
    <3> QED
      BY <3>1, <3>2, <3>3 DEF Tracking
  <2> QED
    BY <2>2, <2>3
<1>7. ASSUME NEW recent \in BOOLEAN, ReconcileOpenOrderReports(recent)
      PROVE  Tracking(manager')
  <2>1. Tracking(handle_missing_order(manager, recent).manager)
    BY DEF handle_missing_order
  <2>2. \E m : Tracking(m) /\ \E events : manager' = Reconciled(m, events)
    BY <1>7, <2>1 DEF ReconcileOpenOrderReports
  <2> QED
    BY <2>2
<1>8. CASE Tick
  <2> DEFINE c == manager.inflight
             d == [c EXCEPT !.age = older(@, Patience), !.queried = older(@, inflight_threshold - 1)]
  <2>1. manager'.inflight = (IF c = None THEN None ELSE d) /\ DOMAIN manager' = DOMAIN manager
    <3>1. manager'.inflight = aged(c) /\ DOMAIN manager' = DOMAIN manager
      BY <1>8 DEF Tick, Tracking
    <3> QED
      BY <3>1 DEF aged
  <2>2. ASSUME c # None
        PROVE  Paced(d)
    BY <2>2, OlderIsPaced DEF Tracking
  <2> QED
    BY <2>1, <2>2 DEF Tracking
<1>9. CASE PruneRecentFills
  BY <1>9 DEF PruneRecentFills
<1>10. ASSUME \/ \E qty \in bounds.quantities : ModifyOrder(qty)
              \/ CancelOrder
              \/ StartOpenOrderReportCheck
              \/ Environment
              \/ UNCHANGED vars
       PROVE  manager' = manager
  BY <1>10 DEF ModifyOrder, CancelOrder, Request, StartOpenOrderReportCheck, Environment,
               VenueHandles, VenueFills, VenueAnswersQuery, VenueAnswersOpenCheck, vars
<1> QED
  BY <1>1, <1>2, <1>4, <1>5, <1>6, <1>7, <1>8, <1>9, <1>10 DEF Next, Node

\* check_inflight_orders never gives up on a request before the venue has had the
\* threshold once for every retry to answer it, for every configuration.
THEOREM PatienceAlwaysKept == Spec => PatienceKept
<1>1. Init => Inv
  BY SMT DEF Init, Untracked, Tracking, Inv
<1>2. Inv /\ [Next]_vars => Inv'
  BY TrackingStep DEF Inv
<1>3. Tracking(manager) /\ CheckInflightOrders /\ manager'.inflight = None
      => manager.inflight.age > Patience
  <2> SUFFICES ASSUME Tracking(manager), CheckInflightOrders, manager'.inflight = None
               PROVE  manager.inflight.age > Patience
    OBVIOUS
  <2> DEFINE c == manager.inflight
  <2>1. Paced(c) /\ is_due(c) /\ c.age \in Nat /\ c.retry_count \in Nat
    BY Products DEF CheckInflightOrders, Tracking, Paced
  <2>2. c.age > (c.retry_count + 1) * inflight_threshold \/ c.age = Patience + 1
    BY <2>1, DueIsPaced
  <2>3. gives_up(c)
    <3> SUFFICES ASSUME ~gives_up(c)
                 PROVE  FALSE
      OBVIOUS
    <3> DEFINE d == [c EXCEPT !.retry_count = @ + 1, !.queried = 0]
    <3>1. manager'.inflight = d
      BY DEF CheckInflightOrders, Tracking
    <3>2. Paced(d)
      BY <2>1, RetryIsPaced
    <3>3. d \in [age : Nat, retry_count : Nat, queried : Nat \cup {None}]
      BY <3>2 DEF Paced
    <3> QED
      BY <3>1, <3>3, NoneIsNoCheck
  <2>4. c.retry_count + 1 = inflight_max_retries
    BY <2>1, <2>3, Products, SMT DEF gives_up, Paced
  <2>5. c.age > Patience \/ c.age = Patience + 1
    BY <2>2, <2>4, Products
  <2> QED
    BY <2>1, <2>5, Products, SMT
<1>4. Inv /\ [Next]_vars
      => [CheckInflightOrders /\ manager'.inflight = None => manager.inflight.age > Patience]_vars
  BY <1>3 DEF Inv
<1> QED
  BY <1>1, <1>2, <1>4, PTL DEF Spec, PatienceKept

-----------------------------------------------------------------------------
(* What one event does to the order. *)

Fields == {"status", "previous_status", "order_type", "quantity", "filled_qty", "leaves_qty",
           "overfill_qty", "fills", "venue_order_id", "venue_order_ids", "position_id",
           "emulation_trigger", "ts_accepted", "ts_closed", "last_event"}

\* The status that an event other than a fill leaves behind.
StatusAfter(o, e) ==
    LET saved == SavePrevious(o, e)
    IN IF ~Applies(saved, e) THEN o.status
       ELSE IF \/ e.type \in Rejections
               \/ e.type = "Updated" /\ o.status = "PendingUpdate" /\ saved.previous_status # None
       THEN saved.previous_status
       ELSE transition[o.status][e.type]

LEMMA Saved ==
    ASSUME NEW o, NEW e, DOMAIN o = Fields
    PROVE  /\ DOMAIN SavePrevious(o, e) = Fields
           /\ \A x \in Fields \ {"previous_status"} : SavePrevious(o, e)[x] = o[x]
           /\ SavePrevious(o, e).status = o.status
           /\ SavePrevious(o, e).previous_status =
                IF e.type \in Rejections \cup {"Initialized"} \/ o.status \in Pending
                THEN o.previous_status ELSE o.status
BY DEF SavePrevious, Fields, Rejections

\* Every event but a fill leaves the fills alone; only OrderUpdated changes the quantity.
LEMMA OtherEvent ==
    ASSUME NEW o, NEW e, DOMAIN o = Fields, e.type # "Filled"
    PROVE  /\ DOMAIN apply(o, e) = Fields
           /\ apply(o, e).fills = o.fills
           /\ apply(o, e).filled_qty = o.filled_qty
           /\ apply(o, e).order_type = o.order_type
           /\ o.emulation_trigger = FALSE => apply(o, e).emulation_trigger = FALSE
           /\ apply(o, e).previous_status = SavePrevious(o, e).previous_status
           /\ apply(o, e).status = StatusAfter(o, e)
           /\ apply(o, e).quantity = IF e.type = "Updated" /\ Applies(SavePrevious(o, e), e)
                                     THEN e.quantity ELSE o.quantity
           /\ \/ apply(o, e).venue_order_id = o.venue_order_id
              \/ /\ e.type \in {"Accepted", "Updated"}
                 /\ apply(o, e).venue_order_id = e.venue_order_id
<1> DEFINE saved == SavePrevious(o, e)
           s == transition[o.status][e.type]
           moved == [saved EXCEPT !.status = s]
           w == Handled(moved, e)
<1>1. /\ DOMAIN saved = Fields
      /\ \A x \in Fields \ {"previous_status"} : saved[x] = o[x]
  BY Saved
<1> HIDE DEF saved
<1>2. /\ DOMAIN moved = Fields /\ moved.status = s
      /\ moved.fills = o.fills /\ moved.filled_qty = o.filled_qty
      /\ moved.order_type = o.order_type /\ moved.emulation_trigger = o.emulation_trigger
      /\ moved.quantity = o.quantity /\ moved.previous_status = saved.previous_status
      /\ moved.venue_order_id = o.venue_order_id
  BY <1>1 DEF Fields
<1>3. CASE ~Applies(saved, e)
  <2>1. apply(o, e) = saved
    BY <1>3 DEF apply, saved
  <2> QED
    BY <1>1, <1>3, <2>1 DEF Fields, StatusAfter, saved
<1>4. CASE Applies(saved, e)
  <2>1. apply(o, e) = [w EXCEPT !.last_event = e.type]
    BY <1>4 DEF apply, saved
  <2> HIDE DEF moved
  <2>2. /\ DOMAIN w = Fields /\ w.fills = moved.fills /\ w.filled_qty = moved.filled_qty
        /\ w.order_type = moved.order_type
        /\ moved.emulation_trigger = FALSE => w.emulation_trigger = FALSE
        /\ w.previous_status = moved.previous_status
        /\ w.quantity = IF e.type = "Updated" THEN e.quantity ELSE moved.quantity
        /\ w.status = IF e.type \in Rejections THEN moved.previous_status
                      ELSE IF /\ e.type = "Updated" /\ moved.status = "PendingUpdate"
                              /\ moved.previous_status # None
                      THEN moved.previous_status ELSE moved.status
        /\ \/ w.venue_order_id = moved.venue_order_id
           \/ e.type \in {"Accepted", "Updated"} /\ w.venue_order_id = e.venue_order_id
    <3>1. CASE e.type \in {"Denied", "Rejected", "Canceled", "Expired"}
      BY <1>2, <3>1 DEF Handled, closed, Fields, Rejections
    <3>2. CASE e.type = "Released"
      BY <1>2, <3>2 DEF Handled, Fields, Rejections
    <3>3. CASE e.type = "Accepted"
      BY <1>2, <3>3 DEF Handled, accepted, Fields, Rejections
    <3>4. CASE e.type \in Rejections
      BY <1>2, <3>4 DEF Handled, rejected_request, Fields, Rejections
    <3>5. CASE e.type = "Updated"
      BY <1>2, <3>5 DEF Handled, updated, Fields, Rejections
    <3>6. CASE e.type \notin Rejections \cup {"Denied", "Rejected", "Canceled", "Expired",
                                            "Released", "Accepted", "Updated"}
      BY <1>2, <3>6 DEF Handled, Rejections
    <3> QED
      BY <3>1, <3>2, <3>3, <3>4, <3>5, <3>6
  <2> HIDE DEF w
  <2>3. e.type = "Updated" => s = o.status
    <3>1. o.status \in DOMAIN transition /\ e.type \in DOMAIN transition[o.status]
      BY <1>1, <1>4 DEF Applies, Fields
    <3> QED
      BY <3>1, SMT DEF transition
  <2>4. apply(o, e).status = w.status /\ DOMAIN apply(o, e) = Fields
        /\ \A x \in Fields \ {"last_event"} : apply(o, e)[x] = w[x]
    BY <2>1, <2>2 DEF Fields
  <2>5. w.status = StatusAfter(o, e)
    BY <1>2, <1>4, <2>2, <2>3 DEF StatusAfter, saved
  <2>6. /\ apply(o, e).fills = w.fills /\ apply(o, e).filled_qty = w.filled_qty
        /\ apply(o, e).order_type = w.order_type
        /\ apply(o, e).emulation_trigger = w.emulation_trigger
        /\ apply(o, e).previous_status = w.previous_status
        /\ apply(o, e).quantity = w.quantity
        /\ apply(o, e).venue_order_id = w.venue_order_id
    BY <2>4 DEF Fields
  <2> QED
    BY <1>2, <1>4, <2>2, <2>4, <2>5, <2>6 DEF saved
<1> QED
  BY <1>3, <1>4

\* A fill that is applied is added to the fills and to the filled quantity.
LEMMA FillEvent ==
    ASSUME NEW o, NEW e, DOMAIN o = Fields, e.type = "Filled"
    PROVE  /\ DOMAIN apply(o, e) = Fields
           /\ apply(o, e).order_type = o.order_type
           /\ apply(o, e).emulation_trigger = o.emulation_trigger
           /\ apply(o, e).quantity = o.quantity
           /\ apply(o, e).previous_status = IF o.status \in Pending THEN o.previous_status
                                            ELSE o.status
           /\ Applies(o, e) =>
                 /\ apply(o, e).fills =
                       o.fills \cup {[trade_id |-> e.trade_id, last_qty |-> e.last_qty]}
                 /\ apply(o, e).filled_qty = saturating_add(o.filled_qty, e.last_qty)
                 /\ apply(o, e).status =
                       IF saturating_add(o.filled_qty, e.last_qty) >= o.quantity
                       THEN "Filled" ELSE "PartiallyFilled"
           /\ ~Applies(o, e) =>
                 /\ apply(o, e).fills = o.fills
                 /\ apply(o, e).filled_qty = o.filled_qty
                 /\ apply(o, e).status = o.status
<1> DEFINE saved == SavePrevious(o, e)
           moved == [saved EXCEPT !.status = transition[o.status][e.type]]
           w == Handled(moved, e)
<1>1. /\ DOMAIN saved = Fields
      /\ \A x \in Fields \ {"previous_status"} : saved[x] = o[x]
      /\ saved.previous_status = IF o.status \in Pending THEN o.previous_status ELSE o.status
  BY Saved DEF Rejections
<1> HIDE DEF saved
<1>2. /\ DOMAIN moved = Fields
      /\ moved.fills = o.fills /\ moved.filled_qty = o.filled_qty
      /\ moved.order_type = o.order_type /\ moved.emulation_trigger = o.emulation_trigger
      /\ moved.quantity = o.quantity /\ moved.previous_status = saved.previous_status
  BY <1>1 DEF Fields
<1>3. Applies(saved, e) <=> Applies(o, e)
  <2>1. saved.status = o.status /\ saved.fills = o.fills /\ saved.order_type = o.order_type
    BY <1>1 DEF Fields
  <2> QED
    BY <2>1 DEF Applies, trade_ids
<1>4. CASE ~Applies(o, e)
  <2>1. apply(o, e) = saved
    BY <1>3, <1>4 DEF apply, saved
  <2> QED
    BY <1>1, <1>4, <2>1 DEF Fields
<1>5. CASE Applies(o, e)
  <2>1. apply(o, e) = [w EXCEPT !.last_event = e.type]
    BY <1>3, <1>5 DEF apply, saved
  <2> HIDE DEF moved
  <2> DEFINE new == saturating_add(moved.filled_qty, e.last_qty)
  <2>2. /\ DOMAIN w = Fields /\ w.order_type = moved.order_type
        /\ w.emulation_trigger = moved.emulation_trigger /\ w.quantity = moved.quantity
        /\ w.previous_status = moved.previous_status
        /\ w.fills = moved.fills \cup {[trade_id |-> e.trade_id, last_qty |-> e.last_qty]}
        /\ w.filled_qty = new
        /\ w.status = IF new >= moved.quantity THEN "Filled" ELSE "PartiallyFilled"
    <3>1. w = filled(moved, e)
      BY DEF Handled
    <3> HIDE DEF w
    <3> QED
      BY <1>2, <3>1 DEF filled, Fields
  <2> HIDE DEF w
  <2>3. DOMAIN apply(o, e) = Fields /\ \A x \in Fields \ {"last_event"} : apply(o, e)[x] = w[x]
    BY <2>1, <2>2 DEF Fields
  <2>4. /\ apply(o, e).fills = w.fills /\ apply(o, e).filled_qty = w.filled_qty
        /\ apply(o, e).order_type = w.order_type
        /\ apply(o, e).emulation_trigger = w.emulation_trigger
        /\ apply(o, e).previous_status = w.previous_status
        /\ apply(o, e).quantity = w.quantity /\ apply(o, e).status = w.status
    BY <2>3 DEF Fields
  <2> QED
    BY <1>1, <1>2, <1>5, <2>2, <2>3, <2>4
<1> QED
  BY <1>4, <1>5

-----------------------------------------------------------------------------
(* Events and fill reports one after the other. *)

\* A set of naturals has a least element: induction over a sequence, as the least place
\* where it would go wrong.
LEMMA LeastElement ==
    ASSUME NEW S \in SUBSET Nat, S # {}
    PROVE  \E x \in S : \A y \in S : x <= y
<1> DEFINE R == {ss \in Nat \X Nat : ss[1] < ss[2]}
<1>1. IsWellFoundedOn(R, Nat)
  BY NatLessThanWellFounded DEF OpToRel
<1>2. \A x, y \in Nat : y < x => <<y, x>> \in R
  OBVIOUS
<1> HIDE DEF R
<1>3. PICK x \in S : \A y \in S : ~ (<<y, x>> \in R)
  BY <1>1, WFMin
<1>4. \A y \in S : ~ (y < x)
  BY <1>2, <1>3
<1> QED
  BY <1>4, SMT

LEMMA AfterEvents ==
    ASSUME NEW o, NEW events, Len(events) \in Nat
    PROVE  /\ after_events(o, events)[0] = o
           /\ \A n \in 1 .. Len(events) :
                 after_events(o, events)[n] =
                    handle_event(after_events(o, events)[n - 1], events[n])
<1> DEFINE F(f, m) == [n \in 0 .. m |-> IF n = 0 THEN o ELSE handle_event(f[n - 1], events[n])]
           Bad == {m \in Nat : ~ \E f : f = F(f, m)}
           iter == CHOOSE f : f = F(f, Len(events))
<1>1. after_events(o, events) = iter
  BY DEF after_events
<1>2. ASSUME NEW m \in Bad, \A y \in Bad : m <= y
      PROVE  FALSE
  <2>1. m \in Nat /\ ~ \E f : f = F(f, m)
    OBVIOUS
  <2>2. m # 0
    <3> DEFINE f == [n \in 0 .. 0 |-> o]
    <3>1. f = F(f, 0)
      BY SMT
    <3> QED BY <2>1, <3>1
  <2>3. m - 1 \in Nat /\ m - 1 \notin Bad
    <3> HIDE DEF Bad
    <3> QED BY <1>2, <2>1, <2>2, SMT
  <2>4. PICK g : g = F(g, m - 1)
    BY <2>3
  <2> DEFINE last == handle_event(g[m - 1], events[m])
             h == [n \in 0 .. m |-> IF n < m THEN g[n] ELSE last]
  <2>5. \A n \in 0 .. m : n < m => n \in 0 .. m - 1
    BY <2>1, SMT
  <2>6. \A n \in 0 .. m : h[n] = F(h, m)[n]
    <3> TAKE n \in 0 .. m
    <3>1. CASE n = 0
      BY <2>1, <2>2, <2>4, <2>5, <3>1, SMT
    <3>2. CASE n # 0 /\ n < m
      <4>1. n \in 0 .. m - 1 /\ n - 1 \in 0 .. m /\ n - 1 < m
        BY <2>1, <3>2, SMT
      <4>2. h[n] = g[n] /\ h[n - 1] = g[n - 1]
        BY <3>2, <4>1
      <4>3. g[n] = handle_event(g[n - 1], events[n])
        BY <2>4, <3>2, <4>1
      <4> HIDE DEF h
      <4> QED BY <3>2, <4>2, <4>3
    <3>3. CASE n = m
      <4>1. m - 1 \in 0 .. m /\ m - 1 < m /\ m \in 0 .. m /\ ~(m < m)
        BY <2>1, <2>2, SMT
      <4>2. h[m] = last /\ h[m - 1] = g[m - 1]
        BY <4>1
      <4> HIDE DEF h
      <4> QED BY <2>2, <3>3, <4>2
    <3> QED BY <2>1, <3>1, <3>2, <3>3, SMT
  <2>7. h = F(h, m)
    BY <2>6
  <2> HIDE DEF h, F
  <2> QED BY <2>1, <2>7
<1>3. Bad = {}
  BY <1>2, LeastElement
<1>5. iter = F(iter, Len(events))
  <2>1. \E f : f = F(f, Len(events))
    BY <1>3
  <2> HIDE DEF F
  <2> QED BY <2>1
<1> HIDE DEF iter
<1>6. /\ iter[0] = o
      /\ \A n \in 1 .. Len(events) : iter[n] = handle_event(iter[n - 1], events[n])
  BY <1>5, SMT
<1> QED BY <1>1, <1>6

\* The same of the fill reports.
LEMMA AfterFills ==
    ASSUME NEW o, NEW fills, Len(fills) \in Nat
    PROVE  /\ after_fills(o, fills)[0] = o
           /\ \A n \in 1 .. Len(fills) :
                 after_fills(o, fills)[n] =
                    handle_events(after_fills(o, fills)[n - 1],
                                  reconcile_fill_report(after_fills(o, fills)[n - 1], fills[n]))
<1> DEFINE G(w, f) == handle_events(w, reconcile_fill_report(w, f))
           F(f, m) == [n \in 0 .. m |-> IF n = 0 THEN o ELSE G(f[n - 1], fills[n])]
           Bad == {m \in Nat : ~ \E f : f = F(f, m)}
           iter == CHOOSE f : f = F(f, Len(fills))
<1>1. after_fills(o, fills) = iter
  BY DEF after_fills
<1> HIDE DEF G
<1>2. ASSUME NEW m \in Bad, \A y \in Bad : m <= y
      PROVE  FALSE
  <2>1. m \in Nat /\ ~ \E f : f = F(f, m)
    OBVIOUS
  <2>2. m # 0
    <3> DEFINE f == [n \in 0 .. 0 |-> o]
    <3>1. f = F(f, 0)
      BY SMT
    <3> QED BY <2>1, <3>1
  <2>3. m - 1 \in Nat /\ m - 1 \notin Bad
    <3> HIDE DEF Bad
    <3> QED BY <1>2, <2>1, <2>2, SMT
  <2>4. PICK g : g = F(g, m - 1)
    BY <2>3
  <2> DEFINE last == G(g[m - 1], fills[m])
             h == [n \in 0 .. m |-> IF n < m THEN g[n] ELSE last]
  <2>5. \A n \in 0 .. m : n < m => n \in 0 .. m - 1
    BY <2>1, SMT
  <2>6. \A n \in 0 .. m : h[n] = F(h, m)[n]
    <3> TAKE n \in 0 .. m
    <3>1. CASE n = 0
      BY <2>1, <2>2, <2>4, <2>5, <3>1, SMT
    <3>2. CASE n # 0 /\ n < m
      <4>1. n \in 0 .. m - 1 /\ n - 1 \in 0 .. m /\ n - 1 < m
        BY <2>1, <3>2, SMT
      <4>2. h[n] = g[n] /\ h[n - 1] = g[n - 1]
        BY <3>2, <4>1
      <4>3. g[n] = G(g[n - 1], fills[n])
        BY <2>4, <3>2, <4>1
      <4> HIDE DEF h
      <4> QED BY <3>2, <4>2, <4>3
    <3>3. CASE n = m
      <4>1. m - 1 \in 0 .. m /\ m - 1 < m /\ m \in 0 .. m /\ ~(m < m)
        BY <2>1, <2>2, SMT
      <4>2. h[m] = last /\ h[m - 1] = g[m - 1]
        BY <4>1
      <4> HIDE DEF h
      <4> QED BY <2>2, <3>3, <4>2
    <3> QED BY <2>1, <3>1, <3>2, <3>3, SMT
  <2>7. h = F(h, m)
    BY <2>6
  <2> HIDE DEF h, F
  <2> QED BY <2>1, <2>7
<1>3. Bad = {}
  BY <1>2, LeastElement
<1>5. iter = F(iter, Len(fills))
  <2>1. \E f : f = F(f, Len(fills))
    BY <1>3
  <2> HIDE DEF F
  <2> QED BY <2>1
<1> HIDE DEF iter
<1>6. /\ iter[0] = o
      /\ \A n \in 1 .. Len(fills) : iter[n] = G(iter[n - 1], fills[n])
  BY <1>5, SMT
<1> QED BY <1>1, <1>6 DEF G

\* The handlers produce at most three events.
LEMMA FewEvents ==
    ASSUME NEW o
    PROVE  /\ handle_events(o, << >>) = o
           /\ \A a : handle_events(o, <<a>>) = handle_event(o, a)
<1>1. handle_events(o, << >>) = o
  BY AfterEvents DEF handle_events
<1>2. ASSUME NEW a
      PROVE  handle_events(o, <<a>>) = handle_event(o, a)
  BY AfterEvents, SMT DEF handle_events
<1> QED
  BY <1>1, <1>2

LEMMA TwoEvents ==
    ASSUME NEW o, NEW a, NEW b
    PROVE  handle_events(o, <<a, b>>) = handle_event(handle_event(o, a), b)
<1> DEFINE s == <<a, b>>
           g == after_events(o, s)
<1>1. Len(s) = 2 /\ s[1] = a /\ s[2] = b
  OBVIOUS
<1> HIDE DEF s
<1>2. g[0] = o /\ g[1] = handle_event(g[0], a) /\ g[2] = handle_event(g[1], b)
  <2>1. 1 \in 1 .. Len(s) /\ 2 \in 1 .. Len(s) /\ 1 - 1 = 0 /\ 2 - 1 = 1 /\ Len(s) \in Nat
    BY <1>1, SMT
  <2>2. g[0] = o /\ g[1] = handle_event(g[1 - 1], s[1]) /\ g[2] = handle_event(g[2 - 1], s[2])
    BY <2>1, AfterEvents, SMT
  <2> QED
    BY <1>1, <2>1, <2>2
<1>3. handle_events(o, s) = g[2]
  BY <1>1 DEF handle_events
<1> QED
  BY <1>2, <1>3 DEF s

LEMMA ThreeEvents ==
    ASSUME NEW o, NEW a, NEW b, NEW c
    PROVE  handle_events(o, <<a, b, c>>) =
              handle_event(handle_event(handle_event(o, a), b), c)
<1> DEFINE s == <<a, b, c>>
           g == after_events(o, s)
<1>1. Len(s) = 3 /\ s[1] = a /\ s[2] = b /\ s[3] = c
  OBVIOUS
<1> HIDE DEF s
<1>2. /\ g[0] = o /\ g[1] = handle_event(g[0], a)
      /\ g[2] = handle_event(g[1], b) /\ g[3] = handle_event(g[2], c)
  <2>1. /\ 1 \in 1 .. Len(s) /\ 2 \in 1 .. Len(s) /\ 3 \in 1 .. Len(s)
        /\ 1 - 1 = 0 /\ 2 - 1 = 1 /\ 3 - 1 = 2 /\ Len(s) \in Nat
    BY <1>1, SMT
  <2>2. /\ g[0] = o /\ g[1] = handle_event(g[1 - 1], s[1])
        /\ g[2] = handle_event(g[2 - 1], s[2]) /\ g[3] = handle_event(g[3 - 1], s[3])
    BY <2>1, AfterEvents, SMT
  <2> QED
    BY <1>1, <2>1, <2>2
<1>3. handle_events(o, s) = g[3]
  BY <1>1 DEF handle_events
<1> QED
  BY <1>2, <1>3 DEF s

-----------------------------------------------------------------------------
(* The order, and the events that may reach it. *)

VenueTrades(v) == {[trade_id |-> VenueTrade(n), last_qty |-> 1] : n \in 1 .. v}

IsVenueTrade(f, v) == \E n \in 1 .. v : f.trade_id = VenueTrade(n) /\ f.last_qty = 1

\* Without an inferred fill the order holds trades of the venue, each counted once.
Counted(o, v) ==
    \/ \E f \in o.fills : is_inferred(f)
    \/ o.fills \subseteq VenueTrades(v) /\ o.filled_qty <= Cardinality(o.fills)

\* An inferred fill carries the filled quantity it brought the order to.
InferredBelow(o) ==
    \A f \in o.fills : is_inferred(f) => f.trade_id[2] \in Nat /\ f.trade_id[2] <= o.filled_qty

\* The order, when the venue has made v trades.
Sound(o, v) ==
    /\ DOMAIN o = Fields
    /\ o.order_type = "Limit" /\ o.emulation_trigger = FALSE
    /\ o.status \in OrderStatus
    /\ o.previous_status \in (OrderStatus \ Pending) \cup {None}
    /\ o.status \in Pending => o.previous_status \in OrderStatus \ Pending
    /\ o.quantity \in 1 .. RawMax
    /\ o.filled_qty \in 0 .. RawMax
    /\ InferredBelow(o)
    /\ Counted(o, v)
    /\ v = 0 => o.filled_qty = 0

\* The fill that brings the order to the filled quantity a.
Infers(o, e, a) ==
    /\ a \in 1 .. RawMax /\ a > o.filled_qty
    /\ e.trade_id = InferredTrade(a, a - o.filled_qty)
    /\ e.last_qty = a - o.filled_qty

GoodEvent(o, e, v) ==
    /\ e.type \in OrderEventType
    /\ e.type = "Updated" => e.quantity \in 1 .. RawMax
    /\ e.type = "Filled" => IsVenueTrade(e, v) \/ \E a \in 1 .. RawMax : a <= v /\ Infers(o, e, a)

\* An event that is no fill.
LEMMA OtherKeeps ==
    ASSUME NEW v \in Nat, NEW o, NEW e, Sound(o, v), GoodEvent(o, e, v), e.type # "Filled"
    PROVE  Sound(apply(o, e), v) /\ apply(o, e).filled_qty = o.filled_qty
<1> DEFINE w == apply(o, e)
           saved == SavePrevious(o, e)
<1>1. /\ DOMAIN w = Fields /\ w.fills = o.fills /\ w.filled_qty = o.filled_qty
      /\ w.order_type = o.order_type
      /\ o.emulation_trigger = FALSE => w.emulation_trigger = FALSE
      /\ w.previous_status = saved.previous_status
      /\ w.status = StatusAfter(o, e)
      /\ w.quantity = IF e.type = "Updated" /\ Applies(saved, e) THEN e.quantity ELSE o.quantity
  BY OtherEvent DEF Sound
<1>2. /\ saved.status = o.status
      /\ saved.previous_status =
            IF e.type \in Rejections \cup {"Initialized"} \/ o.status \in Pending
            THEN o.previous_status ELSE o.status
  BY Saved, SMT DEF Sound, Fields
<1>3. Applies(saved, e) => o.status \in DOMAIN transition /\ e.type \in DOMAIN transition[o.status]
  BY <1>2 DEF Applies
<1> HIDE DEF w, saved
<1>4. saved.previous_status \in (OrderStatus \ Pending) \cup {None}
  BY <1>2 DEF Sound
<1>5. /\ w.status \in OrderStatus
      /\ w.status \in Pending => w.previous_status \in OrderStatus \ Pending
  <2>1. CASE ~Applies(saved, e)
    BY <1>1, <1>2, <2>1 DEF StatusAfter, Sound, saved
  <2>2. CASE Applies(saved, e) /\ e.type \in Rejections
    <3>1. o.status \in Pending
      BY <1>3, <2>2, TransitionFacts
    <3>2. w.status = saved.previous_status /\ saved.previous_status \in OrderStatus \ Pending
      BY <1>1, <1>2, <2>2, <3>1 DEF StatusAfter, Sound, saved
    <3> QED
      BY <3>2
  <2>3. CASE Applies(saved, e) /\ e.type \notin Rejections
    <3>1. CASE e.type = "Updated" /\ o.status = "PendingUpdate" /\ saved.previous_status # None
      BY <1>1, <1>4, <2>3, <3>1 DEF StatusAfter, Sound, saved
    <3>2. CASE ~(e.type = "Updated" /\ o.status = "PendingUpdate" /\ saved.previous_status # None)
      <4>1. w.status = transition[o.status][e.type]
        BY <1>1, <2>3, <3>2 DEF StatusAfter, saved
      <4>2. /\ w.status \in OrderStatus
            /\ w.status \in Pending => e.type = w.status \/ o.status \in Pending
        BY <1>3, <2>3, <4>1, TransitionFacts
      <4>3. w.status \in Pending => w.previous_status \in OrderStatus \ Pending
        BY <1>1, <1>2, <4>2 DEF Sound, Pending, Rejections
      <4> QED
        BY <4>2, <4>3
    <3> QED
      BY <3>1, <3>2
  <2> QED
    BY <2>1, <2>2, <2>3
<1>6. w.quantity \in 1 .. RawMax /\ w.filled_qty \in 0 .. RawMax
  BY <1>1 DEF Sound, GoodEvent
<1>7. InferredBelow(w) /\ Counted(w, v)
  BY <1>1 DEF Sound, InferredBelow, Counted
<1>8. Sound(w, v)
  BY <1>1, <1>4, <1>5, <1>6, <1>7 DEF Sound
<1> QED
  BY <1>1, <1>8 DEF w

LEMMA VenueTradesFinite ==
    ASSUME NEW v \in Nat
    PROVE  /\ IsFiniteSet(VenueTrades(v)) /\ Cardinality(VenueTrades(v)) <= v
           /\ \A S \in SUBSET VenueTrades(v) : /\ IsFiniteSet(S)
                                               /\ Cardinality(S) \in Nat /\ Cardinality(S) <= v
<1>1. IsFiniteSet(1 .. v) /\ Cardinality(1 .. v) = v
  BY FS_Interval, SMT
<1>2. IsFiniteSet(VenueTrades(v)) /\ Cardinality(VenueTrades(v)) <= v
  <2> DEFINE g == [n \in 1 .. v |-> [trade_id |-> VenueTrade(n), last_qty |-> 1]]
  <2>1. g \in Surjection(1 .. v, VenueTrades(v))
    BY DEF Surjection, VenueTrades
  <2> HIDE DEF g
  <2> QED
    BY <1>1, <2>1, FS_Surjection, SMT
<1>3. Cardinality(VenueTrades(v)) \in Nat
  BY <1>2, FS_CardinalityType
<1>4. ASSUME NEW S \in SUBSET VenueTrades(v)
      PROVE  IsFiniteSet(S) /\ Cardinality(S) \in Nat /\ Cardinality(S) <= v
  <2>1. IsFiniteSet(S) /\ Cardinality(S) <= Cardinality(VenueTrades(v))
    BY <1>2, FS_Subset
  <2>2. Cardinality(S) \in Nat
    BY <2>1, FS_CardinalityType
  <2> QED
    BY <1>2, <1>3, <2>1, <2>2, SMT
<1> QED
  BY <1>2, <1>4

\* A fill, of the venue's or inferred.
LEMMA FillKeeps ==
    ASSUME NEW v \in Nat, NEW o, NEW e, Sound(o, v), GoodEvent(o, e, v), e.type = "Filled"
    PROVE  Sound(apply(o, e), v) /\ apply(o, e).filled_qty >= o.filled_qty
<1> DEFINE w == apply(o, e)
           f == [trade_id |-> e.trade_id, last_qty |-> e.last_qty]
           n == saturating_add(o.filled_qty, e.last_qty)
<1>1. /\ DOMAIN w = Fields /\ w.order_type = o.order_type
      /\ w.emulation_trigger = o.emulation_trigger /\ w.quantity = o.quantity
      /\ w.previous_status = IF o.status \in Pending THEN o.previous_status ELSE o.status
      /\ Applies(o, e) => /\ w.fills = o.fills \cup {f}
                          /\ w.filled_qty = n
                          /\ w.status = IF n >= o.quantity THEN "Filled" ELSE "PartiallyFilled"
      /\ ~Applies(o, e) => w.fills = o.fills /\ w.filled_qty = o.filled_qty /\ w.status = o.status
  BY FillEvent, SMT DEF Sound
<1>2. w.previous_status \in (OrderStatus \ Pending) \cup {None}
  BY <1>1 DEF Sound
<1>3. w.order_type = "Limit" /\ w.emulation_trigger = FALSE /\ w.quantity \in 1 .. RawMax
  BY <1>1 DEF Sound
<1>4. RawMax \in Nat /\ o.filled_qty \in Nat /\ o.filled_qty <= RawMax
  BY RawMaxAssumption, SMT DEF Sound
<1>5. CASE ~Applies(o, e)
  <2>1. /\ w.status \in OrderStatus
        /\ w.status \in Pending => w.previous_status \in OrderStatus \ Pending
        /\ w.filled_qty \in 0 .. RawMax
    BY <1>1, <1>5 DEF Sound
  <2>2. InferredBelow(w) /\ Counted(w, v)
    BY <1>1, <1>5 DEF Sound, InferredBelow, Counted
  <2> QED
    BY <1>1, <1>2, <1>3, <1>4, <1>5, <2>1, <2>2, SMT DEF Sound
<1>6. CASE Applies(o, e)
  <2> DEFINE q == e.last_qty
  <2>1. /\ q \in Nat
        /\ \/ IsVenueTrade(e, v)
           \/ \E a \in 1 .. RawMax : a <= v /\ Infers(o, e, a)
    BY <1>4, SMT DEF GoodEvent, IsVenueTrade, Infers
  <2>0. v # 0
    BY <1>4, <2>1, SMT DEF IsVenueTrade
  <2>2. n \in 0 .. RawMax /\ n >= o.filled_qty /\ n <= o.filled_qty + q
    BY <1>4, <2>1, SMT DEF saturating_add
  <2>3. w.status \in OrderStatus \ Pending
    BY <1>1, <1>6 DEF OrderStatus, Pending
  <2>4. \A g \in o.fills : is_inferred(g) => g.trade_id[2] \in Nat /\ g.trade_id[2] <= n
    BY <1>4, <2>2, SMT DEF Sound, InferredBelow
  <2>5. InferredBelow(w) /\ Counted(w, v)
    <3>1. CASE IsVenueTrade(e, v)
      <4>1. PICK k \in 1 .. v : e.trade_id = VenueTrade(k) /\ q = 1
        BY <3>1 DEF IsVenueTrade
      <4>2. ~is_inferred(f)
        BY <4>1, SMT DEF is_inferred, VenueTrade
      <4>3. InferredBelow(w)
        BY <1>1, <1>6, <2>4, <4>2 DEF InferredBelow
      <4>4. CASE \E g \in o.fills : is_inferred(g)
        BY <1>1, <1>6, <4>3, <4>4 DEF Counted
      <4>5. CASE o.fills \subseteq VenueTrades(v) /\ o.filled_qty <= Cardinality(o.fills)
        <5>1. f \in VenueTrades(v)
          BY <4>1 DEF VenueTrades
        <5>2. f \notin o.fills
          <6>1. e.trade_id \notin trade_ids(o)
            BY <1>6 DEF Applies
          <6> QED
            BY <6>1, SMT DEF trade_ids
        <5>3. IsFiniteSet(o.fills) /\ Cardinality(o.fills) \in Nat
          BY <4>5, VenueTradesFinite
        <5>4. Cardinality(o.fills \cup {f}) = Cardinality(o.fills) + 1
          BY <5>2, <5>3, FS_AddElement
        <5>5. n <= Cardinality(o.fills \cup {f})
          BY <1>4, <2>2, <4>1, <4>5, <5>3, <5>4, SMT
        <5> QED
          BY <1>1, <1>6, <4>3, <4>5, <5>1, <5>5 DEF Counted
      <4> QED
        BY <4>4, <4>5 DEF Sound, Counted
    <3>2. CASE \E a \in 1 .. RawMax : Infers(o, e, a)
      <4>1. PICK a \in 1 .. RawMax : Infers(o, e, a)
        BY <3>2
      <4>2. f.trade_id[1] = "I" /\ f.trade_id[2] = a
        BY <4>1, SMT DEF Infers, InferredTrade
      <4>3. n = a
        BY <1>4, <4>1, SMT DEF Infers, saturating_add
      <4>4. InferredBelow(w)
        BY <1>1, <1>4, <1>6, <2>4, <4>2, <4>3, SMT DEF InferredBelow
      <4>5. Counted(w, v)
        BY <1>1, <1>6, <4>2 DEF Counted, is_inferred
      <4> QED
        BY <4>4, <4>5
    <3> QED
      BY <2>1, <3>1, <3>2
  <2> QED
    BY <1>1, <1>2, <1>3, <1>6, <2>0, <2>2, <2>3, <2>5 DEF Sound
<1> QED
  BY <1>5, <1>6

LEMMA EventKeeps ==
    ASSUME NEW v \in Nat, NEW o, NEW e, Sound(o, v), GoodEvent(o, e, v)
    PROVE  Sound(handle_event(o, e), v) /\ handle_event(o, e).filled_qty >= o.filled_qty
<1>1. o.filled_qty >= o.filled_qty
  BY SMT DEF Sound
<1> QED
  BY <1>1, OtherKeeps, FillKeeps DEF handle_event

-----------------------------------------------------------------------------
(* Reports. *)

ReportStatus == {"Accepted", "PartiallyFilled", "Filled", "Rejected", "Canceled"}

\* A status report that the venue can have sent, when it has made v trades.
GoodReport(r, v) ==
    /\ r.status \in ReportStatus
    /\ r.quantity \in 1 .. RawMax
    /\ r.filled_qty \in 0 .. RawMax /\ r.filled_qty <= v /\ r.filled_qty <= r.quantity
    /\ r.status \in {"Accepted", "PartiallyFilled", "Filled"} =>
          r.status = VenueStatus(r.filled_qty, r.quantity)
    /\ r.venue_order_id = 1

\* At most one event, and a good one.
OneEvent(o, events, v) == events = << >> \/ \E e : events = <<e>> /\ GoodEvent(o, e, v)

LEMMA CreatedEvents ==
    ASSUME NEW v \in Nat, NEW o, NEW r, Sound(o, v), GoodReport(r, v)
    PROVE  /\ GoodEvent(o, create_reconciliation_accepted(o, r), v)
           /\ GoodEvent(o, create_reconciliation_updated(o, r), v)
           /\ r.filled_qty > o.filled_qty =>
                 GoodEvent(o, create_incremental_inferred_fill(o, r), v)
           /\ create_reconciliation_accepted(o, r).type = "Accepted"
           /\ create_reconciliation_updated(o, r).type = "Updated"
           /\ create_reconciliation_updated(o, r).quantity = r.quantity
<1>1. GoodEvent(o, create_reconciliation_accepted(o, r), v)
  BY DEF create_reconciliation_accepted, GoodEvent, OrderEventType
<1>2. GoodEvent(o, create_reconciliation_updated(o, r), v)
  BY DEF create_reconciliation_updated, GoodEvent, OrderEventType, GoodReport
<1>3. ASSUME r.filled_qty > o.filled_qty
      PROVE  GoodEvent(o, create_incremental_inferred_fill(o, r), v)
  <2> DEFINE e == create_incremental_inferred_fill(o, r)
  <2>1. /\ e.type = "Filled" /\ e.last_qty = r.filled_qty - o.filled_qty
        /\ e.trade_id = InferredTrade(r.filled_qty, r.filled_qty - o.filled_qty)
    BY DEF create_incremental_inferred_fill
  <2>2. r.filled_qty \in 1 .. RawMax /\ r.filled_qty <= v
    BY <1>3, RawMaxAssumption, SMT DEF GoodReport, Sound
  <2> HIDE DEF e
  <2>3. Infers(o, e, r.filled_qty)
    BY <1>3, <2>1, <2>2 DEF Infers
  <2>4. GoodEvent(o, e, v)
    BY <2>1, <2>2, <2>3 DEF GoodEvent, OrderEventType
  <2> QED
    BY <2>4 DEF e
<1> QED
  BY <1>1, <1>2, <1>3 DEF create_reconciliation_accepted, create_reconciliation_updated

\* What reconcile_order_report makes of each status that a venue reports.
LEMMA ReportEvents ==
    ASSUME NEW v \in Nat, NEW o, NEW r, Sound(o, v), GoodReport(r, v)
    PROVE  OneEvent(o, reconcile_order_report(o, r), v)
<1> DEFINE a == create_reconciliation_accepted(o, r)
           u == create_reconciliation_updated(o, r)
           i == create_incremental_inferred_fill(o, r)
           x == reconcile_order_report(o, r)
<1>1. /\ GoodEvent(o, a, v) /\ GoodEvent(o, u, v)
      /\ r.filled_qty > o.filled_qty => GoodEvent(o, i, v)
  BY CreatedEvents
<1>2. GoodEvent(o, [type |-> "Rejected"], v) /\ GoodEvent(o, [type |-> "Canceled"], v)
  BY DEF GoodEvent, OrderEventType, PlainEventType
<1>3. r.status \in ReportStatus /\ r.status \notin Pending
  BY DEF GoodReport, ReportStatus, Pending
<1> HIDE DEF a, u, i
<1>4. CASE o.status = r.status /\ o.filled_qty = r.filled_qty
  <2>1. x = << >> \/ x = <<u>>
    BY <1>3, <1>4 DEF reconcile_order_report, u
  <2> QED
    BY <1>1, <2>1 DEF OneEvent
<1>5. CASE ~(o.status = r.status /\ o.filled_qty = r.filled_qty) /\ r.status = "Accepted"
  <2>1. x = << >> \/ x = <<u>> \/ x = <<a>>
    BY <1>3, <1>5 DEF reconcile_order_report, u, a
  <2> QED
    BY <1>1, <2>1 DEF OneEvent
<1>6. CASE ~(o.status = r.status /\ o.filled_qty = r.filled_qty) /\ r.status = "Rejected"
  <2>1. x = << >> \/ x = <<[type |-> "Rejected"]>>
    BY <1>3, <1>6 DEF reconcile_order_report
  <2> QED
    BY <1>2, <2>1 DEF OneEvent
<1>7. CASE ~(o.status = r.status /\ o.filled_qty = r.filled_qty) /\ r.status = "Canceled"
  <2>1. x = << >> \/ x = <<[type |-> "Canceled"]>>
    BY <1>3, <1>7 DEF reconcile_order_report
  <2> QED
    BY <1>2, <2>1 DEF OneEvent
<1>8. CASE /\ ~(o.status = r.status /\ o.filled_qty = r.filled_qty)
           /\ r.status \in {"PartiallyFilled", "Filled"}
  <2>1. x = reconcile_fill_quantity_mismatch(o, r)
    BY <1>3, <1>8 DEF reconcile_order_report
  <2>2. x = << >> \/ x = <<u>> \/ (x = <<i>> /\ r.filled_qty > o.filled_qty)
    BY <2>1 DEF reconcile_fill_quantity_mismatch, u, i
  <2> QED
    BY <1>1, <2>2 DEF OneEvent
<1> QED
  BY <1>3, <1>4, <1>5, <1>6, <1>7, <1>8 DEF ReportStatus

LEMMA OneEventKeeps ==
    ASSUME NEW v \in Nat, NEW o, NEW events, Sound(o, v), OneEvent(o, events, v)
    PROVE  /\ Sound(handle_events(o, events), v)
           /\ handle_events(o, events).filled_qty >= o.filled_qty
<1>1. o.filled_qty >= o.filled_qty
  BY SMT DEF Sound
<1>2. CASE events = << >>
  BY <1>1, <1>2, FewEvents
<1>3. ASSUME NEW e, events = <<e>>, GoodEvent(o, e, v)
      PROVE  /\ Sound(handle_events(o, events), v)
             /\ handle_events(o, events).filled_qty >= o.filled_qty
  <2>1. handle_events(o, events) = handle_event(o, e)
    BY <1>3, FewEvents
  <2> QED
    BY <1>3, <2>1, EventKeeps
<1> QED
  BY <1>2, <1>3 DEF OneEvent

LEMMA Concatenated ==
    /\ << >> \o << >> = << >>
    /\ \A a : << >> \o <<a>> = <<a>> /\ <<a>> \o << >> = <<a>>
    /\ \A a, b : <<a>> \o <<b>> = <<a, b>> /\ <<a, b>> \o << >> = <<a, b>>
    /\ \A a, b, c : <<a, b>> \o <<c>> = <<a, b, c>>
<1>1. << >> \o << >> = << >>
  BY ConcatEmptySeq, EmptySeq
<1>2. ASSUME NEW a
      PROVE  << >> \o <<a>> = <<a>> /\ <<a>> \o << >> = <<a>>
  <2>1. <<a>> \in Seq({a})
    BY SMT
  <2> QED
    BY <2>1, ConcatEmptySeq
<1>3. ASSUME NEW a, NEW b
      PROVE  <<a>> \o <<b>> = <<a, b>> /\ <<a, b>> \o << >> = <<a, b>>
  <2> DEFINE S == {a, b}
  <2>1. <<a>> \in Seq(S) /\ <<b>> \in Seq(S) /\ <<a, b>> \in Seq(S)
    BY SMT
  <2>2. <<a, b>> \o << >> = <<a, b>>
    BY <2>1, ConcatEmptySeq
  <2>3. <<a>> \o <<b>> \in Seq(S) /\ Len(<<a>> \o <<b>>) = 2
        /\ (<<a>> \o <<b>>)[1] = a /\ (<<a>> \o <<b>>)[2] = b
    BY <2>1, SMT
  <2> DEFINE s == <<a>> \o <<b>>
             t == <<a, b>>
  <2>4. t \in Seq(S) /\ Len(t) = 2 /\ t[1] = a /\ t[2] = b
    BY <2>1
  <2>5. s \in Seq(S) /\ Len(s) = 2 /\ s[1] = a /\ s[2] = b
    BY <2>3
  <2> HIDE DEF s, t, S
  <2>6. Len(s) = Len(t) /\ \A i \in 1 .. Len(s) : s[i] = t[i]
    BY <2>4, <2>5, SMT
  <2>7. s = t
    BY <2>4, <2>5, <2>6, SeqEqual
  <2> QED
    BY <2>2, <2>7 DEF s, t
<1>4. ASSUME NEW a, NEW b, NEW c
      PROVE  <<a, b>> \o <<c>> = <<a, b, c>>
  <2> DEFINE S == {a, b, c}
  <2>1. <<a, b>> \in Seq(S) /\ <<c>> \in Seq(S) /\ <<a, b, c>> \in Seq(S)
    BY SMT
  <2>2. <<a, b>> \o <<c>> \in Seq(S) /\ Len(<<a, b>> \o <<c>>) = 3
        /\ (<<a, b>> \o <<c>>)[1] = a /\ (<<a, b>> \o <<c>>)[2] = b
        /\ (<<a, b>> \o <<c>>)[3] = c
    BY <2>1, SMT
  <2> DEFINE s == <<a, b>> \o <<c>>
             t == <<a, b, c>>
  <2>3. t \in Seq(S) /\ Len(t) = 3 /\ t[1] = a /\ t[2] = b /\ t[3] = c
    BY <2>1
  <2>4. s \in Seq(S) /\ Len(s) = 3 /\ s[1] = a /\ s[2] = b /\ s[3] = c
    BY <2>2
  <2> HIDE DEF s, t, S
  <2>5. Len(s) = Len(t) /\ \A i \in 1 .. Len(s) : s[i] = t[i]
    BY <2>3, <2>4, SMT
  <2>6. s = t
    BY <2>3, <2>4, <2>5, SeqEqual
  <2> QED
    BY <2>6 DEF s, t
<1> QED
  BY <1>1, <1>2, <1>3, <1>4

\* The order with the acceptance it missed, and then with the amendment.
Acknowledged(o, r) ==
    IF should_accept_before_reconciliation(o, r)
    THEN handle_event(o, create_reconciliation_accepted(o, r)) ELSE o

Amends(w, r) ==
    report_is_confirmed_state(r) /\ local_accepts_amendment(w) /\ should_reconciliation_update(w, r)

Amended(w, r) ==
    IF Amends(w, r) THEN handle_event(w, create_reconciliation_updated(w, r)) ELSE w

\* A status report acts on the order in three stages.
LEMMA StatusReportInStages ==
    ASSUME NEW o, NEW r, NEW w, w = Amended(Acknowledged(o, r), r),
           NEW x, x = reconcile_order_report(w, r),
           x = << >> \/ \E e : x = <<e>>
    PROVE  reconcile_order_status_report(o, r) = handle_events(w, x)
<1> DEFINE A == create_reconciliation_accepted(o, r)
           accept == IF should_accept_before_reconciliation(o, r) THEN <<A>> ELSE << >>
           accepted_order == IF accept = << >> THEN o ELSE apply(o, accept[1])
           U == create_reconciliation_updated(accepted_order, r)
           update == IF Amends(accepted_order, r) THEN <<U>> ELSE << >>
           working == IF update = << >> THEN accepted_order ELSE apply(accepted_order, update[1])
<1>1. accepted_order = Acknowledged(o, r)
  <2>1. A.type # "Filled"
    BY DEF create_reconciliation_accepted
  <2>2. apply(o, A) = handle_event(o, A)
    BY <2>1 DEF handle_event
  <2> QED
    BY <2>2 DEF Acknowledged
<1>2. working = w
  <2> HIDE DEF accepted_order
  <2>1. U.type # "Filled"
    BY DEF create_reconciliation_updated
  <2>2. apply(accepted_order, U) = handle_event(accepted_order, U)
    BY <2>1 DEF handle_event
  <2> QED
    BY <1>1, <2>2 DEF Amended
<1>3. generate_reconciliation_order_events(o, r) = accept \o update \o reconcile_order_report(working, r)
  BY DEF generate_reconciliation_order_events, Amends
<1>4. reconcile_order_status_report(o, r) = handle_events(o, accept \o update \o x)
  <2> HIDE DEF accept, update, working
  <2> QED
    BY <1>2, <1>3 DEF reconcile_order_status_report
<1>5. \/ accept = << >> /\ accepted_order = o
      \/ accept = <<A>> /\ accepted_order = handle_event(o, A)
  BY <1>1 DEF Acknowledged
<1>6. \/ update = << >> /\ w = accepted_order
      \/ update = <<U>> /\ w = handle_event(accepted_order, U)
  <2> HIDE DEF accepted_order
  <2> QED
    BY <1>1 DEF Amended
<1> HIDE DEF accept, update, accepted_order, working, A, U
<1>a. /\ handle_events(w, << >>) = w
      /\ \A e : handle_events(w, <<e>>) = handle_event(w, e)
  BY FewEvents
<1>b. \A a, b : handle_events(o, <<a, b>>) = handle_event(handle_event(o, a), b)
  BY TwoEvents
<1>c. ASSUME NEW a, NEW b, NEW c
      PROVE  handle_events(o, <<a, b, c>>) = handle_event(handle_event(handle_event(o, a), b), c)
  BY ThreeEvents, SMTT(30)
<1>7. CASE accept = << >> /\ update = << >>
  <2>1. accept \o update \o << >> = << >> /\ \A e : accept \o update \o <<e>> = <<e>>
    BY <1>7, Concatenated
  <2>2. w = o
    BY <1>5, <1>6, <1>7
  <2> QED
    BY <1>4, <2>1, <2>2
<1>8. CASE accept = << >> /\ update = <<U>>
  <2>1. accept \o update \o << >> = <<U>> /\ \A e : accept \o update \o <<e>> = <<U, e>>
    BY <1>8, Concatenated
  <2>2. w = handle_event(o, U)
    BY <1>5, <1>6, <1>8
  <2>3. /\ handle_events(o, <<U>>) = w
        /\ \A e : handle_events(o, <<U, e>>) = handle_event(w, e)
    <3>1. handle_events(o, <<U>>) = handle_event(o, U)
      BY FewEvents
    <3> QED
      BY <1>b, <2>2, <3>1
  <2>4. CASE x = << >>
    BY <1>4, <1>a, <2>1, <2>3, <2>4
  <2>5. ASSUME NEW e, x = <<e>>
        PROVE  reconcile_order_status_report(o, r) = handle_events(w, x)
    BY <1>4, <1>a, <2>1, <2>3, <2>5
  <2> QED
    BY <2>4, <2>5
<1>9. CASE accept = <<A>> /\ update = << >>
  <2>1. accept \o update \o << >> = <<A>> /\ \A e : accept \o update \o <<e>> = <<A, e>>
    BY <1>9, Concatenated
  <2>2. w = handle_event(o, A)
    BY <1>5, <1>6, <1>9
  <2>3. /\ handle_events(o, <<A>>) = w
        /\ \A e : handle_events(o, <<A, e>>) = handle_event(w, e)
    <3>1. handle_events(o, <<A>>) = handle_event(o, A)
      BY FewEvents
    <3> QED
      BY <1>b, <2>2, <3>1
  <2>4. CASE x = << >>
    BY <1>4, <1>a, <2>1, <2>3, <2>4
  <2>5. ASSUME NEW e, x = <<e>>
        PROVE  reconcile_order_status_report(o, r) = handle_events(w, x)
    BY <1>4, <1>a, <2>1, <2>3, <2>5
  <2> QED
    BY <2>4, <2>5
<1>10. CASE accept = <<A>> /\ update = <<U>>
  <2>1. accept \o update \o << >> = <<A, U>> /\ \A e : accept \o update \o <<e>> = <<A, U, e>>
    <3>1. accept \o update = <<A, U>>
      BY <1>10, Concatenated
    <3> QED
      BY <3>1, Concatenated, SMT
  <2>2. w = handle_event(handle_event(o, A), U)
    BY <1>5, <1>6, <1>10
  <2>3. /\ handle_events(o, <<A, U>>) = w
        /\ \A e : handle_events(o, <<A, U, e>>) = handle_event(w, e)
    BY <1>b, <1>c, <2>2, SMT
  <2>4. CASE x = << >>
    BY <1>4, <1>a, <2>1, <2>3, <2>4
  <2>5. ASSUME NEW e, x = <<e>>
        PROVE  reconcile_order_status_report(o, r) = handle_events(w, x)
    BY <1>4, <1>a, <2>1, <2>3, <2>5
  <2> QED
    BY <2>4, <2>5
<1> QED
  BY <1>5, <1>6, <1>7, <1>8, <1>9, <1>10

LEMMA StagesKeep ==
    ASSUME NEW v \in Nat, NEW o, NEW r, Sound(o, v), GoodReport(r, v)
    PROVE  /\ Sound(Acknowledged(o, r), v)
           /\ Sound(Amended(Acknowledged(o, r), r), v)
<1>1. Sound(Acknowledged(o, r), v)
  BY CreatedEvents, EventKeeps DEF Acknowledged
<1> DEFINE w == Acknowledged(o, r)
<1> HIDE DEF w
<1>2. ASSUME Sound(w, v)
      PROVE  Sound(Amended(w, r), v)
  BY <1>2, CreatedEvents, EventKeeps DEF Amended
<1> QED
  BY <1>1, <1>2 DEF w

LEMMA StatusReportKeeps ==
    ASSUME NEW v \in Nat, NEW o, NEW r, Sound(o, v), GoodReport(r, v)
    PROVE  Sound(reconcile_order_status_report(o, r), v)
<1> DEFINE w == Amended(Acknowledged(o, r), r)
           x == reconcile_order_report(w, r)
<1>1. Sound(w, v)
  BY StagesKeep
<1> HIDE DEF w
<1>2. OneEvent(w, x, v)
  BY <1>1, ReportEvents
<1> HIDE DEF x
<1>3. x = << >> \/ \E e : x = <<e>>
  BY <1>2 DEF OneEvent
<1>4. reconcile_order_status_report(o, r) = handle_events(w, x)
  BY <1>3, StatusReportInStages, SMT DEF w, x
<1> QED
  BY <1>1, <1>2, <1>4, OneEventKeeps

LEMMA FillReportEvents ==
    ASSUME NEW v \in Nat, NEW o, NEW f, IsVenueTrade(f, v)
    PROVE  OneEvent(o, reconcile_fill_report(o, f), v)
<1> DEFINE e == [type |-> "Filled", trade_id |-> f.trade_id, last_qty |-> f.last_qty,
                 venue_order_id |-> IF o.venue_order_id # None THEN o.venue_order_id
                                    ELSE f.venue_order_id,
                 position_id |-> None]
<1>1. reconcile_fill_report(o, f) = << >> \/ reconcile_fill_report(o, f) = <<e>>
  BY DEF reconcile_fill_report
<1>2. GoodEvent(o, e, v)
  BY DEF GoodEvent, IsVenueTrade, OrderEventType
<1> HIDE DEF e
<1> QED
  BY <1>1, <1>2 DEF OneEvent

TradeReports(fills, v) ==
    Len(fills) \in Nat /\ \A n \in 1 .. Len(fills) : IsVenueTrade(fills[n], v)

LEMMA WithFillsKeeps ==
    ASSUME NEW v \in Nat, NEW o, NEW r, NEW fills,
           Sound(o, v), GoodReport(r, v), TradeReports(fills, v)
    PROVE  Sound(reconcile_order_with_fills(o, r, fills), v)
<1> DEFINE g == after_fills(o, fills)
           N == Len(fills)
           Bad == {n \in Nat : n <= N /\ ~Sound(g[n], v)}
<1>1. N \in Nat /\ \A n \in 1 .. N : IsVenueTrade(fills[n], v)
  BY DEF TradeReports
<1>2. /\ g[0] = o
      /\ \A n \in 1 .. N : g[n] = handle_events(g[n - 1], reconcile_fill_report(g[n - 1], fills[n]))
  BY <1>1, AfterFills, SMT
<1> HIDE DEF g, N
<1>3. ASSUME NEW m \in Bad, \A y \in Bad : m <= y
      PROVE  FALSE
  <2>1. m \in Nat /\ m <= N /\ ~Sound(g[m], v)
    OBVIOUS
  <2>2. m # 0
    BY <1>2, <2>1
  <2>3. m \in 1 .. N /\ m - 1 \in Nat /\ m - 1 <= N /\ ~(m <= m - 1)
    BY <1>1, <2>1, <2>2, SMT
  <2>4. m - 1 \notin Bad
    <3> HIDE DEF Bad
    <3> QED
      BY <1>3, <2>3
  <2>5. Sound(g[m - 1], v)
    BY <2>3, <2>4
  <2> DEFINE w == g[m - 1]
             f == fills[m]
  <2>6. Sound(w, v) /\ IsVenueTrade(f, v) /\ g[m] = handle_events(w, reconcile_fill_report(w, f))
    BY <1>1, <1>2, <2>3, <2>5
  <2> HIDE DEF w, f
  <2>7. Sound(g[m], v)
    BY <2>6, FillReportEvents, OneEventKeeps
  <2> QED
    BY <2>1, <2>7
<1>4. Bad = {}
  BY <1>3, LeastElement
<1>5. Sound(g[N], v)
  BY <1>1, <1>4, SMT
<1> DEFINE w == g[N]
           covered == IF r.status \in {"PartiallyFilled", "Filled"} /\ r.filled_qty > w.filled_qty
                      THEN handle_event(w, create_incremental_inferred_fill(w, r)) ELSE w
<1>6. reconcile_order_with_fills(o, r, fills) =
        IF r.status \in {"Canceled", "Expired"} /\ ~is_closed(covered)
        THEN handle_event(covered, [type |-> r.status]) ELSE covered
  BY DEF reconcile_order_with_fills, g, N
<1>7. Sound(w, v)
  BY <1>5
<1> HIDE DEF w
<1>8. Sound(covered, v)
  BY <1>7, CreatedEvents, EventKeeps
<1> HIDE DEF covered
<1>9. ASSUME r.status \in {"Canceled", "Expired"}
      PROVE  GoodEvent(covered, [type |-> r.status], v)
  BY <1>9 DEF GoodEvent, OrderEventType, PlainEventType
<1> QED
  BY <1>6, <1>8, <1>9, EventKeeps

LEMMA PlainEvents ==
    ASSUME NEW v \in Nat, NEW o, NEW t \in PlainEventType
    PROVE  GoodEvent(o, [type |-> t], v) /\ OneEvent(o, <<[type |-> t]>>, v)
<1>1. GoodEvent(o, [type |-> t], v)
  BY DEF GoodEvent, OrderEventType, PlainEventType
<1> QED
  BY <1>1 DEF OneEvent

LEMMA TimeoutEvents ==
    ASSUME NEW v \in Nat, NEW o
    PROVE  OneEvent(o, timeout_events(o), v)
<1>1. OneEvent(o, << >>, v)
  BY DEF OneEvent
<1>2. OneEvent(o, <<[type |-> "Rejected"]>>, v) /\ OneEvent(o, <<[type |-> "Canceled"]>>, v)
  BY PlainEvents DEF PlainEventType
<1> QED
  BY <1>1, <1>2 DEF timeout_events, Pending

\* A report is still one that the venue can have sent when it has traded more.
LEMMA MoreTrades ==
    ASSUME NEW v \in Nat, NEW u \in Nat, v <= u
    PROVE  /\ \A f : IsVenueTrade(f, v) => IsVenueTrade(f, u)
           /\ \A r : GoodReport(r, v) => GoodReport(r, u)
           /\ \A fills : TradeReports(fills, v) => TradeReports(fills, u)
           /\ \A o : Sound(o, v) => Sound(o, u)
<1>1. 1 .. v \subseteq 1 .. u
  BY SMT
<1>2. \A f : IsVenueTrade(f, v) => IsVenueTrade(f, u)
  BY <1>1 DEF IsVenueTrade
<1>3. ASSUME NEW r, GoodReport(r, v)
      PROVE  GoodReport(r, u)
  BY <1>3, RawMaxAssumption, SMT DEF GoodReport
<1>4. \A fills : TradeReports(fills, v) => TradeReports(fills, u)
  BY <1>2 DEF TradeReports
<1>5. VenueTrades(v) \subseteq VenueTrades(u)
  BY <1>1 DEF VenueTrades
<1>6. ASSUME NEW o, Sound(o, v)
      PROVE  Sound(o, u)
  BY <1>5, <1>6, SMT DEF Sound, Counted
<1> QED
  BY <1>2, <1>3, <1>4, <1>6

-----------------------------------------------------------------------------
(* A status report is adopted. *)

Behind(o, r) ==
    /\ o.status \in {"Submitted", "Accepted", "PartiallyFilled"}
    /\ o.filled_qty <= r.filled_qty
    /\ r.status \in {"Accepted", "PartiallyFilled", "Filled"}

\* After the acceptance and the amendment the order works, and has the reported quantity.
LEMMA StagesOfBehind ==
    ASSUME NEW v \in Nat, NEW o, NEW r, Sound(o, v), GoodReport(r, v), Behind(o, r),
           NEW w, w = Amended(Acknowledged(o, r), r)
    PROVE  /\ w.status \in {"Accepted", "PartiallyFilled"}
           /\ w.quantity = r.quantity
           /\ w.filled_qty = o.filled_qty /\ w.fills = o.fills
<1> DEFINE a == Acknowledged(o, r)
           e == create_reconciliation_accepted(o, r)
           u == create_reconciliation_updated(a, r)
<1>1. /\ a.status \in {"Accepted", "PartiallyFilled"} /\ a.filled_qty = o.filled_qty
      /\ a.fills = o.fills /\ Sound(a, v)
  <2>1. Sound(a, v)
    BY StagesKeep
  <2>2. CASE o.status = "Submitted"
    <3>1. e.type = "Accepted" /\ GoodEvent(o, e, v)
      BY CreatedEvents, SMT
    <3>2. a = apply(o, e)
      BY <2>2, <3>1 DEF Acknowledged, should_accept_before_reconciliation, Behind, handle_event
    <3>3. DOMAIN o = Fields
      BY DEF Sound
    <3> HIDE DEF e
    <3>a. e.type # "Filled"
      BY <3>1
    <3>b. /\ apply(o, e).fills = o.fills /\ apply(o, e).filled_qty = o.filled_qty
          /\ apply(o, e).status = StatusAfter(o, e)
      BY <3>3, <3>a, OtherEvent
    <3>4. /\ a.fills = o.fills /\ a.filled_qty = o.filled_qty /\ a.status = StatusAfter(o, e)
      BY <3>2, <3>b
    <3>5. SavePrevious(o, e).status = "Submitted"
      BY <2>2, <3>3, Saved
    <3>6. Applies(SavePrevious(o, e), e)
      BY <3>1, <3>5, LeadFacts DEF Applies, Leads
    <3>7. a.status = "Accepted"
      BY <2>2, <3>1, <3>4, <3>6, LeadFacts DEF StatusAfter, Leads, Rejections
    <3> QED
      BY <2>1, <3>4, <3>7
  <2>3. CASE o.status # "Submitted"
    <3>1. a = o
      BY <2>3 DEF Acknowledged, should_accept_before_reconciliation
    <3> QED
      BY <2>3, <3>1 DEF Behind
  <2> QED
    BY <2>2, <2>3
<1> HIDE DEF a
<1>2. w = Amended(a, r)
  BY DEF a
<1>3. a.filled_qty <= r.quantity
  BY <1>1, SMT DEF GoodReport, Behind, Sound
<1>4. Amends(a, r) <=> r.quantity # a.quantity
  BY <1>1, <1>3 DEF Amends, report_is_confirmed_state, local_accepts_amendment,
                    should_reconciliation_update, Behind, GoodReport, Sound
<1>5. CASE r.quantity = a.quantity
  BY <1>1, <1>2, <1>4, <1>5 DEF Amended
<1>6. CASE r.quantity # a.quantity
  <2>1. u.type = "Updated" /\ u.quantity = r.quantity
    BY <1>1, CreatedEvents, SMT
  <2>2. w = apply(a, u)
    BY <1>2, <1>4, <1>6, <2>1 DEF Amended, handle_event
  <2> HIDE DEF u
  <2>3. DOMAIN a = Fields
    BY <1>1 DEF Sound
  <2>4. SavePrevious(a, u).status = a.status
    BY <2>3, Saved
  <2>5. Applies(SavePrevious(a, u), u)
    BY <1>1, <2>1, <2>4, LeadFacts DEF Applies, Leads
  <2>6. /\ w.fills = a.fills /\ w.filled_qty = a.filled_qty /\ w.status = StatusAfter(a, u)
        /\ w.quantity = r.quantity
    <3>1. u.type # "Filled"
      BY <2>1
    <3>2. /\ apply(a, u).fills = a.fills /\ apply(a, u).filled_qty = a.filled_qty
          /\ apply(a, u).status = StatusAfter(a, u)
          /\ apply(a, u).quantity = IF u.type = "Updated" /\ Applies(SavePrevious(a, u), u)
                                    THEN u.quantity ELSE a.quantity
      BY <2>3, <3>1, OtherEvent
    <3> QED
      BY <2>1, <2>2, <2>5, <3>2
  <2>7. w.status = a.status
    BY <1>1, <2>1, <2>5, <2>6, LeadFacts DEF StatusAfter, Leads, Rejections
  <2> QED
    BY <1>1, <2>6, <2>7
<1> QED
  BY <1>5, <1>6

LEMMA Adopted ==
    ASSUME NEW v \in Nat, NEW o, NEW r, Sound(o, v), GoodReport(r, v), Behind(o, r),
           NEW n, n = reconcile_order_status_report(o, r)
    PROVE  /\ n.quantity = r.quantity
           /\ n.filled_qty = r.filled_qty
           /\ n.status = "Filled" <=> r.status = "Filled" /\ o.filled_qty < r.filled_qty
<1> DEFINE w == Amended(Acknowledged(o, r), r)
           x == reconcile_order_report(w, r)
<1>1. Sound(w, v)
  BY StagesKeep
<1>2. /\ w.status \in {"Accepted", "PartiallyFilled"}
      /\ w.quantity = r.quantity
      /\ w.filled_qty = o.filled_qty /\ w.fills = o.fills
  BY StagesOfBehind, SMT
<1> HIDE DEF w
<1>3. OneEvent(w, x, v)
  BY <1>1, ReportEvents
<1>4. n = handle_events(w, x)
  BY <1>3, StatusReportInStages, SMT DEF w, OneEvent
<1>5. /\ r.quantity \in 1 .. RawMax /\ r.filled_qty \in 0 .. RawMax /\ w.filled_qty \in 0 .. RawMax
      /\ r.filled_qty <= r.quantity /\ o.filled_qty <= r.filled_qty
      /\ r.status = VenueStatus(r.filled_qty, r.quantity)
      /\ r.status \notin Pending
  BY <1>1, <1>2 DEF GoodReport, Behind, Sound, Pending
<1>6. ~should_reconciliation_update(w, r) /\ has_account_id(w) /\ ~is_closed(w)
  BY <1>2 DEF should_reconciliation_update, has_account_id, is_closed
<1>7. CASE o.filled_qty < r.filled_qty
  <2> DEFINE e == create_incremental_inferred_fill(w, r)
  <2>1. r.status \in {"PartiallyFilled", "Filled"}
    BY <1>2, <1>5, <1>7, SMT DEF VenueStatus
  <2>2. x = <<e>>
    <3>1. x = reconcile_fill_quantity_mismatch(w, r)
      BY <1>2, <1>5, <1>7, <2>1, SMT DEF reconcile_order_report
    <3> QED
      BY <1>2, <1>6, <1>7, <3>1 DEF reconcile_fill_quantity_mismatch
  <2>3. /\ e.type = "Filled" /\ e.last_qty = r.filled_qty - w.filled_qty
        /\ e.trade_id = InferredTrade(r.filled_qty, r.filled_qty - w.filled_qty)
    BY DEF create_incremental_inferred_fill
  <2> HIDE DEF e
  <2>4. e.trade_id \notin trade_ids(w)
    <3> SUFFICES ASSUME NEW f \in w.fills, f.trade_id = e.trade_id
                 PROVE  FALSE
      BY DEF trade_ids
    <3>1. f.trade_id[1] = "I" /\ f.trade_id[2] = r.filled_qty
      BY <2>3, SMT DEF InferredTrade
    <3>2. r.filled_qty <= w.filled_qty
      BY <1>1, <3>1 DEF Sound, InferredBelow, is_inferred
    <3> QED
      BY <1>2, <1>5, <1>7, <3>2, SMT
  <2>5. /\ [trade_id |-> e.trade_id, last_qty |-> e.last_qty] \notin w.fills
        /\ ~(calculate_overfill(w, e.last_qty) > 0)
    <3>1. [trade_id |-> e.trade_id, last_qty |-> e.last_qty] \notin w.fills
      BY <2>4, SMT DEF trade_ids
    <3>2. w.filled_qty + e.last_qty = r.filled_qty
      BY <1>2, <1>5, <2>3, SMT
    <3>3. calculate_overfill(w, e.last_qty) = 0
      BY <1>2, <1>5, <3>2, SMT DEF calculate_overfill, saturating_sub
    <3> QED
      BY <3>1, <3>3, SMT
  <2>6. n = apply(w, e)
    BY <1>4, <2>2, <2>5, FewEvents DEF handle_event
  <2>7. Applies(w, e)
    BY <1>2, <2>3, <2>4, LeadFacts DEF Applies, Leads
  <2>8. saturating_add(w.filled_qty, e.last_qty) = r.filled_qty
    BY <1>2, <1>5, <2>3, RawMaxAssumption, SMT DEF saturating_add
  <2>9. DOMAIN w = Fields
    BY <1>1 DEF Sound
  <2>10. /\ n.quantity = w.quantity /\ n.filled_qty = r.filled_qty
         /\ n.status = IF r.filled_qty >= w.quantity THEN "Filled" ELSE "PartiallyFilled"
    BY <2>3, <2>6, <2>7, <2>8, <2>9, FillEvent, SMT
  <2> QED
    BY <1>2, <1>5, <1>7, <2>10, SMT DEF VenueStatus
<1>8. CASE o.filled_qty = r.filled_qty
  <2>1. x = << >> \/ x = <<create_reconciliation_accepted(w, r)>>
    <3>1. CASE w.status = r.status
      BY <1>2, <1>5, <1>6, <1>8, <3>1 DEF reconcile_order_report
    <3>2. CASE w.status # r.status /\ r.status = "Accepted"
      BY <1>2, <1>5, <1>6, <1>8, <3>2 DEF reconcile_order_report
    <3>3. CASE w.status # r.status /\ r.status \in {"PartiallyFilled", "Filled"}
      <4>1. x = reconcile_fill_quantity_mismatch(w, r)
        BY <1>2, <1>5, <3>3 DEF reconcile_order_report
      <4> QED
        BY <1>2, <1>5, <1>6, <1>8, <4>1, SMT DEF reconcile_fill_quantity_mismatch
    <3> QED
      BY <3>1, <3>2, <3>3 DEF Behind
  <2>2. CASE x = << >>
    <3>1. n = w
      BY <1>4, <2>2, FewEvents
    <3> QED
      BY <1>2, <1>5, <1>8, <3>1, SMT
  <2>3. CASE x = <<create_reconciliation_accepted(w, r)>>
    <3> DEFINE e == create_reconciliation_accepted(w, r)
    <3>1. e.type = "Accepted"
      BY <1>1, CreatedEvents, SMT
    <3> HIDE DEF e
    <3>2. n = apply(w, e)
      BY <1>4, <2>3, <3>1, FewEvents DEF handle_event, e
    <3>3. DOMAIN w = Fields
      BY <1>1 DEF Sound
    <3>a. e.type # "Filled" /\ e.type # "Updated" /\ e.type \notin Rejections
      BY <3>1 DEF Rejections
    <3>b. /\ apply(w, e).filled_qty = w.filled_qty /\ apply(w, e).quantity = w.quantity
          /\ apply(w, e).status = StatusAfter(w, e)
      BY <3>3, <3>a, OtherEvent
    <3>4. /\ n.filled_qty = w.filled_qty /\ n.quantity = w.quantity
          /\ n.status = StatusAfter(w, e)
      BY <3>2, <3>b
    <3>5. n.status # "Filled"
      <4>1. SavePrevious(w, e).status = w.status
        BY <3>3, Saved
      <4>2. Applies(SavePrevious(w, e), e) => transition[w.status][e.type] # "Filled"
        BY <1>2, <3>1, <4>1, LeadFacts DEF Applies
      <4> QED
        BY <1>2, <3>4, <3>a, <4>2 DEF StatusAfter
    <3> QED
      BY <1>2, <1>5, <1>8, <3>4, <3>5, SMT
  <2> QED
    BY <2>1, <2>2, <2>3
<1> QED
  BY <1>2, <1>5, <1>7, <1>8, SMT

-----------------------------------------------------------------------------
(* What is on its way. *)

Commands ==
    [type : {"Submit"}, req : {1}]
    \cup [type : {"Modify"}, req : Nat, quantity : 1 .. RawMax]
    \cup [type : {"Cancel"}, req : Nat]

\* How the venue answers a request.
VenueAnswers ==
    {"Accepted", "Rejected", "Updated", "ModifyRejected", "Canceled", "CancelRejected"}

GoodMessage(msg, v) ==
    /\ msg.kind \in {"Event", "Order", "Fill", "OrderWithFills"}
    /\ msg.kind = "Event" =>
          /\ msg.event.type \in {"Submitted", "Filled"} \cup VenueAnswers
          /\ msg.event.type = "Updated" => msg.event.quantity \in 1 .. RawMax
          /\ msg.event.type \in {"Accepted", "Updated"} => msg.event.venue_order_id = 1
          /\ msg.event.type = "Filled" => IsVenueTrade(msg.event, v)
    /\ msg.kind \in {"Order", "OrderWithFills"} => GoodReport(msg.status, v)
    /\ msg.kind = "Fill" => IsVenueTrade(msg.fill, v)
    /\ msg.kind = "OrderWithFills" => TradeReports(msg.fills, v) /\ Len(msg.fills) > 0

\* Before it has the order, the venue has made no trade.
GoodVenue(b) ==
    /\ DOMAIN b = {"status", "quantity", "filled_qty", "venue_order_id"}
    /\ b.filled_qty \in Nat /\ b.venue_order_id = 1
    /\ \/ b.status = None /\ b.filled_qty = 0 /\ b.quantity \in 1 .. RawMax
       \/ GoodReport(b, b.filled_qty)

GoodCheck(c, v) ==
    c # None => /\ DOMAIN c = {"filtered", "answered", "reports"}
                /\ c.reports = << >> \/ GoodReport(c.reports[1], v)

\* The venue has not the order yet while the submit is on its way.
SubmitPending ==
    /\ \A i \in 1 .. Len(commands) : commands[i].type = "Submit" =>
          i = 1 /\ venue.status = None /\ \A r \in wire : r.type # "Submit"
    /\ \A r \in wire : r.type = "Submit" => venue.status = None

Delivery ==
    /\ bounds \in Bounds
    /\ GoodVenue(venue)
    /\ commands \in Seq(Commands)
    /\ wire \subseteq Commands \cup {[type |-> "Query"]}
    /\ SubmitPending
    /\ \A msg \in net : GoodMessage(msg, venue.filled_qty)
    /\ GoodCheck(open_check, venue.filled_qty)
    /\ Sound(order, venue.filled_qty)

LEMMA MessagesKept ==
    ASSUME NEW v \in Nat, NEW u \in Nat, v <= u
    PROVE  /\ \A msg : GoodMessage(msg, v) => GoodMessage(msg, u)
           /\ \A c : GoodCheck(c, v) => GoodCheck(c, u)
<1>1. /\ \A f : IsVenueTrade(f, v) => IsVenueTrade(f, u)
      /\ \A r : GoodReport(r, v) => GoodReport(r, u)
      /\ \A fills : TradeReports(fills, v) => TradeReports(fills, u)
  BY MoreTrades
<1> QED
  BY <1>1 DEF GoodMessage, GoodCheck

LEMMA DeliveryInit == Init => Delivery
<1> SUFFICES ASSUME Init
             PROVE  Delivery
  OBVIOUS
<1> USE DEF Init
<1>1. OrderQty \in 1 .. RawMax
  BY LiveAssumption
<1>2. bounds \in Bounds /\ net = {} /\ wire = {} /\ venue.filled_qty = 0
  OBVIOUS
<1>3. GoodVenue(venue)
  BY <1>1 DEF GoodVenue
<1>4. commands \in Seq(Commands) /\ SubmitPending
  BY SMT DEF Commands, SubmitPending
<1>5. GoodCheck(open_check, 0)
  BY DEF GoodCheck
<1>6. Sound(order, 0)
  <2>1. order = NewOrder("Limit", OrderQty, FALSE)
    OBVIOUS
  <2>2. /\ DOMAIN order = Fields /\ order.order_type = "Limit" /\ order.emulation_trigger = FALSE
        /\ order.status = "Initialized" /\ order.previous_status = None
        /\ order.quantity = OrderQty /\ order.filled_qty = 0 /\ order.fills = {}
    BY <2>1, SMT DEF NewOrder, Fields
  <2>3. "Initialized" \in OrderStatus /\ "Initialized" \notin Pending
    BY DEF OrderStatus, Pending
  <2>4. Cardinality({}) = 0
    BY FS_EmptySet
  <2> HIDE DEF Init
  <2>5. InferredBelow(order) /\ Counted(order, 0)
    BY <2>2, <2>4, SMT DEF InferredBelow, Counted
  <2>6. RawMax \in Nat /\ 0 \in 0 .. RawMax
    BY RawMaxAssumption, SMT
  <2> QED
    BY <1>1, <2>2, <2>3, <2>5, <2>6 DEF Sound
<1> QED
  BY <1>2, <1>3, <1>4, <1>5, <1>6 DEF Delivery

\* A request of the strategy.
LEMMA DeliveryRequest ==
    ASSUME Delivery, NEW command \in Commands, command.type # "Submit",
           NEW pending \in Pending, Request(command, pending)
    PROVE  Delivery'
<1>1. venue.filled_qty \in Nat
  BY DEF Delivery, GoodVenue
<1>2. Sound(order', venue.filled_qty)
  <2>1. GoodEvent(order, [type |-> pending], venue.filled_qty)
    BY <1>1, PlainEvents DEF Pending, PlainEventType
  <2>2. Sound(apply(order, [type |-> pending]), venue.filled_qty)
    BY <1>1, <2>1, OtherKeeps DEF Delivery, Pending
  <2> QED
    BY <2>2 DEF Delivery, Request
<1>3. commands' \in Seq(Commands)
  BY SMT DEF Delivery, Request
<1>4. SubmitPending'
  <2>1. /\ \A i \in 1 .. Len(commands) : commands'[i] = commands[i]
        /\ Len(commands') = Len(commands) + 1 /\ commands'[Len(commands) + 1] = command
        /\ Len(commands) \in Nat
    BY SMT DEF Delivery, Request
  <2>2. wire' = wire /\ venue' = venue
    BY DEF Request
  <2>3. ASSUME NEW i \in 1 .. Len(commands'), commands'[i].type = "Submit"
        PROVE  i = 1 /\ venue.status = None /\ \A r \in wire : r.type # "Submit"
    <3>1. i \in 1 .. Len(commands)
      BY <2>1, <2>3, SMT
    <3> QED
      BY <2>1, <2>3, <3>1 DEF Delivery, SubmitPending
  <2> QED
    BY <2>2, <2>3 DEF Delivery, SubmitPending
<1> QED
  BY <1>2, <1>3, <1>4 DEF Delivery, Request

LEMMA DeliveryCommand ==
    ASSUME Delivery, HandleCommand
    PROVE  Delivery'
<1>1. /\ commands # << >> /\ commands \in Seq(Commands) /\ commands' = Tail(commands)
      /\ wire' = wire \cup {Head(commands)}
      /\ UNCHANGED <<bounds, order, open_check, venue, history>>
  BY DEF Delivery, HandleCommand
<1>2. /\ Head(commands) \in Commands /\ commands' \in Seq(Commands) /\ Len(commands) \in Nat \ {0}
      /\ Head(commands) = commands[1] /\ Len(commands') = Len(commands) - 1
      /\ \A i \in 1 .. Len(commands') : commands'[i] = commands[i + 1]
  BY <1>1, SMT
<1>3. SubmitPending'
  <2>1. ASSUME NEW i \in 1 .. Len(commands')
        PROVE  commands'[i].type # "Submit"
    <3>1. i + 1 \in 1 .. Len(commands) /\ i + 1 # 1
      BY <1>2, SMT
    <3> QED
      BY <1>2, <3>1 DEF Delivery, SubmitPending
  <2>2. commands[1].type = "Submit" => venue.status = None
    BY <1>2, SMT DEF Delivery, SubmitPending
  <2>3. \A r \in wire' : r.type = "Submit" => venue.status = None
    BY <1>1, <1>2, <2>2 DEF Delivery, SubmitPending
  <2> QED
    BY <1>1, <2>1, <2>3 DEF SubmitPending
<1>4. \A msg \in net' : GoodMessage(msg, venue.filled_qty)
  <2> DEFINE m == [kind |-> "Event", req |-> 1, event |-> [type |-> "Submitted"]]
  <2>1. GoodMessage(m, venue.filled_qty)
    BY DEF GoodMessage
  <2>2. net' \subseteq net \cup {m}
    BY DEF HandleCommand
  <2> QED
    BY <2>1, <2>2 DEF Delivery
<1> QED
  BY <1>1, <1>2, <1>3, <1>4 DEF Delivery

\* A step of the node that only takes a message and changes the order.
LEMMA DeliveryHandled ==
    ASSUME Delivery, Sound(order', venue.filled_qty), net' \subseteq net,
           commands' = commands, venue' = venue, bounds' = bounds,
           wire' \subseteq wire \cup {[type |-> "Query"]},
           open_check' = open_check \/ open_check' = None
    PROVE  Delivery'
<1>1. SubmitPending'
  BY SMT DEF Delivery, SubmitPending
<1>2. GoodCheck(open_check', venue.filled_qty)
  BY DEF Delivery, GoodCheck
<1>3. /\ \A msg \in net' : GoodMessage(msg, venue.filled_qty)
      /\ wire' \subseteq Commands \cup {[type |-> "Query"]}
  BY DEF Delivery
<1> QED
  BY <1>1, <1>2, <1>3 DEF Delivery

LEMMA DeliveryEvent ==
    ASSUME Delivery, NEW msg \in net, HandleOrderEvent(msg)
    PROVE  Sound(order', venue.filled_qty) /\ Delivery'
<1>1. /\ venue.filled_qty \in Nat /\ Sound(order, venue.filled_qty)
      /\ GoodMessage(msg, venue.filled_qty) /\ msg.kind = "Event"
      /\ order' = handle_event(order, msg.event)
  BY DEF Delivery, GoodVenue, HandleOrderEvent
<1>2. GoodEvent(order, msg.event, venue.filled_qty)
  BY <1>1 DEF GoodMessage, GoodEvent, VenueAnswers, OrderEventType, PlainEventType
<1>3. Sound(order', venue.filled_qty)
  BY <1>1, <1>2, EventKeeps
<1> QED
  BY <1>3, DeliveryHandled DEF HandleOrderEvent

LEMMA DeliveryReport ==
    ASSUME Delivery, NEW msg \in net, HandleReport(msg)
    PROVE  Delivery'
<1> DEFINE v == venue.filled_qty
<1>1. v \in Nat /\ Sound(order, v) /\ GoodMessage(msg, v)
  BY DEF Delivery, GoodVenue
<1>2. Sound(order', v)
  <2>1. CASE order' = order
    BY <1>1, <2>1
  <2>2. CASE msg.kind = "Order" /\ order' = reconcile_order_status_report(order, msg.status)
    <3>1. GoodReport(msg.status, v)
      BY <1>1, <2>2 DEF GoodMessage
    <3> HIDE DEF v
    <3> QED
      BY <1>1, <2>2, <3>1, StatusReportKeeps
  <2>3. CASE msg.kind = "Fill" /\ order' = handle_events(order, reconcile_fill_report(order, msg.fill))
    <3>1. IsVenueTrade(msg.fill, v)
      BY <1>1, <2>3 DEF GoodMessage
    <3> HIDE DEF v
    <3> QED
      BY <1>1, <2>3, <3>1, FillReportEvents, OneEventKeeps
  <2>4. CASE /\ msg.kind = "OrderWithFills"
             /\ order' = reconcile_order_with_fills(order, msg.status, msg.fills)
    <3>1. GoodReport(msg.status, v) /\ TradeReports(msg.fills, v)
      BY <1>1, <2>4 DEF GoodMessage
    <3> HIDE DEF v
    <3> QED
      BY <1>1, <2>4, <3>1, WithFillsKeeps
  <2> QED
    BY <2>1, <2>2, <2>3, <2>4 DEF HandleReport
<1> QED
  BY <1>2, DeliveryHandled DEF HandleReport

LEMMA DeliveryInflight ==
    ASSUME Delivery, CheckInflightOrders
    PROVE  Delivery'
<1> DEFINE v == venue.filled_qty
<1>1. v \in Nat /\ Sound(order, v)
  BY DEF Delivery, GoodVenue
<1>2. order' = order \/ order' = handle_events(order, timeout_events(order))
  BY DEF CheckInflightOrders
<1>3. Sound(order', v)
  <2> HIDE DEF v
  <2> QED
    BY <1>1, <1>2, TimeoutEvents, OneEventKeeps
<1>4. /\ net' \subseteq net /\ commands' = commands /\ venue' = venue /\ bounds' = bounds
      /\ wire' \subseteq wire \cup {[type |-> "Query"]} /\ open_check' = open_check
  BY DEF CheckInflightOrders
<1> QED
  BY <1>3, <1>4, DeliveryHandled

\* The events of the open-order check, and what the order then is.
LEMMA OpenCheckEvents ==
    ASSUME Delivery, NEW recent, ReconcileOpenOrderReports(recent)
    PROVE  \E events : /\ OneEvent(order, events, venue.filled_qty)
                       /\ order' = handle_events(order, events)
<1> DEFINE v == venue.filled_qty
           m == handle_missing_order(manager, recent)
<1>1. v \in Nat /\ Sound(order, v) /\ GoodCheck(open_check, v)
  BY DEF Delivery, GoodVenue
<1>2. open_check # None
  BY DEF ReconcileOpenOrderReports
<1>3. OneEvent(order, << >>, v) /\ OneEvent(order, m.events, v)
  <2>1. OneEvent(order, << >>, v) /\ OneEvent(order, <<[type |-> "Rejected"]>>, v)
    BY <1>1, PlainEvents DEF OneEvent, PlainEventType
  <2> QED
    BY <2>1 DEF handle_missing_order
<1>4. open_check.reports # << >> =>
        OneEvent(order, reconcile_order_report(order, open_check.reports[1]), v)
  BY <1>1, <1>2, ReportEvents DEF GoodCheck
<1>5. \/ order' = handle_events(order, << >>)
      \/ order' = handle_events(order, m.events)
      \/ /\ open_check.reports # << >>
         /\ order' = handle_events(order, reconcile_order_report(order, open_check.reports[1]))
  BY DEF ReconcileOpenOrderReports
<1> QED
  BY <1>3, <1>4, <1>5

LEMMA DeliveryOpenCheck ==
    ASSUME Delivery, NEW recent, ReconcileOpenOrderReports(recent)
    PROVE  Delivery'
<1>1. PICK events : /\ OneEvent(order, events, venue.filled_qty)
                    /\ order' = handle_events(order, events)
  BY OpenCheckEvents
<1>2. Sound(order', venue.filled_qty)
  BY <1>1, OneEventKeeps DEF Delivery, GoodVenue
<1> QED
  BY <1>2, DeliveryHandled DEF ReconcileOpenOrderReports

\* The venue handles a request, or trades.
LEMMA DeliveryVenue ==
    ASSUME Delivery, NEW r \in wire, NEW accepts \in BOOLEAN, VenueHandles(r, accepts)
    PROVE  Delivery'
<1>1. /\ GoodVenue(venue) /\ venue.filled_qty \in Nat /\ r \in Commands /\ wire' = wire \ {r}
      /\ UNCHANGED <<bounds, order, commands, open_check>>
  BY SMT DEF Delivery, GoodVenue, VenueHandles
<1>2. /\ GoodVenue(venue') /\ venue'.filled_qty = venue.filled_qty
      /\ venue.status # None \/ r.type = "Submit" \/ venue' = venue
  <2>1. CASE r.type = "Submit"
    <3>1. venue.status = None
      BY <2>1 DEF Delivery, SubmitPending
    <3>2. /\ DOMAIN venue = {"status", "quantity", "filled_qty", "venue_order_id"}
          /\ venue.venue_order_id = 1 /\ venue.filled_qty = 0 /\ venue.quantity \in 1 .. RawMax
      BY <1>1, <3>1, NoneIsNoStatus DEF GoodVenue, GoodReport, ReportStatus, OrderStatus
    <3>3. \E s \in {"Accepted", "Rejected"} : venue' = [venue EXCEPT !.status = s]
      BY <2>1 DEF VenueHandles
    <3>4. PICK s \in {"Accepted", "Rejected"} : venue' = [venue EXCEPT !.status = s]
      BY <3>3
    <3>5. /\ DOMAIN venue' = DOMAIN venue /\ venue'.status = s
          /\ venue'.quantity = venue.quantity /\ venue'.filled_qty = 0
          /\ venue'.venue_order_id = 1
      BY <3>2, <3>4
    <3>6. RawMax \in Nat /\ s \in ReportStatus /\ VenueStatus(0, venue.quantity) = "Accepted"
      BY RawMaxAssumption DEF ReportStatus, VenueStatus
    <3>7. GoodReport(venue', 0)
      BY <3>2, <3>5, <3>6, SMT DEF GoodReport
    <3> QED
      BY <2>1, <3>2, <3>5, <3>7, SMT DEF GoodVenue
  <2>2. CASE r.type # "Submit" /\ venue' = venue
    BY <1>1, <2>2
  <2>3. CASE r.type = "Modify" /\ venue' # venue
    <3>1. /\ is_working /\ r.quantity > venue.filled_qty
          /\ venue' = [venue EXCEPT !.quantity = r.quantity]
      BY <2>3 DEF VenueHandles
    <3>2. r.quantity \in 1 .. RawMax
      BY <1>1, <2>3 DEF Commands
    <3>3. /\ DOMAIN venue = {"status", "quantity", "filled_qty", "venue_order_id"}
          /\ GoodReport(venue, venue.filled_qty) /\ venue.status # None
          /\ venue.venue_order_id = 1
      BY <1>1, <3>1, NoneIsNoStatus DEF is_working, GoodVenue, OrderStatus
    <3>4. /\ DOMAIN venue' = DOMAIN venue /\ venue'.quantity = r.quantity
          /\ venue'.status = venue.status /\ venue'.filled_qty = venue.filled_qty
          /\ venue'.venue_order_id = 1
      BY <3>1, <3>3
    <3>5. VenueStatus(venue.filled_qty, r.quantity) = venue.status
      BY <3>1, <3>2, <3>3 DEF VenueStatus, GoodReport, is_working
    <3>6. GoodReport(venue', venue.filled_qty)
      BY <1>1, <3>1, <3>2, <3>3, <3>4, <3>5, SMT DEF GoodReport
    <3> QED
      BY <1>1, <3>3, <3>4, <3>6 DEF GoodVenue
  <2>4. CASE r.type = "Cancel" /\ venue' # venue
    <3>1. is_working /\ venue' = [venue EXCEPT !.status = "Canceled"]
      BY <2>4 DEF VenueHandles
    <3>2. /\ DOMAIN venue = {"status", "quantity", "filled_qty", "venue_order_id"}
          /\ GoodReport(venue, venue.filled_qty) /\ venue.status # None
          /\ venue.venue_order_id = 1
      BY <1>1, <3>1, NoneIsNoStatus DEF is_working, GoodVenue, OrderStatus
    <3>3. /\ DOMAIN venue' = DOMAIN venue /\ venue'.quantity = venue.quantity
          /\ venue'.status = "Canceled" /\ venue'.filled_qty = venue.filled_qty
          /\ venue'.venue_order_id = 1
      BY <3>1, <3>2
    <3>4. GoodReport(venue', venue.filled_qty)
      BY <3>2, <3>3 DEF GoodReport, ReportStatus
    <3> QED
      BY <1>1, <3>2, <3>3, <3>4 DEF GoodVenue
  <2> QED
    BY <1>1, <2>1, <2>2, <2>3, <2>4 DEF Commands
<1>3. SubmitPending'
  <2>1. CASE r.type = "Submit"
    <3>1. \A i \in 1 .. Len(commands) : commands[i].type # "Submit"
      BY <2>1 DEF Delivery, SubmitPending
    <3>2. \A q \in wire' : q.type # "Submit"
      <4>1. r \in [type : {"Submit"}, req : {1}]
        BY <1>1, <2>1 DEF Commands
      <4>2. ASSUME NEW q \in wire, q.type = "Submit"
            PROVE  q = r
        <5>1. q \in [type : {"Submit"}, req : {1}]
          BY <4>2, SMT DEF Delivery, Commands
        <5> QED
          BY <4>1, <5>1, SMT
      <4> QED
        BY <1>1, <4>2
    <3> QED
      BY <1>1, <3>1, <3>2 DEF SubmitPending
  <2>2. CASE r.type # "Submit"
    <3>1. venue.status = None => venue'.status = None
      BY <1>2, <2>2
    <3> QED
      BY <1>1, <3>1 DEF Delivery, SubmitPending
  <2> QED
    BY <2>1, <2>2
<1>4. \A msg \in net' : GoodMessage(msg, venue.filled_qty)
  <2>1. \E e : /\ net' = net \cup {Event(r.req, e)}
               /\ e.type \in VenueAnswers
               /\ e.type = "Updated" => e.quantity \in 1 .. RawMax
               /\ e.type \in {"Accepted", "Updated"} => e.venue_order_id = 1
    <3>1. CASE r.type = "Submit"
      BY <1>1, <3>1, SMT DEF VenueHandles, VenueAnswers, GoodVenue
    <3>2. CASE r.type = "Modify"
      <4>1. r.quantity \in 1 .. RawMax
        BY <1>1, <3>2 DEF Commands
      <4> QED
        BY <1>1, <3>2, <4>1, SMT DEF VenueHandles, VenueAnswers, GoodVenue
    <3>3. CASE r.type = "Cancel"
      BY <3>3, SMT DEF VenueHandles, VenueAnswers
    <3> QED
      BY <1>1, <3>1, <3>2, <3>3 DEF Commands
  <2>2. PICK e : /\ net' = net \cup {Event(r.req, e)}
                 /\ e.type \in VenueAnswers
                 /\ e.type = "Updated" => e.quantity \in 1 .. RawMax
                 /\ e.type \in {"Accepted", "Updated"} => e.venue_order_id = 1
    BY <2>1
  <2>3. GoodMessage(Event(r.req, e), venue.filled_qty)
    BY <2>2 DEF Event, GoodMessage, VenueAnswers
  <2> QED
    BY <2>2, <2>3 DEF Delivery
<1> QED
  BY <1>1, <1>2, <1>3, <1>4 DEF Delivery

LEMMA DeliveryTrade ==
    ASSUME Delivery, VenueFills
    PROVE  Delivery'
<1> DEFINE v == venue.filled_qty
           n == v + 1
           e == [type |-> "Filled", trade_id |-> VenueTrade(n), last_qty |-> 1,
                 venue_order_id |-> venue.venue_order_id, position_id |-> None]
<1>1. /\ is_working
      /\ venue' = [venue EXCEPT !.filled_qty = n, !.status = VenueStatus(n, venue.quantity)]
      /\ net' = net \cup {Event(0, e)}
      /\ UNCHANGED <<bounds, order, commands, open_check, wire>>
  BY DEF VenueFills
<1>2. /\ DOMAIN venue = {"status", "quantity", "filled_qty", "venue_order_id"}
      /\ GoodReport(venue, v) /\ venue.status # None /\ v \in Nat
      /\ venue.venue_order_id = 1
  BY <1>1, NoneIsNoStatus DEF is_working, Delivery, GoodVenue, OrderStatus
<1>3. /\ DOMAIN venue' = DOMAIN venue /\ venue'.filled_qty = n
      /\ venue'.quantity = venue.quantity /\ venue'.status = VenueStatus(n, venue.quantity)
      /\ venue'.venue_order_id = 1
  BY <1>1, <1>2
<1>4. n <= venue.quantity
  BY <1>1, <1>2, SMT DEF GoodReport, VenueStatus, is_working
<1>5. GoodReport(venue', n)
  BY <1>2, <1>3, <1>4, RawMaxAssumption, SMT DEF GoodReport, ReportStatus, VenueStatus
<1>6. GoodVenue(venue')
  BY <1>2, <1>3, <1>5, SMT DEF GoodVenue
<1>7. SubmitPending'
  BY <1>1, <1>2 DEF Delivery, SubmitPending
<1>8. GoodMessage(Event(0, e), n)
  <2>1. IsVenueTrade(e, n)
    BY <1>2, SMT DEF IsVenueTrade
  <2>2. e.type = "Filled"
    OBVIOUS
  <2> HIDE DEF e
  <2> QED
    BY <2>1, <2>2 DEF Event, GoodMessage
<1>9. /\ \A msg \in net : GoodMessage(msg, n)
      /\ GoodCheck(open_check, n) /\ Sound(order, n)
  <2>1. n \in Nat /\ v <= n
    BY <1>2, SMT
  <2>2. Sound(order, v) /\ GoodCheck(open_check, v) /\ \A msg \in net : GoodMessage(msg, v)
    BY DEF Delivery
  <2> HIDE DEF n, v
  <2>3. v \in Nat
    BY <1>2
  <2> QED
    BY <2>1, <2>2, <2>3, MessagesKept, MoreTrades
<1> QED
  BY <1>1, <1>3, <1>6, <1>7, <1>8, <1>9 DEF Delivery

LEMMA DeliveryQuery ==
    ASSUME Delivery, VenueAnswersQuery
    PROVE  Delivery'
<1> DEFINE v == venue.filled_qty
           trades == [n \in 1 .. v |-> Trade(n)]
<1>1. v \in Nat /\ GoodReport(venue, v)
  BY DEF Delivery, GoodVenue, VenueAnswersQuery
<1>2. /\ \A n \in 1 .. v : IsVenueTrade(trades[n], v)
      /\ Len(trades) = v
  BY <1>1, SMT DEF IsVenueTrade, Trade
<1>3. ASSUME NEW msg \in net'
      PROVE  GoodMessage(msg, v)
  <2>1. CASE msg \in net
    BY <2>1 DEF Delivery
  <2>2. CASE msg = [kind |-> "Order", status |-> venue]
    BY <1>1, <2>2 DEF GoodMessage
  <2>3. CASE \E n \in 1 .. v : msg = [kind |-> "Fill", fill |-> trades[n]]
    <3> HIDE DEF trades
    <3> QED
      BY <1>2, <2>3, SMT DEF GoodMessage
  <2>4. CASE msg = [kind |-> "OrderWithFills", status |-> venue, fills |-> trades]
    <3>1. TradeReports(trades, v)
      BY <1>1, <1>2 DEF TradeReports
    <3>2. v > 0 \/ msg \in net
      <4>1. v = 0 => trades = << >>
        BY SMT
      <4> QED
        BY <1>1, <1>3, <2>4, <4>1, SMT DEF VenueAnswersQuery
    <3> HIDE DEF trades
    <3>3. CASE msg \in net
      BY <3>3 DEF Delivery
    <3> QED
      BY <1>1, <1>2, <2>4, <3>1, <3>2, <3>3 DEF GoodMessage
  <2> QED
    BY <1>3, <2>1, <2>2, <2>3, <2>4 DEF VenueAnswersQuery
<1>4. UNCHANGED <<bounds, order, commands, open_check, venue>> /\ wire' \subseteq wire
  BY DEF VenueAnswersQuery
<1>5. SubmitPending'
  BY <1>4 DEF Delivery, SubmitPending
<1> QED
  BY <1>3, <1>4, <1>5 DEF Delivery

LEMMA DeliveryOpenAnswer ==
    ASSUME Delivery, NEW failed \in BOOLEAN, VenueAnswersOpenCheck(failed)
    PROVE  Delivery'
<1> DEFINE v == venue.filled_qty
<1>1. GoodCheck(open_check, v) /\ open_check # None
  BY DEF Delivery, VenueAnswersOpenCheck
<1>2. venue.status = None \/ GoodReport(venue, v)
  BY DEF Delivery, GoodVenue
<1>3. GoodCheck(open_check', v)
  <2>1. PICK reports : /\ open_check' = [open_check EXCEPT !.answered = TRUE, !.reports = reports]
                       /\ reports = << >> \/ (reports = <<venue>> /\ venue.status # None)
    BY DEF VenueAnswersOpenCheck
  <2>2. DOMAIN open_check = {"filtered", "answered", "reports"}
    BY <1>1 DEF GoodCheck
  <2>3. DOMAIN open_check' = {"filtered", "answered", "reports"} /\ open_check'.reports = reports
    BY <2>1, <2>2
  <2> QED
    BY <1>2, <2>1, <2>3, SMT DEF GoodCheck
<1>4. UNCHANGED <<bounds, order, commands, wire, net, venue>>
  BY DEF VenueAnswersOpenCheck
<1> QED
  BY <1>3, <1>4 DEF Delivery, SubmitPending

LEMMA DeliveryStep ==
    ASSUME Delivery, [Next]_vars, history.requests \in Nat
    PROVE  Delivery'
<1>1. ASSUME NEW qty \in bounds.quantities, ModifyOrder(qty)
      PROVE  Delivery'
  <2> DEFINE c == [type |-> "Modify", req |-> history.requests + 1, quantity |-> qty]
  <2>1. qty \in 1 .. RawMax
    BY LiveAssumption DEF Delivery
  <2>2. c \in Commands /\ c.type # "Submit" /\ "PendingUpdate" \in Pending
    BY <2>1, SMT DEF Commands, Pending
  <2>3. Request(c, "PendingUpdate")
    BY <1>1 DEF ModifyOrder
  <2> HIDE DEF c
  <2> QED
    BY <2>2, <2>3, DeliveryRequest
<1>2. CASE CancelOrder
  <2> DEFINE c == [type |-> "Cancel", req |-> history.requests + 1]
  <2>1. c \in Commands /\ c.type # "Submit" /\ "PendingCancel" \in Pending
    BY SMT DEF Commands, Pending
  <2>2. Request(c, "PendingCancel")
    BY <1>2 DEF CancelOrder
  <2> HIDE DEF c
  <2> QED
    BY <2>1, <2>2, DeliveryRequest
<1>3. CASE Node
  BY <1>3, DeliveryCommand, DeliveryEvent, DeliveryReport, DeliveryInflight DEF Node
<1>4. CASE PruneRecentFills \/ Tick
  BY <1>4 DEF PruneRecentFills, Tick, Delivery, SubmitPending
<1>5. CASE StartOpenOrderReportCheck
  <2>1. GoodCheck(open_check', venue.filled_qty)
    BY <1>5 DEF StartOpenOrderReportCheck, GoodCheck
  <2>2. UNCHANGED <<bounds, order, commands, wire, net, venue>>
    BY <1>5 DEF StartOpenOrderReportCheck
  <2> QED
    BY <2>1, <2>2 DEF Delivery, SubmitPending
<1>6. ASSUME NEW recent \in BOOLEAN, ReconcileOpenOrderReports(recent)
      PROVE  Delivery'
  BY <1>6, DeliveryOpenCheck
<1>7. CASE Environment
  BY <1>7, DeliveryVenue, DeliveryTrade, DeliveryQuery, DeliveryOpenAnswer DEF Environment
<1>8. CASE UNCHANGED vars
  BY <1>8 DEF vars, Delivery, SubmitPending
<1> QED
  BY <1>1, <1>2, <1>3, <1>4, <1>5, <1>6, <1>7, <1>8 DEF Next

LEMMA RequestsCounted ==
    ASSUME DOMAIN history = {"requests", "crossed", "reports", "open_checks"},
           history.requests \in Nat, [Next]_vars
    PROVE  /\ DOMAIN history' = {"requests", "crossed", "reports", "open_checks"}
           /\ history'.requests \in Nat
<1>1. CASE \/ \E qty \in bounds.quantities : ModifyOrder(qty)
           \/ CancelOrder
  <2>1. PICK crossed : history' = [history EXCEPT !.requests = @ + 1, !.crossed = crossed]
    BY <1>1 DEF ModifyOrder, CancelOrder, Request
  <2> QED
    BY <2>1, SMT
<1>2. CASE Node \/ PruneRecentFills \/ Tick \/ UNCHANGED vars
  BY <1>2 DEF Node, HandleCommand, HandleOrderEvent, HandleReport, CheckInflightOrders,
              PruneRecentFills, Tick, vars
<1>3. CASE StartOpenOrderReportCheck \/ \E recent \in BOOLEAN : ReconcileOpenOrderReports(recent)
  BY <1>3 DEF StartOpenOrderReportCheck, ReconcileOpenOrderReports
<1>4. CASE Environment
  BY <1>4 DEF Environment, VenueHandles, VenueFills, VenueAnswersQuery, VenueAnswersOpenCheck
<1> QED
  BY <1>1, <1>2, <1>3, <1>4 DEF Next

Delivers ==
    /\ Delivery
    /\ DOMAIN history = {"requests", "crossed", "reports", "open_checks"}
    /\ history.requests \in Nat

LEMMA AlwaysDelivers == Spec => []Delivers
<1>1. Init => Delivers
  <2>1. Init => /\ DOMAIN history = {"requests", "crossed", "reports", "open_checks"}
                /\ history.requests \in Nat
    BY SMT DEF Init
  <2> QED
    BY <2>1, DeliveryInit DEF Delivers
<1>2. Delivers /\ [Next]_vars => Delivers'
  BY DeliveryStep, RequestsCounted DEF Delivers
<1> QED
  BY <1>1, <1>2, PTL DEF Spec

\* The order never counts more than the venue traded without holding an inferred fill:
\* the same trade, however often and through whichever channel it comes, is applied once.
THEOREM OvercountsAreInferred == Spec => []OvercountNeedsInference
<1>1. Delivers => OvercountNeedsInference
  <2> SUFFICES ASSUME Delivery, order.filled_qty > venue.filled_qty,
                      ~ \E f \in order.fills : is_inferred(f)
               PROVE  FALSE
    BY DEF Delivers, OvercountNeedsInference
  <2>1. /\ venue.filled_qty \in Nat /\ order.filled_qty \in 0 .. RawMax
        /\ order.fills \subseteq VenueTrades(venue.filled_qty)
        /\ order.filled_qty <= Cardinality(order.fills)
    BY DEF Delivery, GoodVenue, Sound, Counted
  <2>2. /\ Cardinality(order.fills) \in Nat
        /\ Cardinality(order.fills) <= venue.filled_qty
    BY <2>1, VenueTradesFinite
  <2> QED
    BY <2>1, <2>2, RawMaxAssumption, SMT
<1> QED
  BY <1>1, AlwaysDelivers, PTL

\* reconcile_order_status_report brings an order that is behind the report, and has no
\* request outstanding, to the reported quantity and fills, fills it when the venue has filled
\* it and the node lacked some of the fills, and never fills it when the venue has not.
THEOREM ReportsAlwaysAdopted == Spec => ReportIsAdopted
<1>1. ASSUME Delivers, NEW msg \in net, msg.kind = "Order", HandleReport(msg),
             order.status \in {"Submitted", "Accepted", "PartiallyFilled"},
             order.filled_qty <= msg.status.filled_qty,
             msg.status.status \in {"Accepted", "PartiallyFilled", "Filled"}
      PROVE  /\ order'.quantity = msg.status.quantity
             /\ order'.filled_qty = msg.status.filled_qty
             /\ order'.status = "Filled" => msg.status.status = "Filled"
             /\ /\ msg.status.status = "Filled"
                /\ order.filled_qty < msg.status.filled_qty
                => order'.status = "Filled"
  <2>1. /\ venue.filled_qty \in Nat /\ Sound(order, venue.filled_qty)
        /\ GoodReport(msg.status, venue.filled_qty)
    BY <1>1 DEF Delivers, Delivery, GoodVenue, GoodMessage
  <2>2. order' = reconcile_order_status_report(order, msg.status)
    BY <1>1 DEF HandleReport
  <2>3. Behind(order, msg.status)
    BY <1>1 DEF Behind
  <2> QED
    BY <2>1, <2>2, <2>3, Adopted, SMT
<1>2. Delivers =>
        \A msg \in net :
         /\ msg.kind = "Order"
         /\ HandleReport(msg)
         /\ order.status \in {"Submitted", "Accepted", "PartiallyFilled"}
         /\ order.filled_qty <= msg.status.filled_qty
         /\ msg.status.status \in {"Accepted", "PartiallyFilled", "Filled"}
         => /\ order'.quantity = msg.status.quantity
            /\ order'.filled_qty = msg.status.filled_qty
            /\ order'.status = "Filled" => msg.status.status = "Filled"
            /\ /\ msg.status.status = "Filled"
               /\ order.filled_qty < msg.status.filled_qty
               => order'.status = "Filled"
  BY <1>1
<1> QED
  BY <1>2, AlwaysDelivers, PTL DEF ReportIsAdopted

-----------------------------------------------------------------------------
(* Requests about an order that has not traded. *)

\* The order, when the venue knows it as 1 and has made no trade.
Untraded(o) ==
    /\ DOMAIN o = Fields /\ o.order_type = "Limit"
    /\ o.status \in {"Initialized", "Submitted", "Accepted", "Rejected", "Canceled"} \cup Pending
    /\ o.status \in Pending => o.previous_status = "Accepted"
    /\ o.venue_order_id \in {None, 1}

\* Where an event takes such an order.
Moved(s, t) ==
    IF t \in {"Accepted", "Rejected", "Canceled"} /\ s \notin {"Rejected", "Canceled"} THEN t
    ELSE IF t = "Submitted" /\ s = "Initialized" THEN "Submitted"
    ELSE IF \/ t \in {"Updated", "ModifyRejected"} /\ s = "PendingUpdate"
            \/ t = "CancelRejected" /\ s = "PendingCancel"
    THEN "Accepted"
    ELSE s

\* What the table has for it, when no request is pending.
LEMMA UntradedRows ==
    ASSUME NEW s \in {"Initialized", "Submitted", "Accepted", "Rejected", "Canceled"},
           NEW t \in {"Submitted"} \cup VenueAnswers
    PROVE  IF s \in DOMAIN transition /\ t \in DOMAIN transition[s]
           THEN t \notin Rejections /\ transition[s][t] = Moved(s, t)
           ELSE Moved(s, t) = s
<1>1. t \in {"Submitted", "Accepted", "Rejected", "Updated", "Canceled"} \cup Rejections
  BY DEF VenueAnswers, Rejections
<1>2. CASE s = "Initialized"
  <2>1. Row("Initialized", {"Denied", "Emulated", "Released", "Submitted", "Rejected", "Accepted",
                            "Canceled", "Expired", "Triggered"}, {"Updated"})
    BY TableRows DEF Rows
  <2> QED
    BY <1>1, <1>2, <2>1, SMT DEF Row, Moved, Rejections
<1>3. CASE s = "Submitted"
  <2>1. Row("Submitted", Pending \cup {"Rejected", "Canceled", "Accepted", "Filled"}, {"Updated"})
    BY TableRows DEF Rows
  <2> QED
    BY <1>1, <1>3, <2>1, SMT DEF Row, Moved, Rejections, Pending
<1>4. CASE s = "Accepted"
  <2>1. Row("Accepted", Pending \cup {"Rejected", "Canceled", "Triggered", "Expired", "Filled"},
                        {"Updated"})
    BY TableRows DEF Rows
  <2> QED
    BY <1>1, <1>4, <2>1, SMT DEF Row, Moved, Rejections, Pending
<1>5. CASE s = "Rejected"
  <2>1. s \notin DOMAIN transition
    BY <1>5, TableRows DEF Rows
  <2> QED
    BY <1>1, <1>5, <2>1 DEF Moved, Rejections
<1>6. CASE s = "Canceled"
  <2>1. Row("Canceled", {"Filled"}, {})
    BY TableRows DEF Rows
  <2> QED
    BY <1>1, <1>6, <2>1, SMT DEF Row, Moved, Rejections
<1> QED
  BY <1>2, <1>3, <1>4, <1>5, <1>6

\* And when one is: what ends the request takes the order back to Accepted.
LEMMA PendingRows ==
    ASSUME NEW s \in Pending, NEW t \in {"Submitted"} \cup VenueAnswers
    PROVE  IF s \in DOMAIN transition /\ t \in DOMAIN transition[s]
           THEN IF t \in Rejections \/ (t = "Updated" /\ s = "PendingUpdate")
                THEN Moved(s, t) = "Accepted"
                ELSE transition[s][t] = Moved(s, t)
           ELSE Moved(s, t) = s
<1>1. CASE s = "PendingUpdate"
  <2>1. Row("PendingUpdate", Pending \cup {"Rejected", "Accepted", "Canceled", "Expired",
                                           "Triggered", "Filled"}, {"ModifyRejected", "Updated"})
    BY TableRows DEF Rows
  <2> QED
    BY <1>1, <2>1, SMT DEF Moved, Row, VenueAnswers, Rejections, Pending
<1>2. CASE s = "PendingCancel"
  <2>1. Row("PendingCancel", {"PendingCancel", "Rejected", "Canceled", "Expired", "Accepted",
                              "Filled"}, {"CancelRejected"})
    BY TableRows DEF Rows
  <2> QED
    BY <1>2, <2>1, SMT DEF Moved, Row, VenueAnswers, Rejections
<1> QED
  BY <1>1, <1>2 DEF Pending

LEMMA UntradedEvent ==
    ASSUME NEW o, NEW e, Untraded(o), e.type \in {"Submitted"} \cup VenueAnswers,
           e.type \in {"Accepted", "Updated"} => e.venue_order_id \in {None, 1}
    PROVE  Untraded(handle_event(o, e)) /\ handle_event(o, e).status = Moved(o.status, e.type)
<1> DEFINE saved == SavePrevious(o, e)
           w == apply(o, e)
<1>1. /\ DOMAIN saved = Fields /\ saved.status = o.status /\ saved.order_type = o.order_type
      /\ saved.previous_status = IF e.type \in Rejections \/ o.status \in Pending
                                 THEN o.previous_status ELSE o.status
  BY Saved, SMT DEF Untraded, VenueAnswers, Fields
<1>2. /\ DOMAIN w = Fields /\ w.order_type = o.order_type
      /\ w.previous_status = saved.previous_status
      /\ w.status = StatusAfter(o, e)
      /\ \/ w.venue_order_id = o.venue_order_id
         \/ e.type \in {"Accepted", "Updated"} /\ w.venue_order_id = e.venue_order_id
  BY OtherEvent DEF Untraded, VenueAnswers
<1>3. handle_event(o, e) = w
  BY DEF handle_event, VenueAnswers
<1>4. w.status = Moved(o.status, e.type)
  <2> DEFINE applies == /\ o.status \in DOMAIN transition /\ e.type \in DOMAIN transition[o.status]
                        /\ e.type \in Rejections => saved.previous_status # None
  <2>1. Applies(saved, e) <=> applies
    BY <1>1 DEF Applies, VenueAnswers, Rejections
  <2>2. w.status = IF ~applies THEN o.status
                   ELSE IF \/ e.type \in Rejections
                           \/ /\ e.type = "Updated" /\ o.status = "PendingUpdate"
                              /\ saved.previous_status # None
                   THEN saved.previous_status
                   ELSE transition[o.status][e.type]
    BY <1>2, <2>1 DEF StatusAfter
  <2>3. "Accepted" # None
    BY NoneIsNoStatus DEF OrderStatus
  <2> HIDE DEF w, saved
  <2>4. CASE o.status \in Pending
    <3>1. saved.previous_status = "Accepted"
      BY <1>1, <2>4 DEF Untraded
    <3> QED
      BY <2>2, <2>3, <2>4, <3>1, PendingRows
  <2>5. CASE o.status \notin Pending
    <3>1. o.status \in {"Initialized", "Submitted", "Accepted", "Rejected", "Canceled"}
      BY <2>5 DEF Untraded
    <3>2. o.status # "PendingUpdate"
      BY <2>5 DEF Pending
    <3> QED
      BY <2>2, <3>1, <3>2, UntradedRows
  <2> QED
    BY <2>4, <2>5
<1> HIDE DEF w, saved
<1>5. /\ w.status \in {"Initialized", "Submitted", "Accepted", "Rejected", "Canceled"} \cup Pending
      /\ w.status \in Pending => w.status = o.status
  BY <1>4 DEF Moved, Untraded, Pending, VenueAnswers
<1>6. w.status \in Pending => w.previous_status = "Accepted"
  BY <1>1, <1>2, <1>5 DEF Untraded
<1>7. w.venue_order_id \in {None, 1}
  BY <1>2 DEF Untraded
<1> QED
  BY <1>2, <1>3, <1>4, <1>5, <1>6, <1>7 DEF Untraded

\* A status report about such an order settles what the order was waiting for.
LEMMA UntradedReport ==
    ASSUME NEW o, NEW r, Sound(o, 0), Untraded(o), GoodReport(r, 0),
           NEW n, n = handle_events(o, reconcile_order_report(o, r))
    PROVE  /\ Untraded(n)
           /\ o.status = "Initialized" => n.status \in {"Initialized", "Canceled"}
           /\ o.status # "Initialized" => n.status \in {"Accepted", "Rejected", "Canceled"}
<1> DEFINE a == create_reconciliation_accepted(o, r)
           u == create_reconciliation_updated(o, r)
           x == reconcile_order_report(o, r)
<1>1. /\ r.filled_qty = 0 /\ o.filled_qty = 0 /\ r.venue_order_id = 1
      /\ r.status \in {"Accepted", "Rejected", "Canceled"}
  <2>1. r.filled_qty = 0 /\ o.filled_qty = 0 /\ r.venue_order_id = 1
    BY RawMaxAssumption, SMT DEF GoodReport, Sound
  <2> QED
    BY <2>1 DEF GoodReport, ReportStatus, VenueStatus
<1>2. /\ a.type = "Accepted" /\ a.venue_order_id \in {None, 1}
      /\ u.type = "Updated" /\ u.venue_order_id \in {None, 1}
  BY <1>1 DEF create_reconciliation_accepted, create_reconciliation_updated, Untraded
<1>3. ~is_superseded(o, r)
  BY <1>1 DEF is_superseded, Untraded
<1>4. \/ x = << >> /\ o.status \in {r.status, "Initialized"}
      \/ x = <<u>> /\ o.status = r.status
      \/ x = <<a>> /\ o.status # "Initialized"
      \/ x = <<[type |-> "Rejected"]>> /\ o.status # "Initialized"
      \/ x = <<[type |-> "Canceled"]>>
  <2> HIDE DEF a, u
  <2>1. r.status \notin Pending
    BY <1>1 DEF Pending
  <2>2. CASE o.status = r.status
    BY <1>1, <2>1, <2>2 DEF reconcile_order_report, a, u
  <2>3. CASE o.status # r.status /\ r.status = "Accepted"
    BY <1>1, <2>1, <2>3 DEF reconcile_order_report, has_account_id, a, u
  <2>4. CASE o.status # r.status /\ r.status = "Rejected"
    BY <1>1, <2>1, <2>4 DEF reconcile_order_report, has_account_id
  <2>5. CASE o.status # r.status /\ r.status = "Canceled"
    BY <1>1, <1>3, <2>1, <2>5 DEF reconcile_order_report
  <2> QED
    BY <1>1, <2>2, <2>3, <2>4, <2>5
<1> HIDE DEF a, u, x
<1>5. n = handle_events(o, x)
  BY DEF x
<1>6. CASE x = << >> /\ o.status \in {r.status, "Initialized"}
  BY <1>1, <1>5, <1>6, FewEvents
<1>7. CASE x = <<u>> /\ o.status = r.status
  <2>1. n = handle_event(o, u)
    BY <1>5, <1>7, FewEvents
  <2>2. Untraded(handle_event(o, u)) /\ handle_event(o, u).status = Moved(o.status, u.type)
    BY <1>2, UntradedEvent DEF VenueAnswers
  <2> QED
    BY <1>1, <1>2, <1>7, <2>1, <2>2 DEF Moved
<1>8. CASE x = <<a>> /\ o.status # "Initialized"
  <2>1. n = handle_event(o, a)
    BY <1>5, <1>8, FewEvents
  <2>2. Untraded(handle_event(o, a)) /\ handle_event(o, a).status = Moved(o.status, a.type)
    BY <1>2, UntradedEvent DEF VenueAnswers
  <2> QED
    BY <1>2, <1>8, <2>1, <2>2 DEF Moved
<1>9. CASE \E t \in {"Rejected", "Canceled"} :
             x = <<[type |-> t]>> /\ (t = "Rejected" => o.status # "Initialized")
  <2>1. PICK t \in {"Rejected", "Canceled"} :
           x = <<[type |-> t]>> /\ (t = "Rejected" => o.status # "Initialized")
    BY <1>9
  <2> DEFINE e == [type |-> t]
  <2>2. e.type = t
    OBVIOUS
  <2> HIDE DEF e
  <2>3. n = handle_event(o, e)
    BY <1>5, <2>1, FewEvents DEF e
  <2>4. Untraded(handle_event(o, e)) /\ handle_event(o, e).status = Moved(o.status, e.type)
    BY <2>2, UntradedEvent DEF VenueAnswers
  <2> QED
    BY <2>1, <2>2, <2>3, <2>4 DEF Moved
<1> QED
  BY <1>4, <1>6, <1>7, <1>8, <1>9

LEMMA UntradedStatusReport ==
    ASSUME NEW o, NEW r, Sound(o, 0), Untraded(o), GoodReport(r, 0), o.status # "Initialized",
           NEW n, n = reconcile_order_status_report(o, r)
    PROVE  Untraded(n) /\ n.status \in {"Accepted", "Rejected", "Canceled"}
<1> DEFINE a == create_reconciliation_accepted(o, r)
           k == Acknowledged(o, r)
           u == create_reconciliation_updated(k, r)
           w == Amended(k, r)
           x == reconcile_order_report(w, r)
<1>1. r.venue_order_id = 1
  BY DEF GoodReport
<1>2. Untraded(k) /\ k.status # "Initialized"
  <2>1. CASE k = o
    BY <2>1
  <2>2. CASE k = handle_event(o, a)
    <3>1. a.type = "Accepted" /\ a.venue_order_id \in {None, 1}
      BY <1>1 DEF create_reconciliation_accepted, Untraded
    <3> HIDE DEF a, k
    <3>2. Untraded(handle_event(o, a)) /\ handle_event(o, a).status = Moved(o.status, a.type)
      BY <3>1, UntradedEvent DEF VenueAnswers
    <3> QED
      BY <2>2, <3>1, <3>2 DEF Moved
  <2> QED
    BY <2>1, <2>2 DEF Acknowledged
<1> HIDE DEF k
<1>3. Untraded(w) /\ w.status # "Initialized"
  <2>1. CASE w = k
    BY <1>2, <2>1
  <2>2. CASE w = handle_event(k, u)
    <3>1. u.type = "Updated" /\ u.venue_order_id \in {None, 1}
      BY <1>2 DEF create_reconciliation_updated, Untraded
    <3> HIDE DEF u, w
    <3>2. Untraded(handle_event(k, u)) /\ handle_event(k, u).status = Moved(k.status, u.type)
      BY <1>2, <3>1, UntradedEvent DEF VenueAnswers
    <3> QED
      BY <1>2, <2>2, <3>1, <3>2 DEF Moved
  <2> QED
    BY <2>1, <2>2 DEF Amended
<1>4. Sound(w, 0)
  BY StagesKeep DEF k
<1>5. w = Amended(Acknowledged(o, r), r)
  BY DEF k
<1> HIDE DEF w
<1>6. OneEvent(w, x, 0)
  BY <1>4, ReportEvents
<1>7. n = handle_events(w, x)
  <2>1. x = << >> \/ \E e : x = <<e>>
    BY <1>6 DEF OneEvent
  <2> QED
    BY <1>5, <2>1, StatusReportInStages, SMT
<1> QED
  BY <1>3, <1>4, <1>7, UntradedReport

-----------------------------------------------------------------------------
(* Watching the requests. *)

\* What a request of kind t, or an answer of kind t to it, can be about.
Fits(s, t) ==
    /\ s \in {"Initialized", "Submitted"} => t \in {"Submit", "Accepted", "Rejected"}
    /\ s = "PendingUpdate" => t \in {"Modify", "Updated", "ModifyRejected"}
    /\ s = "PendingCancel" => t \in {"Cancel", "Canceled", "CancelRejected"}

\* The last request is the one that the order's status is waiting for.
Belongs(req, t) ==
    req \in Nat /\ req <= history.requests /\ (req = history.requests => Fits(order.status, t))

Matched ==
    /\ order.status \in {"Initialized", "Submitted"} => history.requests = 1
    /\ \A msg \in net : msg.kind = "Event" /\ msg.event.type \in VenueAnswers =>
          Belongs(msg.req, msg.event.type)
    /\ \A r \in wire : r.type # "Query" => Belongs(r.req, r.type)
    /\ \A i \in 1 .. Len(commands) : Belongs(commands[i].req, commands[i].type)

\* The submit is next, or it was just registered and the OrderSubmitted is on its way.
SubmitNear ==
    \/ /\ commands # << >> /\ commands[1].type = "Submit"
       /\ net = {} /\ wire \subseteq {[type |-> "Query"]}
    \/ /\ \E msg \in net : is_submitted(msg)
       /\ manager.inflight # None /\ manager.inflight.age = 0

Watched ==
    /\ Untraded(order)
    /\ Matched
    /\ order.status = "Initialized" =>
          SubmitNear /\ (open_check # None => open_check.filtered = FALSE)
    /\ order.status \in {"Submitted"} \cup Pending => manager.inflight # None \/ commands # << >>

Quiet == history.crossed = FALSE /\ venue.filled_qty = 0

Watching ==
    /\ Delivers
    /\ Tracking(manager)
    /\ history.crossed \in BOOLEAN
    /\ Quiet => Watched

\* The requests stay matched when the order is settled, or the submit is confirmed.
LEMMA MatchedKept ==
    ASSUME Matched, history'.requests = history.requests, net' \subseteq net,
           wire' \subseteq wire \cup {[type |-> "Query"]}, commands' = commands,
           \/ order'.status = order.status
           \/ order'.status \in {"Accepted", "Rejected", "Canceled"}
           \/ order.status = "Initialized" /\ order'.status = "Submitted"
    PROVE  Matched'
<1>1. \A req, t : Belongs(req, t) => Belongs(req, t)'
  BY DEF Belongs, Fits
<1>2. order'.status \in {"Initialized", "Submitted"} => order.status \in {"Initialized", "Submitted"}
  OBVIOUS
<1>3. [type |-> "Query"].type = "Query"
  OBVIOUS
<1>4. \A r \in wire' : r.type # "Query" => Belongs(r.req, r.type)'
  BY <1>1, <1>3 DEF Matched
<1>5. \A msg \in net' : msg.kind = "Event" /\ msg.event.type \in VenueAnswers =>
          Belongs(msg.req, msg.event.type)'
  BY <1>1 DEF Matched
<1>6. (\A i \in 1 .. Len(commands) : Belongs(commands[i].req, commands[i].type))'
  BY <1>1 DEF Matched
<1>7. order'.status \in {"Initialized", "Submitted"} => history'.requests = 1
  BY <1>2 DEF Matched
<1> QED
  BY <1>4, <1>5, <1>6, <1>7 DEF Matched

LEMMA WatchInit == Init => Watching
<1> SUFFICES ASSUME Init
             PROVE  Watching
  OBVIOUS
<1>1. Delivers
  <2>1. /\ DOMAIN history = {"requests", "crossed", "reports", "open_checks"}
        /\ history.requests \in Nat
    BY DEF Init
  <2> QED
    BY <2>1, DeliveryInit DEF Delivers
<1>2. Tracking(manager)
  BY DEF Init, Untracked, Tracking
<1>3. /\ history.crossed = FALSE /\ history.requests = 1 /\ net = {} /\ wire = {}
      /\ open_check = None /\ order = NewOrder("Limit", OrderQty, FALSE)
      /\ Len(commands) = 1 /\ commands[1].type = "Submit" /\ commands[1].req = 1
      /\ commands # << >>
  BY DEF Init
<1>4. /\ DOMAIN order = Fields /\ order.order_type = "Limit" /\ order.status = "Initialized"
      /\ order.venue_order_id = None
  BY <1>3 DEF NewOrder, Fields
<1>5. Untraded(order)
  BY <1>4 DEF Untraded, Pending
<1>6. Matched
  <2>1. Belongs(1, "Submit")
    <3>1. Fits("Initialized", "Submit")
      BY DEF Fits
    <3>2. history.requests = 1 /\ order.status = "Initialized"
      BY <1>3, <1>4
    <3> QED
      BY <3>1, <3>2, SMT DEF Belongs
  <2>2. \A i \in 1 .. Len(commands) : Belongs(commands[i].req, commands[i].type)
    BY <1>3, <2>1, SMT
  <2> QED
    BY <1>3, <2>2 DEF Matched
<1>7. SubmitNear
  BY <1>3 DEF SubmitNear
<1> QED
  BY <1>1, <1>2, <1>3, <1>4, <1>5, <1>6, <1>7 DEF Watching, Watched, Pending

\* A request that does not cross another is about an accepted order.
LEMMA WatchRequest ==
    ASSUME Watching, NEW command, command.req = history.requests + 1,
           NEW pending \in Pending, Fits(pending, command.type), ~is_closed(order),
           Request(command, pending), Quiet'
    PROVE  Watched'
<1>1. /\ history.crossed = FALSE /\ commands = << >> /\ ~is_inflight(order)
      /\ ~is_active_local(order) /\ history'.requests = history.requests + 1
      /\ history.requests \in Nat
  <2>1. /\ history' = [history EXCEPT !.requests = @ + 1,
                                      !.crossed = @ \/ commands # << >> \/ is_inflight(order)
                                                    \/ is_active_local(order)]
        /\ DOMAIN history = {"requests", "crossed", "reports", "open_checks"}
        /\ history.requests \in Nat /\ history.crossed \in BOOLEAN
    BY DEF Request, Watching, Delivers
  <2>2. /\ history'.requests = history.requests + 1
        /\ history'.crossed = (history.crossed \/ commands # << >> \/ is_inflight(order)
                                               \/ is_active_local(order))
    BY <2>1
  <2> QED
    BY <2>1, <2>2 DEF Quiet
<1>2. /\ UNCHANGED <<manager, open_check, wire, net, venue>>
      /\ order' = apply(order, [type |-> pending]) /\ commands' = <<command>>
  BY <1>1, SMT DEF Request
<1>3. Watched /\ Sound(order, venue.filled_qty)
  BY <1>1, <1>2 DEF Watching, Delivers, Delivery, Quiet
<1>4. order.status = "Accepted" /\ DOMAIN order = Fields
  BY <1>1, <1>3 DEF Watched, Untraded, Sound, is_inflight, is_active_local, is_closed
<1>5. Untraded(order') /\ order'.status = pending
  <2> DEFINE e == [type |-> pending]
             saved == SavePrevious(order, e)
             w == apply(order, e)
  <2>1. e.type = pending /\ e.type \notin {"Filled", "Triggered", "Initialized", "Accepted", "Updated"}
        /\ e.type \notin Rejections
    BY DEF Pending, Rejections
  <2> HIDE DEF e
  <2>2. saved.status = "Accepted" /\ saved.previous_status = "Accepted"
    BY <1>4, <2>1, Saved DEF Pending
  <2>3. Applies(saved, e)
    BY <2>1, <2>2, LeadFacts DEF Applies, Leads, Rejections
  <2>4. StatusAfter(order, e) = pending
    BY <1>4, <2>1, <2>3, LeadFacts DEF StatusAfter, Leads
  <2>5. /\ DOMAIN w = Fields /\ w.order_type = order.order_type
        /\ w.previous_status = saved.previous_status /\ w.status = StatusAfter(order, e)
        /\ w.venue_order_id = order.venue_order_id
    <3>1. /\ DOMAIN apply(order, e) = Fields /\ apply(order, e).order_type = order.order_type
          /\ apply(order, e).previous_status = SavePrevious(order, e).previous_status
          /\ apply(order, e).status = StatusAfter(order, e)
      BY <1>4, <2>1, OtherEvent
    <3>2. \/ apply(order, e).venue_order_id = order.venue_order_id
          \/ e.type \in {"Accepted", "Updated"}
      BY <1>4, <2>1, OtherEvent
    <3> QED
      BY <2>1, <3>1, <3>2
  <2>6. order' = w
    BY <1>2 DEF e
  <2> HIDE DEF w, saved
  <2> QED
    BY <1>3, <2>2, <2>4, <2>5, <2>6 DEF Untraded, Watched
<1>6. Matched'
  <2>1. \A req, t : Belongs(req, t) => Belongs(req, t)'
    BY <1>1, SMT DEF Belongs
  <2>2. ASSUME NEW i \in 1 .. Len(commands')
        PROVE  /\ commands'[i].req = history'.requests /\ commands'[i].req \in Nat
               /\ Fits(order'.status, commands'[i].type)
    <3>1. i = 1 /\ commands'[i] = command
      BY <1>2, SMT
    <3> QED
      BY <1>1, <1>5, <3>1, SMT
  <2>3. (\A i \in 1 .. Len(commands) : Belongs(commands[i].req, commands[i].type))'
    BY <2>2, SMT DEF Belongs
  <2>4. /\ \A msg \in net : msg.kind = "Event" /\ msg.event.type \in VenueAnswers =>
                Belongs(msg.req, msg.event.type)'
        /\ \A r \in wire : r.type # "Query" => Belongs(r.req, r.type)'
    BY <1>3, <2>1 DEF Watched, Matched
  <2>5. order'.status \notin {"Initialized", "Submitted"}
    BY <1>5 DEF Pending
  <2> QED
    BY <1>2, <2>3, <2>4, <2>5 DEF Matched
<1>7. order'.status # "Initialized" /\ commands' # << >>
  BY <1>2, <1>5 DEF Pending
<1> QED
  BY <1>5, <1>6, <1>7 DEF Watched

LEMMA WatchCommand ==
    ASSUME Watching, HandleCommand, Quiet'
    PROVE  Watched'
<1>1. /\ commands # << >> /\ commands \in Seq(Commands) /\ commands' = Tail(commands)
      /\ manager' = register_inflight(manager) /\ wire' = wire \cup {Head(commands)}
      /\ net' = IF Head(commands).type = "Submit"
                THEN net \cup {[kind |-> "Event", req |-> 1, event |-> [type |-> "Submitted"]]}
                ELSE net
      /\ UNCHANGED <<bounds, order, open_check, venue, history>>
  BY DEF HandleCommand, Watching, Delivers, Delivery
<1>2. Watched
  BY <1>1 DEF Watching, Quiet
<1>3. /\ Head(commands) = commands[1] /\ Len(commands) \in Nat \ {0}
      /\ Len(commands') = Len(commands) - 1
      /\ \A i \in 1 .. Len(commands') : commands'[i] = commands[i + 1] /\ i + 1 \in 1 .. Len(commands)
  BY <1>1, SMT
<1>4. manager'.inflight # None /\ manager'.inflight.age = 0
  <2>1. DOMAIN manager = {"inflight", "retries", "activity", "recent_fills"}
    BY DEF Watching, Tracking
  <2>2. manager'.inflight = [age |-> 0, retry_count |-> 0, queried |-> None]
    BY <1>1, <2>1 DEF register_inflight
  <2>3. [age |-> 0, retry_count |-> 0, queried |-> None]
          \in [age : Nat, retry_count : Nat, queried : Nat \cup {None}]
    OBVIOUS
  <2> QED
    BY <2>2, <2>3, NoneIsNoCheck, SMT
<1>5. Matched'
  <2>1. \A req, t : Belongs(req, t) => Belongs(req, t)'
    BY <1>1 DEF Belongs
  <2>2. (\A i \in 1 .. Len(commands) : Belongs(commands[i].req, commands[i].type))'
    <3>1. \A i \in 1 .. Len(commands) : Belongs(commands[i].req, commands[i].type)
      BY <1>2 DEF Watched, Matched
    <3>2. \A i \in 1 .. Len(commands') : Belongs(commands'[i].req, commands'[i].type)
      BY <1>3, <3>1
    <3> QED
      BY <1>1, <3>2 DEF Belongs
  <2>3. \A r \in wire' : r.type # "Query" => Belongs(r.req, r.type)'
    <3>1. 1 \in 1 .. Len(commands)
      BY <1>3, SMT
    <3>2. Belongs(Head(commands).req, Head(commands).type)
      BY <1>2, <1>3, <3>1 DEF Watched, Matched
    <3> QED
      BY <1>1, <1>2, <2>1, <3>2 DEF Watched, Matched
  <2>4. \A msg \in net' : msg.kind = "Event" /\ msg.event.type \in VenueAnswers =>
                Belongs(msg.req, msg.event.type)'
    <3> DEFINE m == [kind |-> "Event", req |-> 1, event |-> [type |-> "Submitted"]]
    <3>1. m.event.type \notin VenueAnswers /\ net' \subseteq net \cup {m}
      BY <1>1 DEF VenueAnswers
    <3> HIDE DEF m
    <3> QED
      BY <1>2, <2>1, <3>1 DEF Watched, Matched
  <2>5. order'.status \in {"Initialized", "Submitted"} => history'.requests = 1
    BY <1>1, <1>2 DEF Watched, Matched
  <2> QED
    BY <2>2, <2>3, <2>4, <2>5 DEF Matched
<1>6. order.status = "Initialized" => SubmitNear'
  <2> SUFFICES ASSUME order.status = "Initialized"
               PROVE  \E msg \in net' : is_submitted(msg)
    BY <1>4 DEF SubmitNear
  <2>1. SubmitNear
    BY <1>2 DEF Watched
  <2>2. is_submitted([kind |-> "Event", req |-> 1, event |-> [type |-> "Submitted"]])
    BY DEF is_submitted
  <2> QED
    BY <1>1, <1>3, <2>1, <2>2 DEF SubmitNear
<1> QED
  BY <1>1, <1>2, <1>4, <1>5, <1>6 DEF Watched

\* An answer that is no late one settles the request; OrderSubmitted and reports leave
\* the registration of an unsettled one.
LEMMA WatchEvent ==
    ASSUME Watching, NEW msg \in net, HandleOrderEvent(msg), Quiet'
    PROVE  Watched'
<1> DEFINE t == msg.event.type
<1>1. /\ msg.kind = "Event" /\ SubmittedFirst(msg) /\ net' = net \ {msg}
      /\ order' = handle_event(order, msg.event)
      /\ manager' = IF is_closed(order') THEN clear_recon_tracking(Observed(manager, msg.event))
                    ELSE Observed(manager, msg.event)
      /\ UNCHANGED <<commands, open_check, wire, venue>>
  BY DEF HandleOrderEvent
<1>2. /\ history.crossed = FALSE /\ history'.requests = history.requests
      /\ ~(t \in Answers /\ msg.req < history.requests) /\ history.requests \in Nat
  <2>1. /\ history' = [history EXCEPT
                         !.crossed = @ \/ (t \in Answers /\ msg.req < history.requests)]
        /\ DOMAIN history = {"requests", "crossed", "reports", "open_checks"}
        /\ history.requests \in Nat /\ history.crossed \in BOOLEAN
    BY DEF HandleOrderEvent, Watching, Delivers
  <2>2. /\ history'.requests = history.requests
        /\ history'.crossed = (history.crossed \/ (t \in Answers /\ msg.req < history.requests))
    BY <2>1
  <2> QED
    BY <2>1, <2>2 DEF Quiet
<1>3. venue.filled_qty = 0 /\ Watched
  BY <1>1, <1>2 DEF Quiet, Watching
<1>4. /\ t \in {"Submitted"} \cup VenueAnswers
      /\ t \in {"Accepted", "Updated"} => msg.event.venue_order_id = 1
  <2>1. GoodMessage(msg, 0)
    BY <1>3 DEF Watching, Delivers, Delivery
  <2> QED
    BY <1>1, <2>1, SMT DEF GoodMessage, IsVenueTrade
<1>5. Untraded(order') /\ order'.status = Moved(order.status, t)
  <2>1. Untraded(order)
    BY <1>3 DEF Watched
  <2> QED
    BY <1>1, <1>4, <2>1, UntradedEvent
<1>6. order.status = "Initialized" => t = "Submitted" /\ manager.inflight # None
  <2> SUFFICES ASSUME order.status = "Initialized"
               PROVE  t = "Submitted" /\ manager.inflight # None
    OBVIOUS
  <2>1. (\E other \in net : is_submitted(other)) /\ manager.inflight # None
    BY <1>3 DEF Watched, SubmitNear
  <2> QED
    BY <1>1, <2>1 DEF SubmittedFirst, is_submitted
<1>7. t \in VenueAnswers => Fits(order.status, t)
  <2>1. VenueAnswers \subseteq Answers
    BY DEF VenueAnswers, Answers
  <2>2. t \in VenueAnswers => Belongs(msg.req, t)
    BY <1>1, <1>3 DEF Watched, Matched
  <2> QED
    BY <1>2, <2>1, <2>2, SMT DEF Belongs
<1> HIDE DEF t
<1>8. CASE t = "Submitted"
  <2>1. /\ order'.status # "Initialized"
        /\ \/ order'.status = order.status
           \/ order.status = "Initialized" /\ order'.status = "Submitted"
    BY <1>5, <1>8 DEF Moved
  <2>2. Matched'
    BY <1>1, <1>2, <1>3, <2>1, MatchedKept DEF Watched
  <2>3. ~is_closed(order') => manager'.inflight = manager.inflight
    <3>1. DOMAIN manager = {"inflight", "retries", "activity", "recent_fills"}
      BY DEF Watching, Tracking
    <3>2. Observed(manager, msg.event) = record_local_activity(manager)
      BY <1>8 DEF Observed, Answers, t
    <3> QED
      BY <1>1, <3>1, <3>2 DEF record_local_activity
  <2>4. order'.status \in {"Submitted"} \cup Pending => ~is_closed(order')
    BY DEF is_closed, Pending
  <2>5. order'.status \in {"Submitted"} \cup Pending =>
          manager'.inflight # None \/ commands' # << >>
    BY <1>1, <1>3, <1>6, <2>1, <2>3, <2>4 DEF Watched
  <2> QED
    BY <1>5, <2>1, <2>2, <2>5 DEF Watched
<1>9. CASE t \in VenueAnswers
  <2>1. order'.status \in {"Accepted", "Rejected", "Canceled"}
    <3>1. order.status \in {"Submitted", "Accepted", "Rejected", "Canceled"} \cup Pending
      BY <1>3, <1>6, <1>9 DEF Watched, Untraded, VenueAnswers
    <3> QED
      BY <1>5, <1>7, <1>9, <3>1 DEF Moved, Fits, VenueAnswers, Pending
  <2>2. Matched'
    BY <1>1, <1>2, <1>3, <2>1, MatchedKept DEF Watched
  <2> QED
    BY <1>5, <2>1, <2>2 DEF Watched, Pending
<1> QED
  BY <1>4, <1>8, <1>9

LEMMA WatchReport ==
    ASSUME Watching, NEW msg \in net, HandleReport(msg), Quiet'
    PROVE  Watched'
<1>1. /\ msg.kind \in {"Order", "Fill", "OrderWithFills"} /\ SubmittedFirst(msg)
      /\ net' = net \ {msg}
      /\ UNCHANGED <<commands, open_check, wire, venue, history>>
  BY DEF HandleReport
<1>2. Watched /\ Sound(order, 0) /\ GoodMessage(msg, 0)
  BY <1>1 DEF Quiet, Watching, Delivers, Delivery
<1>3. msg.kind = "Order" /\ GoodReport(msg.status, 0)
  BY <1>1, <1>2, SMT DEF GoodMessage, IsVenueTrade, TradeReports
<1>4. order' = reconcile_order_status_report(order, msg.status)
  BY <1>3 DEF HandleReport
<1>5. order.status # "Initialized"
  <2> SUFFICES ASSUME order.status = "Initialized"
               PROVE  FALSE
    OBVIOUS
  <2>1. \E other \in net : is_submitted(other)
    BY <1>2 DEF Watched, SubmitNear
  <2> QED
    BY <1>1, <1>3, <2>1 DEF SubmittedFirst, is_submitted
<1>6. Untraded(order') /\ order'.status \in {"Accepted", "Rejected", "Canceled"}
  <2>1. Untraded(order)
    BY <1>2 DEF Watched
  <2> QED
    BY <1>2, <1>3, <1>4, <1>5, <2>1, UntradedStatusReport
<1>7. Matched'
  BY <1>1, <1>2, <1>6, MatchedKept DEF Watched
<1> QED
  BY <1>6, <1>7 DEF Watched, Pending

\* Giving up ends the request.
LEMMA WatchInflight ==
    ASSUME Watching, CheckInflightOrders, Quiet'
    PROVE  Watched'
<1>1. /\ UNCHANGED <<commands, open_check, net, venue, history>>
      /\ wire' \subseteq wire \cup {[type |-> "Query"]}
      /\ manager.inflight # None /\ is_due(manager.inflight)
  BY DEF CheckInflightOrders
<1>2. Watched
  BY <1>1 DEF Quiet, Watching
<1>3. order.status = "Initialized" =>
        commands # << >> /\ commands[1].type = "Submit" /\ net = {} /\ wire \subseteq {[type |-> "Query"]}
  <2>1. manager.inflight.age # 0
    BY <1>1, LiveAssumption, SMT DEF is_due
  <2> QED
    BY <1>2, <2>1 DEF Watched, SubmitNear
<1>4. CASE gives_up(manager.inflight)
  <2>1. order' = handle_events(order, timeout_events(order))
    BY <1>4 DEF CheckInflightOrders
  <2>2. \/ order' = order /\ order.status \notin {"Submitted"} \cup Pending
        \/ Untraded(order') /\ order'.status \in {"Rejected", "Canceled"}
    <3>1. CASE order.status \in {"Submitted"} \cup Pending
      <4>1. PICK t \in {"Rejected", "Canceled"} : timeout_events(order) = <<[type |-> t]>>
        BY <3>1 DEF timeout_events, Pending
      <4> DEFINE e == [type |-> t]
      <4>2. e.type = t
        OBVIOUS
      <4> HIDE DEF e
      <4>3. order' = handle_event(order, e)
        BY <2>1, <4>1, FewEvents DEF e
      <4>4. Untraded(handle_event(order, e))
            /\ handle_event(order, e).status = Moved(order.status, e.type)
        BY <1>2, <4>2, UntradedEvent DEF VenueAnswers, Watched
      <4> QED
        BY <3>1, <4>2, <4>3, <4>4 DEF Moved, Pending
    <3>2. CASE order.status \notin {"Submitted"} \cup Pending
      <4>1. timeout_events(order) = << >>
        BY <3>2 DEF timeout_events
      <4> QED
        BY <2>1, <3>2, <4>1, FewEvents
    <3> QED
      BY <3>1, <3>2
  <2>3. Matched'
    BY <1>1, <1>2, <2>2, MatchedKept DEF Watched
  <2>4. wire' = wire
    BY <1>4 DEF CheckInflightOrders
  <2>5. CASE order' = order /\ order.status \notin {"Submitted"} \cup Pending
    BY <1>1, <1>2, <1>3, <2>3, <2>4, <2>5 DEF Watched, SubmitNear
  <2>6. CASE Untraded(order') /\ order'.status \in {"Rejected", "Canceled"}
    BY <2>3, <2>6 DEF Watched, Pending
  <2> QED
    BY <2>2, <2>5, <2>6
<1>5. CASE ~gives_up(manager.inflight)
  <2>1. order' = order
    BY <1>5 DEF CheckInflightOrders
  <2>2. manager'.inflight # None
    <3>1. Tracking(manager) /\ Paced(manager.inflight)
      BY <1>1 DEF Watching, Tracking
    <3>2. manager'.inflight = [manager.inflight EXCEPT !.retry_count = @ + 1, !.queried = 0]
      BY <1>5, <3>1 DEF CheckInflightOrders, Tracking
    <3>3. Paced(manager'.inflight)
      BY <1>1, <1>5, <3>1, <3>2, RetryIsPaced
    <3> QED
      BY <3>3, NoneIsNoCheck DEF Paced
  <2>3. Matched'
    BY <1>1, <1>2, <2>1, MatchedKept DEF Watched
  <2>4. order.status = "Initialized" => wire' \subseteq {[type |-> "Query"]}
    BY <1>1, <1>3
  <2> QED
    BY <1>1, <1>2, <1>3, <2>1, <2>2, <2>3, <2>4 DEF Watched, SubmitNear
<1> QED
  BY <1>4, <1>5

\* The open-order check acts on the registration only when it rejects the order.
LEMMA WatchOpenCheck ==
    ASSUME Watching, NEW recent \in BOOLEAN, ReconcileOpenOrderReports(recent), Quiet'
    PROVE  Watched'
<1> DEFINE m == handle_missing_order(manager, recent)
           x == reconcile_order_report(order, open_check.reports[1])
<1>1. /\ UNCHANGED <<commands, wire, net, venue, history>> /\ open_check' = None
      /\ open_check # None
  BY DEF ReconcileOpenOrderReports
<1>2. Watched /\ Sound(order, 0) /\ GoodCheck(open_check, 0) /\ Tracking(manager)
  BY <1>1 DEF Quiet, Watching, Delivers, Delivery
<1>3. \A k, events : Tracking(k) => Reconciled(k, events).inflight = k.inflight
  BY DEF Tracking, Reconciled
<1>4. \/ order' = order /\ manager'.inflight = manager.inflight
      \/ order' = handle_events(order, x) /\ manager'.inflight = manager.inflight
         /\ open_check.reports # << >>
      \/ order' = handle_events(order, <<[type |-> "Rejected"]>>) /\ open_check.filtered # FALSE
  <2>1. CASE open_check.reports # << >>
    <3>1. \E events \in {<< >>, x} : /\ order' = handle_events(order, events)
                                     /\ manager' = Reconciled(manager, events)
      BY <2>1 DEF ReconcileOpenOrderReports
    <3> QED
      BY <1>2, <1>3, <2>1, <3>1, FewEvents
  <2>2. CASE open_check.reports = << >> /\ ~open_check_open_only /\ open_check.filtered
    <3>1. order' = handle_events(order, m.events) /\ manager' = Reconciled(m.manager, m.events)
      BY <2>2 DEF ReconcileOpenOrderReports
    <3>2. \/ m.events = <<[type |-> "Rejected"]>>
          \/ m.events = << >> /\ m.manager \in {manager, [manager EXCEPT !.retries = @ + 1]}
      BY DEF handle_missing_order
    <3>3. /\ Tracking([manager EXCEPT !.retries = @ + 1])
          /\ [manager EXCEPT !.retries = @ + 1].inflight = manager.inflight
      BY <1>2, TrackingKept DEF Tracking
    <3> HIDE DEF m
    <3>4. CASE m.events = << >> /\ m.manager \in {manager, [manager EXCEPT !.retries = @ + 1]}
      <4>1. Tracking(m.manager) /\ m.manager.inflight = manager.inflight
        BY <1>2, <3>3, <3>4
      <4> QED
        BY <1>3, <3>1, <3>4, <4>1, FewEvents
    <3> QED
      BY <2>2, <3>1, <3>2, <3>4
  <2>3. CASE open_check.reports = << >> /\ ~(~open_check_open_only /\ open_check.filtered)
    <3>1. order' = handle_events(order, << >>) /\ manager' = Reconciled(manager, << >>)
      BY <2>3 DEF ReconcileOpenOrderReports
    <3> QED
      BY <1>2, <1>3, <3>1, FewEvents
  <2> QED
    BY <2>1, <2>2, <2>3
<1> HIDE DEF m, x
<1>5. CASE order' = order /\ manager'.inflight = manager.inflight
  <2>1. Matched'
    BY <1>1, <1>2, <1>5, MatchedKept DEF Watched
  <2> QED
    BY <1>1, <1>2, <1>5, <2>1 DEF Watched, SubmitNear
<1>6. CASE /\ order' = handle_events(order, x) /\ manager'.inflight = manager.inflight
           /\ open_check.reports # << >>
  <2>1. GoodReport(open_check.reports[1], 0) /\ Untraded(order)
    BY <1>1, <1>2, <1>6 DEF GoodCheck, Watched
  <2>2. /\ Untraded(order')
        /\ order.status = "Initialized" => order'.status \in {"Initialized", "Canceled"}
        /\ order.status # "Initialized" => order'.status \in {"Accepted", "Rejected", "Canceled"}
    BY <1>2, <1>6, <2>1, UntradedReport, SMT DEF x
  <2>3. Matched'
    BY <1>1, <1>2, <2>2, MatchedKept DEF Watched
  <2> QED
    BY <1>1, <1>2, <1>6, <2>2, <2>3 DEF Watched, SubmitNear, Pending
<1>7. CASE /\ order' = handle_events(order, <<[type |-> "Rejected"]>>)
           /\ open_check.filtered # FALSE
  <2> DEFINE e == [type |-> "Rejected"]
  <2>1. order.status # "Initialized" /\ Untraded(order)
    BY <1>1, <1>2, <1>7 DEF Watched
  <2>2. e.type = "Rejected"
    OBVIOUS
  <2>3. order' = handle_event(order, e)
    BY <1>7, FewEvents
  <2> HIDE DEF e
  <2>4. Untraded(handle_event(order, e)) /\ handle_event(order, e).status = Moved(order.status, e.type)
    BY <2>1, <2>2, UntradedEvent DEF VenueAnswers
  <2>5. Untraded(order') /\ order'.status \in {"Rejected", "Canceled"}
    BY <2>2, <2>3, <2>4 DEF Moved
  <2>6. Matched'
    BY <1>1, <1>2, <2>5, MatchedKept DEF Watched
  <2> QED
    BY <2>5, <2>6 DEF Watched, Pending
<1> QED
  BY <1>4, <1>5, <1>6, <1>7

LEMMA WatchTick ==
    ASSUME Watching, Tick, Quiet'
    PROVE  Watched'
<1>1. /\ UNCHANGED <<order, commands, open_check, wire, net, venue, history>>
      /\ ~\E msg \in net : is_submitted(msg)
  BY DEF Tick
<1>2. Watched /\ Tracking(manager)
  BY <1>1 DEF Quiet, Watching
<1>3. manager.inflight # None => manager'.inflight # None
  <2> DEFINE c == manager.inflight
             d == [c EXCEPT !.age = older(@, Patience), !.queried = older(@, inflight_threshold - 1)]
  <2>1. manager'.inflight = aged(c)
    BY <1>2 DEF Tick, Tracking
  <2>2. c # None => aged(c) = d /\ Paced(d)
    BY <1>2, OlderIsPaced DEF aged, Tracking
  <2> HIDE DEF c, d
  <2>3. c # None => d # None
    BY <2>2, NoneIsNoCheck DEF Paced
  <2> QED
    BY <2>1, <2>2, <2>3 DEF c
<1>4. Matched'
  BY <1>1, <1>2, MatchedKept DEF Watched
<1> QED
  BY <1>1, <1>2, <1>3, <1>4 DEF Watched, SubmitNear

LEMMA WatchVenue ==
    ASSUME Watching, NEW r \in wire, NEW accepts \in BOOLEAN, VenueHandles(r, accepts), Quiet'
    PROVE  Watched'
<1>1. /\ UNCHANGED <<order, commands, manager, open_check, history>> /\ wire' \subseteq wire
      /\ r.type # "Query" /\ r \in Commands /\ net \subseteq net'
  BY SMT DEF VenueHandles, Watching, Delivers, Delivery
<1>2. venue.filled_qty = 0
  <2>1. DOMAIN venue = {"status", "quantity", "filled_qty", "venue_order_id"}
    BY DEF Watching, Delivers, Delivery, GoodVenue
  <2>2. venue'.filled_qty = venue.filled_qty
    BY <2>1 DEF VenueHandles
  <2> QED
    BY <2>2 DEF Quiet
<1>3. Watched
  BY <1>1, <1>2 DEF Quiet, Watching
<1>4. PICK e : /\ net' = net \cup {Event(r.req, e)}
               /\ r.type = "Submit" => e.type \in {"Accepted", "Rejected"}
               /\ r.type = "Modify" => e.type \in {"Updated", "ModifyRejected"}
               /\ r.type = "Cancel" => e.type \in {"Canceled", "CancelRejected"}
  <2>1. CASE r.type = "Submit"
    BY <2>1 DEF VenueHandles
  <2>2. CASE r.type = "Modify"
    BY <2>2 DEF VenueHandles
  <2>3. CASE r.type = "Cancel"
    BY <2>3, SMT DEF VenueHandles
  <2> QED
    BY <1>1, <2>1, <2>2, <2>3 DEF Commands
<1>5. Matched'
  <2>1. Belongs(r.req, e.type)
    <3>1. Belongs(r.req, r.type)
      BY <1>1, <1>3 DEF Watched, Matched
    <3>2. \A s : Fits(s, r.type) => Fits(s, e.type)
      BY <1>1, <1>4 DEF Fits, Commands
    <3> QED
      BY <3>1, <3>2 DEF Belongs
  <2>2. \A req, t : Belongs(req, t) => Belongs(req, t)'
    BY <1>1 DEF Belongs
  <2>3. Event(r.req, e).req = r.req /\ Event(r.req, e).event = e
    BY DEF Event
  <2>4. \A msg \in net' : msg.kind = "Event" /\ msg.event.type \in VenueAnswers =>
                Belongs(msg.req, msg.event.type)'
    BY <1>3, <1>4, <2>1, <2>2, <2>3 DEF Watched, Matched
  <2>5. \A q \in wire' : q.type # "Query" => Belongs(q.req, q.type)'
    BY <1>1, <1>3, <2>2 DEF Watched, Matched
  <2>6. (\A i \in 1 .. Len(commands) : Belongs(commands[i].req, commands[i].type))'
    BY <1>1, <1>3, <2>2 DEF Watched, Matched
  <2>7. order'.status \in {"Initialized", "Submitted"} => history'.requests = 1
    BY <1>1, <1>3 DEF Watched, Matched
  <2> QED
    BY <2>4, <2>5, <2>6, <2>7 DEF Matched
<1>6. order.status = "Initialized" => SubmitNear'
  <2>1. ~(wire \subseteq {[type |-> "Query"]})
    BY <1>1, SMT
  <2> QED
    BY <1>1, <1>3, <2>1 DEF Watched, SubmitNear
<1> QED
  BY <1>1, <1>3, <1>5, <1>6 DEF Watched

LEMMA WatchQuery ==
    ASSUME Watching, VenueAnswersQuery, Quiet'
    PROVE  Watched'
<1>1. /\ UNCHANGED <<order, commands, manager, open_check, venue>> /\ wire' \subseteq wire
      /\ venue.status # None /\ net \subseteq net'
      /\ history' = [history EXCEPT !.reports = @ + 1]
  BY DEF VenueAnswersQuery
<1>2. history'.requests = history.requests /\ history'.crossed = history.crossed
  BY <1>1 DEF Watching, Delivers
<1>3. Watched
  BY <1>1, <1>2 DEF Quiet, Watching
<1>4. \A msg \in net' : msg \in net \/ msg.kind # "Event"
  <2> DEFINE trades == [n \in 1 .. venue.filled_qty |-> Trade(n)]
             status == [kind |-> "Order", status |-> venue]
             fill(n) == [kind |-> "Fill", fill |-> trades[n]]
             both == [kind |-> "OrderWithFills", status |-> venue, fills |-> trades]
  <2>1. \/ net' = net \cup {status}
        \/ \E n \in DOMAIN trades : net' = net \cup {fill(n)}
        \/ net' = net \cup {both}
    BY DEF VenueAnswersQuery
  <2>2. status.kind # "Event" /\ both.kind # "Event" /\ \A n : fill(n).kind # "Event"
    OBVIOUS
  <2> HIDE DEF trades, status, fill, both
  <2> QED
    BY <2>1, <2>2
<1>5. Matched'
  <2>1. \A req, t : Belongs(req, t) => Belongs(req, t)'
    BY <1>1, <1>2 DEF Belongs
  <2>2. \A msg \in net' : msg.kind = "Event" /\ msg.event.type \in VenueAnswers =>
                Belongs(msg.req, msg.event.type)'
    BY <1>3, <1>4, <2>1 DEF Watched, Matched
  <2>3. \A q \in wire' : q.type # "Query" => Belongs(q.req, q.type)'
    BY <1>1, <1>3, <2>1 DEF Watched, Matched
  <2>4. (\A i \in 1 .. Len(commands) : Belongs(commands[i].req, commands[i].type))'
    BY <1>1, <1>3, <2>1 DEF Watched, Matched
  <2>5. order'.status \in {"Initialized", "Submitted"} => history'.requests = 1
    BY <1>1, <1>2, <1>3 DEF Watched, Matched
  <2> QED
    BY <2>2, <2>3, <2>4, <2>5 DEF Matched
<1>6. order.status = "Initialized" => SubmitNear'
  <2>1. commands # << >> => 1 \in 1 .. Len(commands)
    BY SMT DEF Watching, Delivers, Delivery
  <2>2. ~(commands # << >> /\ commands[1].type = "Submit")
    BY <1>1, <2>1 DEF Watching, Delivers, Delivery, SubmitPending
  <2> QED
    BY <1>1, <1>3, <2>2 DEF Watched, SubmitNear
<1> QED
  BY <1>1, <1>3, <1>5, <1>6 DEF Watched

\* The open-order check begins, or is answered; the fills are pruned.
LEMMA WatchOther ==
    ASSUME Watching, Quiet',
           \/ StartOpenOrderReportCheck
           \/ \E failed \in BOOLEAN : VenueAnswersOpenCheck(failed)
           \/ PruneRecentFills
           \/ UNCHANGED vars
    PROVE  Watched'
<1>1. /\ UNCHANGED <<order, commands, wire, net, venue>> /\ manager'.inflight = manager.inflight
      /\ history'.requests = history.requests /\ history'.crossed = history.crossed
  <2>1. /\ DOMAIN manager = {"inflight", "retries", "activity", "recent_fills"}
        /\ DOMAIN history = {"requests", "crossed", "reports", "open_checks"}
    BY DEF Watching, Tracking, Delivers
  <2> QED
    BY <2>1 DEF StartOpenOrderReportCheck, VenueAnswersOpenCheck, PruneRecentFills, vars
<1>2. Watched
  BY <1>1 DEF Quiet, Watching
<1>3. order.status = "Initialized" /\ open_check' # None => open_check'.filtered = FALSE
  <2>1. CASE StartOpenOrderReportCheck
    BY <2>1 DEF StartOpenOrderReportCheck, is_open, is_inflight, Pending
  <2>2. CASE \E failed \in BOOLEAN : VenueAnswersOpenCheck(failed)
    <3>1. open_check # None /\ DOMAIN open_check = {"filtered", "answered", "reports"}
      BY <2>2 DEF VenueAnswersOpenCheck, Watching, Delivers, Delivery, GoodCheck
    <3>2. open_check'.filtered = open_check.filtered
      BY <2>2, <3>1 DEF VenueAnswersOpenCheck
    <3> QED
      BY <1>2, <3>1, <3>2 DEF Watched
  <2>3. CASE open_check' = open_check
    BY <1>2, <2>3 DEF Watched
  <2> QED
    BY <2>1, <2>2, <2>3 DEF PruneRecentFills, vars
<1>4. Matched'
  BY <1>1, <1>2, MatchedKept DEF Watched
<1> QED
  BY <1>1, <1>2, <1>3, <1>4 DEF Watched, SubmitNear

LEMMA CrossedKept ==
    ASSUME DOMAIN history = {"requests", "crossed", "reports", "open_checks"},
           history.crossed \in BOOLEAN, [Next]_vars
    PROVE  history'.crossed \in BOOLEAN
<1>1. CASE \/ \E qty \in bounds.quantities : ModifyOrder(qty)
           \/ CancelOrder
  <2>1. PICK c \in BOOLEAN : history' = [history EXCEPT !.requests = @ + 1, !.crossed = c]
    BY <1>1 DEF ModifyOrder, CancelOrder, Request
  <2> QED
    BY <2>1
<1>2. CASE \E msg \in net : HandleOrderEvent(msg)
  <2>1. PICK c \in BOOLEAN : history' = [history EXCEPT !.crossed = c]
    BY <1>2 DEF HandleOrderEvent
  <2> QED
    BY <2>1
<1>3. CASE \/ HandleCommand \/ \E msg \in net : HandleReport(msg)
           \/ CheckInflightOrders \/ PruneRecentFills \/ Tick \/ UNCHANGED vars
  BY <1>3 DEF HandleCommand, HandleReport, CheckInflightOrders, PruneRecentFills, Tick, vars
<1>4. CASE StartOpenOrderReportCheck \/ \E recent \in BOOLEAN : ReconcileOpenOrderReports(recent)
  BY <1>4 DEF StartOpenOrderReportCheck, ReconcileOpenOrderReports
<1>5. CASE Environment
  BY <1>5 DEF Environment, VenueHandles, VenueFills, VenueAnswersQuery, VenueAnswersOpenCheck
<1> QED
  BY <1>1, <1>2, <1>3, <1>4, <1>5 DEF Next, Node

LEMMA WatchStep == Watching /\ [Next]_vars => Watching'
<1> SUFFICES ASSUME Watching, [Next]_vars
             PROVE  Watching'
  OBVIOUS
<1>1. Delivers' /\ Tracking(manager') /\ history'.crossed \in BOOLEAN
  BY DeliveryStep, RequestsCounted, TrackingStep, CrossedKept DEF Watching, Delivers
<1>2. ASSUME Quiet'
      PROVE  Watched'
  <2>1. ASSUME NEW qty \in bounds.quantities, ModifyOrder(qty)
        PROVE  Watched'
    <3> DEFINE c == [type |-> "Modify", req |-> history.requests + 1, quantity |-> qty]
    <3>1. c.req = history.requests + 1 /\ Fits("PendingUpdate", c.type) /\ "PendingUpdate" \in Pending
      BY DEF Fits, Pending
    <3>2. Request(c, "PendingUpdate") /\ ~is_closed(order)
      BY <2>1 DEF ModifyOrder
    <3> HIDE DEF c
    <3> QED
      BY <1>2, <3>1, <3>2, WatchRequest
  <2>2. CASE CancelOrder
    <3> DEFINE c == [type |-> "Cancel", req |-> history.requests + 1]
    <3>1. c.req = history.requests + 1 /\ Fits("PendingCancel", c.type) /\ "PendingCancel" \in Pending
      BY DEF Fits, Pending
    <3>2. Request(c, "PendingCancel") /\ ~is_closed(order)
      BY <2>2 DEF CancelOrder
    <3> HIDE DEF c
    <3> QED
      BY <1>2, <3>1, <3>2, WatchRequest
  <2>3. CASE Node
    BY <1>2, <2>3, WatchCommand, WatchEvent, WatchReport, WatchInflight DEF Node
  <2>4. CASE Tick
    BY <1>2, <2>4, WatchTick
  <2>5. CASE \E recent \in BOOLEAN : ReconcileOpenOrderReports(recent)
    BY <1>2, <2>5, WatchOpenCheck
  <2>6. CASE \/ StartOpenOrderReportCheck
             \/ \E failed \in BOOLEAN : VenueAnswersOpenCheck(failed)
             \/ PruneRecentFills
             \/ UNCHANGED vars
    BY <1>2, <2>6, WatchOther
  <2>7. CASE VenueFills
    <3>1. /\ DOMAIN venue = {"status", "quantity", "filled_qty", "venue_order_id"}
          /\ venue.filled_qty \in Nat
      BY DEF Watching, Delivers, Delivery, GoodVenue
    <3>2. venue'.filled_qty = venue.filled_qty + 1
      BY <2>7, <3>1 DEF VenueFills
    <3> QED
      BY <1>2, <3>1, <3>2, SMT DEF Quiet
  <2>8. CASE \/ \E r \in wire, accepts \in BOOLEAN : VenueHandles(r, accepts)
             \/ VenueAnswersQuery
    BY <1>2, <2>8, WatchVenue, WatchQuery
  <2> QED
    BY <2>1, <2>2, <2>3, <2>4, <2>5, <2>6, <2>7, <2>8 DEF Next, Environment
<1> QED
  BY <1>1, <1>2 DEF Watching

\* A request that crosses no other, about an order that has not traded, stays registered
\* with the manager for as long as the order is in flight, whatever is lost or late.
THEOREM AlwaysWatched == Spec => []WatchedUntilResolved
<1>1. Watching => WatchedUntilResolved
  <2> SUFFICES ASSUME Watching, is_inflight(order), ~history.crossed, venue.filled_qty = 0
               PROVE  manager.inflight # None \/ commands # << >>
    BY DEF WatchedUntilResolved
  <2>1. Watched
    BY DEF Watching, Quiet
  <2> QED
    BY <2>1 DEF Watched, is_inflight
<1> QED
  BY <1>1, WatchInit, WatchStep, PTL DEF Spec
=============================================================================
