-------------------------- MODULE ExecEngineProofs --------------------------
(***************************************************************************)
(* Proofs about the execution engine and its cache, for any number of      *)
(* orders, positions, trades and prices, with NETTING and with HEDGING:    *)
(* - the indexes of orders follow the orders, and no fill makes            *)
(*   Position::apply panic (invariant OInv);                               *)
(* - the orders of a spawn share a position (GInv);                        *)
(* - when commissions are not in the base currency, the indexes of open    *)
(*   and closed positions are exact, and a NETTING position holds exactly  *)
(*   what was traded (IInv); so do all positions together (BInv).          *)
(***************************************************************************)
EXTENDS ExecEngine, CoreLemmas

\* A step that names no prover is Zenon's.
USE Zenon

Working == {"Submitted", "Accepted", "Triggered", "PartiallyFilled"}

\* What the table of transitions says of the statuses an event leads from and to.
LEMMA TableFacts ==
    ASSUME NEW s \in DOMAIN transition, NEW t \in DOMAIN transition[s]
    PROVE  /\ transition[s][t] \in OrderStatus
           /\ transition[s][t] \in Pending => s \in Working \cup Pending
           /\ t \in {"ModifyRejected", "CancelRejected"} => s \in Pending
           /\ t = "Updated" => transition[s][t] = s
           /\ t # "Initialized"
           /\ s \in {"Denied", "Rejected", "Canceled", "Expired", "Filled"} => t = "Filled"
           /\ transition[s][t] \in {"Initialized", "Emulated", "Released"} =>
                 s \in {"Initialized", "Emulated", "Released"}
<1>1. s \in {"Initialized", "Emulated", "Released", "Submitted", "Accepted", "Canceled",
             "PendingUpdate", "PendingCancel", "Triggered", "PartiallyFilled"}
  BY SMT DEF transition
<1>2. CASE s = "Initialized"
  BY <1>2, SMT DEF transition, OrderStatus, Pending, Working
<1>3. CASE s = "Emulated"
  BY <1>3, SMT DEF transition, OrderStatus, Pending, Working
<1>4. CASE s = "Released"
  BY <1>4, SMT DEF transition, OrderStatus, Pending, Working
<1>5. CASE s = "Submitted"
  BY <1>5, SMT DEF transition, OrderStatus, Pending, Working
<1>6. CASE s = "Accepted"
  BY <1>6, SMT DEF transition, OrderStatus, Pending, Working
<1>7. CASE s = "Canceled"
  BY <1>7, SMT DEF transition, OrderStatus, Pending, Working
<1>8. CASE s = "PendingUpdate"
  BY <1>8, SMT DEF transition, OrderStatus, Pending, Working
<1>9. CASE s = "PendingCancel"
  BY <1>9, SMT DEF transition, OrderStatus, Pending, Working
<1>10. CASE s = "Triggered"
  BY <1>10, SMT DEF transition, OrderStatus, Pending, Working
<1>11. CASE s = "PartiallyFilled"
  BY <1>11, SMT DEF transition, OrderStatus, Pending, Working
<1> QED BY <1>1, <1>2, <1>3, <1>4, <1>5, <1>6, <1>7, <1>8, <1>9, <1>10, <1>11

LEMMA NewIsDeniable ==
    /\ "Initialized" \in DOMAIN transition
    /\ "Denied" \in DOMAIN transition["Initialized"]
    /\ transition["Initialized"]["Denied"] = "Denied"
BY SMT DEF transition

CacheFields ==
    {"orders", "venue_order_ids", "client_order_ids", "order_position", "position_orders",
     "exec_spawn_orders", "orders_active_local", "orders_emulated", "orders_inflight",
     "orders_open", "orders_closed", "positions", "position_snapshots", "positions_open",
     "positions_closed"}

\* The parts of a cache that the positions depend on, and that they are in agreement.
Consistent(c) ==
    /\ DOMAIN c = CacheFields
    /\ DOMAIN c.orders \subseteq ClientOrderIds
    /\ DOMAIN c.order_position = OrderIds
    /\ \A id \in DOMAIN c.positions : Shape(c.positions[id]) /\ Coherent(c.positions[id])
    /\ c.positions_open = {id \in DOMAIN c.positions : PositionOpen(c.positions[id])}
    /\ c.positions_closed = {id \in DOMAIN c.positions : PositionClosed(c.positions[id])}

\* An order whose fills the order state machine refuses.
DeniedOrder(o) == "status" \in DOMAIN o /\ o.status = "Denied"
IsDenied(c, id) == id \in DOMAIN c.orders /\ DeniedOrder(c.orders[id])

\* With NETTING every order that can be filled is routed to the one position: an order
\* indexed with another was submitted with it, and denied.
RoutedToNet(c, submitted) ==
    OmsType = "Netting" =>
        \A id \in OrderIds :
            \/ c.order_position[id] \in {None, NetId}
            \/ id \in submitted \cap ClientOrderIds /\ IsDenied(c, id)

\* A fill in which the whole quantity reaches the position.
PlainFill(fill) ==
    /\ IsFill(fill)
    /\ fill.last_qty # 0
    /\ fill.currency # "Base"

\* What an operation on orders does: the positions are the same, denied orders stay
\* denied and an order is indexed with no other position than position_id.
OrdersOnly(c, position_id, r) ==
    /\ Consistent(r)
    /\ r.positions = c.positions
    /\ \A o \in ClientOrderIds : IsDenied(c, o) => IsDenied(r, o)
    /\ \A o \in OrderIds : r.order_position[o] \in {c.order_position[o], position_id}

-----------------------------------------------------------------------------
\* A coherent position is either open or closed, by its signed quantity.
LEMMA OpenOrClosed ==
    ASSUME NEW p, Shape(p), Coherent(p)
    PROVE  /\ PositionOpen(p) <=> p.signed_qty # 0
           /\ PositionClosed(p) <=> p.signed_qty = 0
           /\ p.side = "Flat" <=> p.signed_qty = 0
BY SMT DEF Shape, Coherent, PositionOpen, PositionClosed, SideOf

\* A plain fill changes the quantity by what it trades, which is not nothing.
LEMMA PlainFillFacts ==
    ASSUME NEW fill, PlainFill(fill)
    PROVE  /\ IsFill(fill)
           /\ Change(fill) = Signed(fill)
           /\ Signed(fill) \in Int
           /\ Signed(fill) # 0
BY ChangeType, SMT DEF PlainFill, IsFill, Change, Signed, BaseCommission, OrderSide

\* Cache::add_position with an open position keeps the cache consistent.
LEMMA AddPositionFacts ==
    ASSUME NEW c, Consistent(c), NEW id, NEW p, Shape(p), Coherent(p), p.signed_qty # 0
    PROVE  /\ Consistent(add_position(c, id, p))
           /\ add_position(c, id, p).positions = WithEntry(c.positions, id, p)
           /\ add_position(c, id, p).orders = c.orders
           /\ \A o \in OrderIds :
                 add_position(c, id, p).order_position[o] \in {c.order_position[o], id}
<1> DEFINE r == add_position(c, id, p)
           W == WithEntry(c.positions, id, p)
<1>1. /\ DOMAIN r = CacheFields
      /\ r.orders = c.orders
      /\ r.positions = W
      /\ r.positions_open = c.positions_open \cup {id}
      /\ r.positions_closed = c.positions_closed \ {id}
      /\ r.order_position = [c.order_position EXCEPT ![p.opening_order_id] = id]
  BY DEF add_position, add_position_id, Consistent, CacheFields
<1>2. /\ DOMAIN W = DOMAIN c.positions \cup {id}
      /\ W[id] = p
      /\ \A x \in DOMAIN c.positions : x # id => W[x] = c.positions[x]
  BY DEF WithEntry
<1>3. PositionOpen(p) /\ ~PositionClosed(p)
  BY OpenOrClosed
<1> HIDE DEF r, W
<1>4. \A x \in DOMAIN W : Shape(W[x]) /\ Coherent(W[x])
  BY <1>2 DEF Consistent
<1>5. c.positions_open \cup {id} = {x \in DOMAIN W : PositionOpen(W[x])}
  BY <1>2, <1>3 DEF Consistent
<1>6. c.positions_closed \ {id} = {x \in DOMAIN W : PositionClosed(W[x])}
  BY <1>2, <1>3 DEF Consistent
<1>7. DOMAIN r.orders \subseteq ClientOrderIds /\ DOMAIN r.order_position = OrderIds
  BY <1>1 DEF Consistent
<1>8. Consistent(r)
  BY <1>1, <1>4, <1>5, <1>6, <1>7 DEF Consistent
<1>9. \A o \in OrderIds : r.order_position[o] \in {c.order_position[o], id}
  BY <1>1 DEF Consistent
<1> QED BY <1>1, <1>8, <1>9 DEF r, W

\* Cache::update_position keeps the cache consistent, whether the position is open or
\* closed afterwards.
LEMMA UpdatePositionFacts ==
    ASSUME NEW c, Consistent(c), NEW id \in DOMAIN c.positions,
           NEW p, Shape(p), Coherent(p)
    PROVE  /\ Consistent(update_position(c, id, p))
           /\ update_position(c, id, p).positions = [c.positions EXCEPT ![id] = p]
           /\ update_position(c, id, p).orders = c.orders
           /\ update_position(c, id, p).order_position = c.order_position
<1> DEFINE r == update_position(c, id, p)
           W == [c.positions EXCEPT ![id] = p]
<1>1. /\ DOMAIN r = CacheFields
      /\ r.orders = c.orders
      /\ r.order_position = c.order_position
      /\ r.positions = W
      /\ r.positions_open = Member(c.positions_open, id, PositionOpen(p))
      /\ r.positions_closed = Member(c.positions_closed, id, ~PositionOpen(p))
  BY DEF update_position, Consistent, CacheFields
<1>2. /\ DOMAIN W = DOMAIN c.positions
      /\ W[id] = p
      /\ \A x \in DOMAIN c.positions : x # id => W[x] = c.positions[x]
  OBVIOUS
<1>3. PositionClosed(p) <=> ~PositionOpen(p)
  BY OpenOrClosed
<1> HIDE DEF r, W
<1>4. \A x \in DOMAIN W : Shape(W[x]) /\ Coherent(W[x])
  BY <1>2 DEF Consistent
<1>5. Member(c.positions_open, id, PositionOpen(p)) = {x \in DOMAIN W : PositionOpen(W[x])}
  BY <1>2 DEF Consistent, Member
<1>6. Member(c.positions_closed, id, ~PositionOpen(p)) = {x \in DOMAIN W : PositionClosed(W[x])}
  BY <1>2, <1>3 DEF Consistent, Member
<1>7. Consistent(r)
  BY <1>1, <1>4, <1>5, <1>6 DEF Consistent
<1> QED BY <1>1, <1>7 DEF r, W

\* snapshot_position touches nothing the positions depend on.
LEMMA SnapshotFacts ==
    ASSUME NEW c, Consistent(c), NEW id, NEW p
    PROVE  LET r == snapshot_position(c, id, p)
           IN /\ Consistent(r)
              /\ r.positions = c.positions
              /\ r.orders = c.orders
              /\ r.order_position = c.order_position
BY DEF snapshot_position, Consistent, CacheFields

-----------------------------------------------------------------------------
\* A fill that flips a position whose id was generated: the rest goes to a new id.
Renews(c, fill) ==
    /\ OmsType = "Hedging"
    /\ is_virtual(fill.position_id)
    /\ has_position(c, fill.position_id)
    /\ PositionOpen(c.positions[fill.position_id])
    /\ will_flip_position(c.positions[fill.position_id], fill)

\* The position that has the quantity after a fill.
Target(c, n, fill) == IF Renews(c, fill) THEN Generated(n + 1) ELSE fill.position_id

\* What handling a fill does to the cache: it stays consistent, the orders are not
\* touched, and what the position of the fill held, changed by exactly what the fill
\* trades if the fill is booked and not at all otherwise, is in its target.
Outcome(c, n, fill, r) ==
    /\ Consistent(r.cache)
    /\ r.booked \in BOOLEAN
    /\ r.cache.orders = c.orders
    /\ r.count = IF Renews(c, fill) THEN n + 1 ELSE n
    /\ \A o \in OrderIds :
          r.cache.order_position[o] \in {c.order_position[o], Target(c, n, fill)}
    /\ DOMAIN r.cache.positions \subseteq DOMAIN c.positions \cup {Target(c, n, fill)}
    /\ \A x : x \notin {fill.position_id, Target(c, n, fill)} => Held(r.cache, x) = Held(c, x)
    /\ fill.position_id # Target(c, n, fill) => Held(r.cache, fill.position_id) = 0
    /\ Held(r.cache, Target(c, n, fill)) =
          Held(c, fill.position_id) + (IF r.booked THEN Signed(fill) ELSE 0)

\* The same for a fill that opens a position: it holds the fill and nothing else.
Opened(c, fill, r) ==
    /\ Consistent(r.cache)
    /\ r.booked = TRUE
    /\ r.cache.orders = c.orders
    /\ \A o \in OrderIds :
          r.cache.order_position[o] \in {c.order_position[o], fill.position_id}
    /\ DOMAIN r.cache.positions = DOMAIN c.positions \cup {fill.position_id}
    /\ \A x : x # fill.position_id => Held(r.cache, x) = Held(c, x)
    /\ Held(r.cache, fill.position_id) = Signed(fill)

\* What is held is an integer.
LEMMA HeldType == ASSUME NEW c, Consistent(c), NEW id PROVE Held(c, id) \in Int
<1>1. CASE id \in DOMAIN c.positions
  BY <1>1 DEF Held, has_position, Consistent, Shape
<1>2. CASE id \notin DOMAIN c.positions
  BY <1>2, SMT DEF Held, has_position
<1> QED BY <1>1, <1>2

\* A fill that opens a position where nothing was held has the outcome above.
LEMMA OpenedOutcome ==
    ASSUME NEW c, NEW n, NEW fill, PlainFill(fill), NEW r, Opened(c, fill, r), r.count = n,
           ~Renews(c, fill), Held(c, fill.position_id) = 0
    PROVE  Outcome(c, n, fill, r)
<1>1. Signed(fill) = 0 + Signed(fill)
  BY PlainFillFacts, SMT
<1>2. Held(r.cache, fill.position_id) =
         Held(c, fill.position_id) + (IF r.booked THEN Signed(fill) ELSE 0)
  BY <1>1 DEF Opened
<1>3. Target(c, n, fill) = fill.position_id
  BY DEF Target
<1> QED BY <1>2, <1>3 DEF Opened, Outcome

\* The position a fill opens is added under the fill's position id.
LEMMA OpenFacts ==
    ASSUME NEW c, Consistent(c), NEW n, NEW fill, PlainFill(fill)
    PROVE  /\ Opened(c, fill, open_position(c, n, fill))
           /\ open_position(c, n, fill).count = n
<1> DEFINE p == NewPosition(fill)
           a == add_position(c, fill.position_id, p)
           r == open_position(c, n, fill)
<1>1. Shape(p) /\ Coherent(p) /\ p.signed_qty = Signed(fill) /\ p.signed_qty # 0
  BY PlainFillFacts, NewPositionFacts
<1>2. r.cache = a /\ r.booked = TRUE /\ r.count = n
  BY DEF open_position, Booked
<1> HIDE DEF p, r
<1>3. /\ Consistent(a)
      /\ a.positions = WithEntry(c.positions, fill.position_id, p)
      /\ a.orders = c.orders
      /\ \A o \in OrderIds : a.order_position[o] \in {c.order_position[o], fill.position_id}
  BY <1>1, AddPositionFacts
<1> HIDE DEF a
<1>4. /\ Held(a, fill.position_id) = Signed(fill)
      /\ \A x : x # fill.position_id => Held(a, x) = Held(c, x)
      /\ DOMAIN a.positions = DOMAIN c.positions \cup {fill.position_id}
  BY <1>1, <1>3 DEF Held, has_position, WithEntry
<1> QED BY <1>2, <1>3, <1>4 DEF r, Opened

\* Rounding yields an integer.
LEMMA RoundType ==
    ASSUME NEW k \in Int, NEW d \in Nat \ {0}
    PROVE  bankers_round(k, d) \in Int
BY SMT DEF bankers_round

\* A flip closes the position with one part of the fill and opens one with the rest.
LEMMA FlipFacts ==
    ASSUME NEW c, Consistent(c), NEW n, NEW fill, PlainFill(fill),
           fill = [f \in DOMAIN fill |-> fill[f]],
           {"order_side", "last_qty", "commission", "currency", "position_id"} \subseteq DOMAIN fill,
           fill.position_id \in DOMAIN c.positions,
           PositionOpen(c.positions[fill.position_id]),
           will_flip_position(c.positions[fill.position_id], fill)
    PROVE  Outcome(c, n, fill, flip_position(c, n, c.positions[fill.position_id], fill))
<1> DEFINE id == fill.position_id
           p == c.positions[id]
           commission1 == bankers_round(fill.commission * p.quantity, fill.last_qty)
           split1 == [fill EXCEPT !.last_qty = p.quantity, !.commission = commission1]
           closing == ApplyFill(p, split1)
           u == update_position(c, id, closing)
           kept == IF OmsType = "Netting" THEN snapshot_position(u, id, closing) ELSE u
           renew == OmsType = "Hedging" /\ is_virtual(id)
           split2 == [fill EXCEPT !.last_qty = difference(p, fill),
                                  !.commission = @ - commission1,
                                  !.position_id = IF renew THEN Generated(n + 1) ELSE @]
           m == IF renew THEN n + 1 ELSE n
           r == open_position(kept, m, split2)
<1>1. /\ Shape(p) /\ Coherent(p)
      /\ p.quantity \in Nat
      /\ p.signed_qty \in Int
      /\ p.signed_qty # 0
  BY OpenOrClosed DEF Consistent, Shape
<1>2. /\ fill.last_qty \in Nat /\ fill.last_qty # 0 /\ fill.commission \in Int
      /\ fill.order_side \in OrderSide /\ fill.currency # "Base"
      /\ fill.last_qty > p.quantity
      /\ p.entry # fill.order_side
  BY DEF PlainFill, IsFill, will_flip_position, is_opposite_side
<1>3. commission1 \in Int
  <2>1. fill.commission * p.quantity \in Int
    BY <1>1, <1>2, SMT
  <2> QED BY <1>2, <2>1, RoundType
<1> HIDE DEF commission1
<1>4. /\ split1.order_side = fill.order_side
      /\ split1.last_qty = p.quantity
      /\ split1.commission = commission1
      /\ split1.currency = fill.currency
  OBVIOUS
<1>5. /\ split2.order_side = fill.order_side
      /\ split2.last_qty = fill.last_qty - p.quantity
      /\ split2.commission = fill.commission - commission1
      /\ split2.currency = fill.currency
      /\ split2.position_id = IF renew THEN Generated(n + 1) ELSE id
  BY DEF difference
<1> HIDE DEF split1, split2
<1>6. IsFill(split1) /\ Change(split1) = Signed(split1)
  BY <1>1, <1>2, <1>3, <1>4, SMT DEF IsFill, Change, Signed, BaseCommission, OrderSide
<1>7. PlainFill(split2) /\ Signed(split2) = Signed(fill) - Signed(split1)
  BY <1>1, <1>2, <1>3, <1>4, <1>5, SMT DEF PlainFill, IsFill, Signed, OrderSide
<1>8. Shape(closing) /\ Coherent(closing) /\ closing.signed_qty = p.signed_qty + Signed(split1)
  BY <1>1, <1>6, ApplyFillFacts, OpenOrClosed
<1>9. p.signed_qty + Signed(split1) = 0
  BY <1>1, <1>2, <1>4, SMTT(30) DEF Coherent, SideOf, abs, Signed, OrderSide, Shape
<1> HIDE DEF closing
<1>10. /\ Consistent(u)
       /\ u.positions = [c.positions EXCEPT ![id] = closing]
       /\ u.orders = c.orders
       /\ u.order_position = c.order_position
  BY <1>8, UpdatePositionFacts
<1> HIDE DEF u
<1>11. /\ Consistent(kept)
       /\ kept.positions = [c.positions EXCEPT ![id] = closing]
       /\ kept.orders = c.orders
       /\ kept.order_position = c.order_position
  BY <1>10, SnapshotFacts, SMT
<1> HIDE DEF kept
<1>12. Opened(kept, split2, r) /\ r.count = m
  <2> HIDE DEF m
  <2> QED BY <1>7, <1>11, OpenFacts, SMT
<1>13. flip_position(c, n, p, fill) = r
  BY DEF flip_position, r, m, kept, u, closing, split1, split2, commission1
<1> HIDE DEF r
<1>14. /\ split2.position_id = Target(c, n, fill)
       /\ m = IF Renews(c, fill) THEN n + 1 ELSE n
  BY <1>5 DEF Target, Renews, has_position
<1>15. /\ Held(c, id) = p.signed_qty
       /\ Held(kept, id) = 0
       /\ \A x : x # id => Held(kept, x) = Held(c, x)
       /\ DOMAIN kept.positions = DOMAIN c.positions
  BY <1>8, <1>9, <1>11 DEF Held, has_position
<1> HIDE DEF m, p
<1>16. Held(r.cache, split2.position_id) = Held(c, id) + Signed(fill)
  <2>1. Signed(split1) \in Int /\ Signed(fill) \in Int
    BY <1>1, <1>2, <1>4, SMT DEF Signed
  <2>2. Held(r.cache, split2.position_id) = Signed(split2)
    BY <1>12 DEF Opened
  <2> QED BY <1>1, <1>7, <1>9, <1>15, <2>1, <2>2, SMT
<1>17. Outcome(c, n, fill, r)
  <2>1. /\ Consistent(r.cache)
        /\ r.booked = TRUE
        /\ r.cache.orders = c.orders
        /\ \A o \in OrderIds :
              r.cache.order_position[o] \in {c.order_position[o], split2.position_id}
        /\ DOMAIN r.cache.positions = DOMAIN c.positions \cup {split2.position_id}
        /\ \A x : x # split2.position_id => Held(r.cache, x) = Held(kept, x)
    BY <1>11, <1>12, <1>15 DEF Opened
  <2> HIDE DEF id
  <2>2. Held(r.cache, split2.position_id) = Held(c, id) + (IF r.booked THEN Signed(fill) ELSE 0)
    BY <1>16, <2>1
  <2>3. /\ \A x : x \notin {id, split2.position_id} => Held(r.cache, x) = Held(c, x)
        /\ id # split2.position_id => Held(r.cache, id) = 0
    BY <1>15, <2>1
  <2> QED BY <1>12, <1>14, <2>1, <2>2, <2>3 DEF Outcome, id
<1> QED BY <1>13, <1>17 DEF p

\* A record with the fields of a fill that the engine reads and changes.
FillRecord(fill) ==
    /\ fill = [f \in DOMAIN fill |-> fill[f]]
    /\ {"order_side", "last_qty", "commission", "currency", "position_id", "client_order_id",
        "trade_id"} \subseteq DOMAIN fill

\* Every way handle_position_update can go has the outcome above.
LEMMA PositionUpdateFacts ==
    ASSUME NEW c, Consistent(c), NEW n, NEW fill, PlainFill(fill), FillRecord(fill)
    PROVE  Outcome(c, n, fill, handle_position_update(c, n, fill))
<1> DEFINE id == fill.position_id
           p == c.positions[id]
           r == handle_position_update(c, n, fill)
<1>1. ASSUME NEW d, d = Unbooked(c, n), ~Renews(c, fill) PROVE Outcome(c, n, fill, d)
  <2>1. d.cache = c /\ d.booked = FALSE /\ d.count = n
    BY <1>1 DEF Unbooked
  <2>2. Held(c, id) + 0 = Held(c, id)
    BY HeldType, SMT
  <2>3. Target(c, n, fill) = id
    BY <1>1 DEF Target
  <2> QED BY <1>1, <2>1, <2>2, <2>3 DEF Outcome
<1>2. Signed(fill) \in Int /\ Change(fill) = Signed(fill) /\ IsFill(fill)
  BY PlainFillFacts
<1>3. ASSUME NEW d, d = open_position(c, n, fill), Held(c, id) = 0, ~Renews(c, fill)
      PROVE  Outcome(c, n, fill, d)
  BY <1>3, OpenFacts, OpenedOutcome
<1>4. CASE ~has_position(c, id)
  <2>1. r = Unbooked(c, n) \/ r = open_position(c, n, fill)
    BY <1>4 DEF handle_position_update
  <2>2. Held(c, id) = 0 /\ ~Renews(c, fill)
    BY <1>4 DEF Held, Renews
  <2> HIDE DEF r
  <2>3. Outcome(c, n, fill, r)
    BY <1>1, <1>3, <2>1, <2>2
  <2> QED BY <2>3 DEF r
<1>5. CASE has_position(c, id)
  <2>1. /\ id \in DOMAIN c.positions
        /\ Shape(p) /\ Coherent(p)
        /\ Held(c, id) = p.signed_qty
        /\ p.signed_qty \in Int
    BY <1>5 DEF has_position, Held, Consistent, Shape
  <2>2. CASE PositionClosed(p)
    <3>1. p.signed_qty = 0 /\ ~Renews(c, fill)
      BY <2>1, <2>2, OpenOrClosed DEF Renews
    <3>2. r = Unbooked(c, n) \/ r = open_position(reopen_position(c, id, p), n, fill)
      BY <1>5, <2>2 DEF handle_position_update, open_position_again
    <3>3. /\ Consistent(reopen_position(c, id, p))
          /\ reopen_position(c, id, p).positions = c.positions
          /\ reopen_position(c, id, p).orders = c.orders
          /\ reopen_position(c, id, p).order_position = c.order_position
      BY SnapshotFacts, SMT DEF reopen_position
    <3> HIDE DEF r
    <3>4. ASSUME r = open_position(reopen_position(c, id, p), n, fill)
          PROVE  Outcome(c, n, fill, r)
      <4> DEFINE e == reopen_position(c, id, p)
      <4> HIDE DEF e, p
      <4>1. Opened(e, fill, r) /\ r.count = n
        BY <3>3, <3>4, OpenFacts, SMT DEF e
      <4>2. /\ e.orders = c.orders
            /\ e.order_position = c.order_position
            /\ e.positions = c.positions
            /\ \A x : Held(e, x) = Held(c, x)
        BY <3>3 DEF e, Held, has_position
      <4>3. Opened(c, fill, r)
        BY <4>1, <4>2 DEF Opened
      <4>4. Held(c, fill.position_id) = 0
        BY <2>1, <3>1
      <4> QED BY <3>1, <4>1, <4>3, <4>4, OpenedOutcome
    <3>5. Outcome(c, n, fill, r)
      BY <1>1, <3>1, <3>2, <3>4
    <3> QED BY <3>5 DEF r
  <2>3. CASE ~PositionClosed(p) /\ will_flip_position(p, fill)
    <3>1. r = flip_position(c, n, p, fill)
      BY <1>5, <2>3 DEF handle_position_update
    <3>2. PositionOpen(p)
      BY <2>1, <2>3, OpenOrClosed
    <3> QED BY <2>1, <2>3, <3>1, <3>2, FlipFacts, SMT DEF FillRecord
  <2>4. CASE ~PositionClosed(p) /\ ~will_flip_position(p, fill)
    <3> DEFINE q == ApplyFill(p, fill)
               u == update_position(c, id, q)
    <3>1. r.cache = u /\ r.booked = TRUE /\ r.count = n
      BY <1>5, <2>4 DEF handle_position_update, Booked
    <3>2. Shape(q) /\ Coherent(q) /\ q.signed_qty = p.signed_qty + Signed(fill)
      BY <1>2, <2>1, ApplyFillFacts, OpenOrClosed
    <3> HIDE DEF q
    <3>3. /\ Consistent(u)
          /\ u.positions = [c.positions EXCEPT ![id] = q]
          /\ u.orders = c.orders
          /\ u.order_position = c.order_position
      BY <2>1, <3>2, UpdatePositionFacts
    <3> HIDE DEF u, r
    <3>4. /\ Held(u, id) = q.signed_qty
          /\ \A x : x # id => Held(u, x) = Held(c, x)
          /\ DOMAIN u.positions = DOMAIN c.positions
      BY <2>1, <3>3 DEF Held, has_position
    <3>5. ~Renews(c, fill) /\ Target(c, n, fill) = id
      BY <2>4 DEF Renews, Target
    <3>6. Outcome(c, n, fill, r)
      BY <2>1, <3>1, <3>2, <3>3, <3>4, <3>5 DEF Outcome
    <3> QED BY <3>6 DEF r
  <2> QED BY <2>2, <2>3, <2>4
<1> QED BY <1>4, <1>5

-----------------------------------------------------------------------------
\* add_venue_order_id touches nothing the positions depend on.
LEMMA VenueOrderIdFacts ==
    ASSUME NEW c, Consistent(c), NEW id, NEW v, NEW overwrite
    PROVE  LET r == add_venue_order_id(c, id, v, overwrite)
           IN /\ Consistent(r)
              /\ r.positions = c.positions
              /\ r.orders = c.orders
              /\ r.order_position = c.order_position
BY DEF add_venue_order_id, Consistent, CacheFields

\* Nor does refresh_order.
LEMMA RefreshFacts ==
    ASSUME NEW c, Consistent(c), NEW id, NEW o
    PROVE  LET r == refresh_order(c, id, o)
           IN /\ Consistent(r)
              /\ r.positions = c.positions
              /\ r.orders = c.orders
              /\ r.order_position = c.order_position
<1> DEFINE v == o.venue_order_id
           x == IF v # None /\ c.venue_order_ids[v] = None
                THEN add_venue_order_id(c, id, v, o.last_event = "Updated") ELSE c
           r == refresh_order(c, id, o)
<1>1. /\ Consistent(x)
      /\ x.positions = c.positions
      /\ x.orders = c.orders
      /\ x.order_position = c.order_position
  BY VenueOrderIdFacts, SMT
<1> HIDE DEF x
<1>2. \A f \in {"positions", "orders", "order_position", "positions_open", "positions_closed"} :
         r[f] = x[f]
  BY <1>1 DEF refresh_order, Consistent, CacheFields, x
<1>3. DOMAIN r = CacheFields
  BY <1>1 DEF refresh_order, Consistent, x
<1> HIDE DEF r
<1>4. Consistent(r)
  BY <1>1, <1>2, <1>3 DEF Consistent
<1> QED BY <1>1, <1>2, <1>4 DEF r

\* No event applies to a denied order.
LEMMA DeniedRefuses ==
    ASSUME NEW o, DeniedOrder(o), NEW e
    PROVE  ~Applies(SavePrevious(o, e), e)
<1>1. SavePrevious(o, e).status = "Denied"
  BY DEF SavePrevious, DeniedOrder
<1>2. "Denied" \notin DOMAIN transition
  BY SMT DEF transition
<1> QED BY <1>1, <1>2 DEF Applies

\* Cache::update_order changes one order, and not a denied one.
LEMMA UpdateOrderFacts ==
    ASSUME NEW c, Consistent(c), NEW id \in ClientOrderIds, NEW e, NEW position_id
    PROVE  OrdersOnly(c, position_id, update_order(c, id, e))
<1> DEFINE o == apply(c.orders[id], e)
           w == [c EXCEPT !.orders[id] = o]
           r == update_order(c, id, e)
<1>1. CASE ~Accepts(c, id, e)
  BY <1>1 DEF update_order, OrdersOnly
<1>2. CASE Accepts(c, id, e)
  <2>1. r = refresh_order(w, id, o)
    BY <1>2 DEF update_order
  <2> HIDE DEF o
  <2>2. /\ Consistent(w)
        /\ w.positions = c.positions
        /\ w.orders = [c.orders EXCEPT ![id] = o]
        /\ w.order_position = c.order_position
    BY DEF Consistent, CacheFields
  <2> HIDE DEF w, r
  <2>3. /\ Consistent(r)
        /\ r.positions = w.positions
        /\ r.orders = w.orders
        /\ r.order_position = w.order_position
    BY <2>1, <2>2, RefreshFacts, SMT
  <2>4. ~IsDenied(c, id)
    BY <1>2, DeniedRefuses DEF Accepts, IsDenied
  <2>5. \A x \in ClientOrderIds : IsDenied(c, x) => IsDenied(r, x)
    BY <2>2, <2>3, <2>4 DEF IsDenied
  <2>6. OrdersOnly(c, position_id, r)
    BY <2>2, <2>3, <2>5 DEF OrdersOnly
  <2> QED BY <2>6 DEF r
<1> QED BY <1>1, <1>2

\* Cache::add_position_id indexes one order with a position.
LEMMA AddPositionIdFacts ==
    ASSUME NEW c, Consistent(c), NEW position_id, NEW id
    PROVE  OrdersOnly(c, position_id, add_position_id(c, position_id, id))
<1> DEFINE r == add_position_id(c, position_id, id)
<1>1. /\ DOMAIN r = CacheFields
      /\ \A f \in {"positions", "orders", "positions_open", "positions_closed"} : r[f] = c[f]
      /\ r.order_position = [c.order_position EXCEPT ![id] = position_id]
  BY DEF add_position_id, Consistent, CacheFields
<1> HIDE DEF r
<1>2. Consistent(r)
  BY <1>1 DEF Consistent
<1>3. OrdersOnly(c, position_id, r)
  BY <1>1, <1>2 DEF OrdersOnly, IsDenied, Consistent
<1> QED BY <1>3 DEF r

\* Cache::add_order puts the order in the cache and indexes it with the position id given.
LEMMA AddOrderFacts ==
    ASSUME NEW c, Consistent(c), NEW id \in ClientOrderIds, NEW o, NEW position_id
    PROVE  LET r == add_order(c, id, o, position_id)
           IN /\ Consistent(r)
              /\ r.positions = c.positions
              /\ r.orders = WithEntry(c.orders, id, o)
              /\ \A x \in OrderIds :
                    \/ r.order_position[x] = c.order_position[x]
                    \/ x = id /\ r.order_position[x] = position_id
<1> DEFINE spawn == OrderInit[id].exec_spawn_id
           a == [c EXCEPT
                   !.orders = WithEntry(@, id, o),
                   !.orders_active_local = IF is_active_local(o) THEN @ \cup {id} ELSE @,
                   !.orders_emulated = IF o.emulation_trigger THEN @ \cup {id} ELSE @,
                   !.exec_spawn_orders = [s \in ClientOrderIds |->
                                            IF s = spawn THEN @[s] \cup {id} ELSE @[s]]]
           r == add_order(c, id, o, position_id)
<1>1. /\ DOMAIN a = CacheFields
      /\ \A f \in {"positions", "order_position", "positions_open", "positions_closed"} : a[f] = c[f]
      /\ a.orders = WithEntry(c.orders, id, o)
  BY DEF Consistent, CacheFields
<1>2. r = IF position_id = None THEN a ELSE add_position_id(a, position_id, id)
  BY DEF add_order
<1> HIDE DEF a, r
<1>3. Consistent(a)
  BY <1>1 DEF Consistent, WithEntry
<1>4. CASE position_id = None
  BY <1>1, <1>2, <1>3, <1>4 DEF r
<1>5. CASE position_id # None
  <2>1. r = add_position_id(a, position_id, id)
    BY <1>2, <1>5
  <2>2. Consistent(r) /\ r.positions = a.positions
    BY <1>3, <2>1, AddPositionIdFacts DEF OrdersOnly
  <2>3. r.orders = a.orders /\ r.order_position = [a.order_position EXCEPT ![id] = position_id]
    BY <1>1, <2>1 DEF add_position_id, CacheFields
  <2>4. \A x \in OrderIds :
          \/ r.order_position[x] = c.order_position[x]
          \/ x = id /\ r.order_position[x] = position_id
    BY <1>1, <2>3 DEF Consistent
  <2> QED BY <1>1, <2>2, <2>3, <2>4 DEF r
<1> QED BY <1>4, <1>5

\* A denied order stays one when its position id is set.
LEMMA DeniedKept ==
    ASSUME NEW o, DeniedOrder(o), NEW v
    PROVE  DeniedOrder([o EXCEPT !.position_id = v])
BY DEF DeniedOrder

\* The position id given to a primary order.
LEMMA PropagatedFacts ==
    ASSUME NEW c, Consistent(c), NEW position_id, NEW id
    PROVE  OrdersOnly(c, position_id, Propagated(c, position_id, id))
<1> DEFINE spawn == OrderInit[id].exec_spawn_id
           w == [c EXCEPT !.orders[spawn].position_id = position_id]
           r == Propagated(c, position_id, id)
<1>1. r = c \/ r = add_position_id(w, position_id, spawn)
  BY DEF Propagated
<1>2. CASE r = c
  BY <1>2 DEF OrdersOnly
<1>3. CASE r = add_position_id(w, position_id, spawn)
  <2>1. /\ DOMAIN w = CacheFields
        /\ \A f \in {"positions", "order_position", "positions_open", "positions_closed"} : w[f] = c[f]
        /\ DOMAIN w.orders = DOMAIN c.orders
        /\ \A x \in DOMAIN c.orders :
              w.orders[x] \in {c.orders[x], [c.orders[x] EXCEPT !.position_id = position_id]}
    BY DEF Consistent, CacheFields
  <2> HIDE DEF w, r
  <2>2. Consistent(w)
    BY <2>1 DEF Consistent
  <2>3. OrdersOnly(w, position_id, r)
    BY <1>3, <2>2, AddPositionIdFacts
  <2>4. \A x \in ClientOrderIds : IsDenied(c, x) => IsDenied(w, x)
    BY <2>1, DeniedKept, SMT DEF IsDenied
  <2>5. OrdersOnly(c, position_id, r)
    BY <2>1, <2>3, <2>4 DEF OrdersOnly
  <2> QED BY <2>5 DEF r
<1> QED BY <1>1, <1>2, <1>3

\* The position id given to the children of an OTO order.
LEMMA LinkFacts ==
    ASSUME NEW c, Consistent(c), NEW fill
    PROVE  OrdersOnly(c, fill.position_id, LinkContingent(c, fill))
<1> DEFINE position_id == fill.position_id
           children == {id \in OrderInit[fill.client_order_id].linked_order_ids :
                           order_exists(c, id) /\ c.orders[id].position_id = None}
           r == LinkContingent(c, fill)
           w == [c EXCEPT
                   !.orders = [id \in DOMAIN c.orders |->
                                 IF id \in children
                                 THEN [c.orders[id] EXCEPT !.position_id = position_id]
                                 ELSE c.orders[id]],
                   !.order_position = [id \in OrderIds |->
                                         IF id \in children THEN position_id
                                         ELSE c.order_position[id]],
                   !.position_orders[position_id] = @ \cup children]
<1>1. r = c \/ r = w
  BY DEF LinkContingent, Consistent, CacheFields
<1>2. CASE r = c
  BY <1>2 DEF OrdersOnly
<1>3. CASE r = w
  <2> HIDE DEF children
  <2>1. /\ DOMAIN w = CacheFields
        /\ \A f \in {"positions", "positions_open", "positions_closed"} : w[f] = c[f]
        /\ w.orders = [id \in DOMAIN c.orders |->
                         IF id \in children
                         THEN [c.orders[id] EXCEPT !.position_id = position_id]
                         ELSE c.orders[id]]
        /\ w.order_position = [id \in OrderIds |->
                                 IF id \in children THEN position_id ELSE c.order_position[id]]
    BY DEF Consistent, CacheFields
  <2> HIDE DEF w, r
  <2>2. Consistent(w)
    BY <2>1 DEF Consistent
  <2>3. \A x \in ClientOrderIds : IsDenied(c, x) => IsDenied(w, x)
    <3> SUFFICES ASSUME NEW x \in ClientOrderIds, IsDenied(c, x)
                 PROVE  IsDenied(w, x)
      OBVIOUS
    <3>1. /\ x \in DOMAIN w.orders
          /\ w.orders[x] \in {c.orders[x], [c.orders[x] EXCEPT !.position_id = position_id]}
      BY <2>1 DEF IsDenied
    <3> QED BY <3>1, DeniedKept, SMT DEF IsDenied
  <2>4. OrdersOnly(c, position_id, w)
    BY <2>1, <2>2, <2>3 DEF OrdersOnly
  <2> QED BY <1>3, <2>4 DEF r
<1> QED BY <1>1, <1>2, <1>3

\* Purging an order leaves it without a position.
LEMMA PurgeOrderFacts ==
    ASSUME NEW c, Consistent(c), NEW id \in ClientOrderIds
    PROVE  LET r == purge_order(c, id)
           IN /\ Consistent(r)
              /\ r.positions = c.positions
              /\ \A x \in ClientOrderIds : x # id /\ IsDenied(c, x) => IsDenied(r, x)
              /\ \A x \in OrderIds :
                    r.order_position[x] = IF x = id THEN None ELSE c.order_position[x]
<1> DEFINE r == purge_order(c, id)
<1>1. /\ DOMAIN r = CacheFields
      /\ \A f \in {"positions", "positions_open", "positions_closed"} : r[f] = c[f]
      /\ r.orders = WithoutEntry(c.orders, id)
      /\ r.order_position = [c.order_position EXCEPT ![id] = None]
  BY DEF purge_order, Consistent, CacheFields
<1> HIDE DEF r
<1>2. Consistent(r)
  BY <1>1 DEF Consistent, WithoutEntry
<1>3. \A x \in ClientOrderIds : x # id /\ IsDenied(c, x) => IsDenied(r, x)
  BY <1>1 DEF IsDenied, WithoutEntry
<1> QED BY <1>1, <1>2, <1>3 DEF r, Consistent, OrderIds

\* Purging a position removes it from the indexes as well.
LEMMA PurgePositionFacts ==
    ASSUME NEW c, Consistent(c), NEW id \in DOMAIN c.positions
    PROVE  LET r == purge_position(c, id)
           IN /\ Consistent(r)
              /\ r.positions = WithoutEntry(c.positions, id)
              /\ r.orders = c.orders
              /\ \A x \in OrderIds : r.order_position[x] \in {c.order_position[x], None}
<1> DEFINE r == purge_position(c, id)
           p == c.positions[id]
           traders == {p.events[i].client_order_id : i \in DOMAIN p.events}
           W == WithoutEntry(c.positions, id)
<1> HIDE DEF traders
<1>1. /\ DOMAIN r = CacheFields
      /\ r.orders = c.orders
      /\ r.positions = W
      /\ r.positions_open = c.positions_open \ {id}
      /\ r.positions_closed = c.positions_closed \ {id}
      /\ r.order_position = [x \in OrderIds |-> IF x \in traders THEN None ELSE c.order_position[x]]
  BY DEF purge_position, Consistent, CacheFields, traders
<1>2. DOMAIN W = DOMAIN c.positions \ {id} /\ \A x \in DOMAIN W : W[x] = c.positions[x]
  BY DEF WithoutEntry
<1> HIDE DEF r, W
<1>3. c.positions_open \ {id} = {x \in DOMAIN W : PositionOpen(W[x])}
  BY <1>2 DEF Consistent
<1>4. c.positions_closed \ {id} = {x \in DOMAIN W : PositionClosed(W[x])}
  BY <1>2 DEF Consistent
<1>5. Consistent(r)
  BY <1>1, <1>2, <1>3, <1>4 DEF Consistent
<1> QED BY <1>1, <1>5 DEF r, W

-----------------------------------------------------------------------------
\* The events the venue sends are fills of the kind the lemmas above are about.
LEMMA VenueFills ==
    ASSUME "Base" \notin Currencies, NEW event \in Fills \cup LegFills
    PROVE  PlainFill(event) /\ FillRecord(event)
<1>1. /\ event.order_side \in OrderSide
      /\ event.last_qty \in Nat /\ event.last_qty # 0
      /\ event.commission \in Nat
      /\ event.currency = "Settlement"
      /\ DOMAIN event = {"type", "client_order_id", "venue_order_id", "trade_id", "order_side",
                         "last_qty", "last_px", "commission", "currency", "position_id"}
      /\ event = [f \in DOMAIN event |-> event[f]]
  BY ExecEngineAssumption DEF Fills, LegFills
<1> QED BY <1>1, SMT DEF PlainFill, IsFill, FillRecord

\* They still are when the engine has set their order or position.
LEMMA RoutedFill ==
    ASSUME NEW event, PlainFill(event), FillRecord(event), NEW v,
           NEW f \in {"client_order_id", "position_id"}
    PROVE  /\ PlainFill([event EXCEPT ![f] = v])
           /\ FillRecord([event EXCEPT ![f] = v])
           /\ [event EXCEPT ![f] = v][f] = v
<1> DEFINE fill == [event EXCEPT ![f] = v]
<1>1. /\ DOMAIN fill = DOMAIN event
      /\ fill[f] = v
      /\ \A g \in {"order_side", "last_qty", "commission", "currency"} : fill[g] = event[g]
      /\ fill = [g \in DOMAIN fill |-> fill[g]]
  BY DEF FillRecord
<1> HIDE DEF fill
<1>2. fill.order_side = event.order_side /\ fill.last_qty = event.last_qty
  BY <1>1
<1>3. fill.commission = event.commission /\ fill.currency = event.currency
  BY <1>1
<1>4. PlainFill(fill) /\ FillRecord(fill)
  BY <1>1, <1>2, <1>3 DEF PlainFill, IsFill, FillRecord
<1> QED BY <1>1, <1>4 DEF fill

\* The position id a fill is given.  With NETTING it is that of the order's index or the
\* NETTING one, and only in the second case the cache changes.
LEMMA DetermineFacts ==
    ASSUME NEW c, Consistent(c), NEW n, NEW fill, NEW d \in determine_position_id(c, n, fill)
    PROVE  /\ OrdersOnly(c, d.position_id, d.cache)
           /\ OmsType = "Netting" =>
                 \/ /\ d.cache = c
                    /\ c.order_position[fill.client_order_id] # None
                    /\ d.position_id = c.order_position[fill.client_order_id]
                 \/ d.position_id = NetId
<1> DEFINE id == fill.client_order_id
           assigned == IF OmsType = "Hedging" THEN determine_hedging_position_id(c, n, fill)
                       ELSE {<<NetId, n>>}
<1>1. CASE c.order_position[id] # None
  <2>1. d = [position_id |-> c.order_position[id], count |-> n, cache |-> c]
    BY <1>1 DEF determine_position_id
  <2>2. d.cache = c /\ d.position_id = c.order_position[id]
    BY <2>1
  <2> QED BY <1>1, <2>2 DEF OrdersOnly
<1>2. CASE c.order_position[id] = None
  <2>1. PICK a \in assigned :
          d = [position_id |-> a[1], count |-> a[2], cache |-> Propagated(c, a[1], id)]
    BY <1>2 DEF determine_position_id
  <2>2. d.position_id = a[1] /\ d.cache = Propagated(c, a[1], id)
    BY <2>1
  <2>3. OmsType = "Netting" => a[1] = NetId
    <3> HAVE OmsType = "Netting"
    <3>1. a = <<NetId, n>>
      OBVIOUS
    <3> QED BY <3>1
  <2> HIDE DEF assigned
  <2> QED BY <2>2, <2>3, PropagatedFacts
<1> QED BY <1>1, <1>2

-----------------------------------------------------------------------------
\* What handling a fill does, with what it does to the orders.
Result(c, fill, r) ==
    /\ Consistent(r.cache)
    /\ r.booked \in BOOLEAN
    /\ \A o \in ClientOrderIds : IsDenied(c, o) => IsDenied(r.cache, o)
    /\ OmsType = "Netting" =>
          /\ \A o \in OrderIds :
                r.cache.order_position[o] \in {c.order_position[o], fill.position_id}
          /\ Held(r.cache, fill.position_id) =
                Held(c, fill.position_id) + (IF r.booked THEN Signed(fill) ELSE 0)

\* Every way handle_order_fill can go.
LEMMA OrderFillFacts ==
    ASSUME NEW c, Consistent(c), NEW n, NEW fill, PlainFill(fill), FillRecord(fill)
    PROVE  Result(c, fill, handle_order_fill(c, n, fill))
<1> DEFINE h == handle_position_update(c, n, fill)
           r == handle_order_fill(c, n, fill)
<1>1. CASE ~account
  <2>1. r.cache = c /\ r.booked = FALSE
    BY <1>1 DEF handle_order_fill, Unbooked
  <2>2. Held(c, fill.position_id) \in Int
    BY HeldType
  <2> HIDE DEF r
  <2>3. Held(c, fill.position_id) + (IF r.booked THEN Signed(fill) ELSE 0) = Held(c, fill.position_id)
    BY <2>1, <2>2, SMT
  <2>4. Result(c, fill, r)
    BY <2>1, <2>3 DEF Result
  <2> QED BY <2>4 DEF r
<1>2. CASE account
  <2>1. r = [h EXCEPT !.cache = LinkContingent(h.cache, fill)]
    BY <1>2 DEF handle_order_fill
  <2>2. DOMAIN h = {"cache", "count", "booked"}
    BY DEF handle_position_update, Booked, Unbooked, open_position_again, open_position,
           flip_position
  <2>3. Outcome(c, n, fill, h) /\ (OmsType = "Netting" => Target(c, n, fill) = fill.position_id)
    BY PositionUpdateFacts DEF Target, Renews
  <2> HIDE DEF h
  <2>4. r.cache = LinkContingent(h.cache, fill) /\ r.booked = h.booked
    BY <2>1, <2>2
  <2> HIDE DEF r
  <2>5. OrdersOnly(h.cache, fill.position_id, r.cache)
    BY <2>3, <2>4, LinkFacts DEF Outcome
  <2>6. Held(r.cache, fill.position_id) = Held(h.cache, fill.position_id)
    BY <2>5 DEF OrdersOnly, Held, has_position
  <2>7. \A o \in ClientOrderIds : IsDenied(c, o) => IsDenied(r.cache, o)
    BY <2>3, <2>5 DEF OrdersOnly, Outcome, IsDenied
  <2>8. OmsType = "Netting" =>
          \A o \in OrderIds : r.cache.order_position[o] \in {c.order_position[o], fill.position_id}
    BY <2>3, <2>5 DEF OrdersOnly, Outcome
  <2>9. Result(c, fill, r)
    BY <2>3, <2>4, <2>5, <2>6, <2>7, <2>8 DEF OrdersOnly, Outcome, Result
  <2> QED BY <2>9 DEF r
<1> QED BY <1>1, <1>2
-----------------------------------------------------------------------------
HistoryFields == {"net", "unbooked", "cash", "panicked", "renewed", "legs", "lost", "submitted"}

\* The inductive invariant.
IInv ==
    /\ Consistent(cache)
    /\ RoutedToNet(cache, history.submitted)
    /\ DOMAIN history = HistoryFields
    /\ history.net \in Int
    /\ history.unbooked \in Int
    /\ NettingBooksMatch

\* The history records the fill.
LEMMA TradedFacts ==
    ASSUME DOMAIN history = HistoryFields, NEW fill, PlainFill(fill), NEW booked \in BOOLEAN,
           Traded(fill, booked), history.net \in Int, history.unbooked \in Int
    PROVE  /\ DOMAIN history' = HistoryFields
           /\ history'.submitted = history.submitted
           /\ history'.net = history.net + Signed(fill)
           /\ history'.unbooked = history.unbooked + (IF booked THEN 0 ELSE Signed(fill))
<1>1. Signed(fill) \in Int /\ BaseCommission(fill) = 0
  BY PlainFillFacts DEF PlainFill, BaseCommission
<1>2. /\ DOMAIN history' = HistoryFields
      /\ history'.submitted = history.submitted
      /\ history'.net = history.net + Signed(fill) - BaseCommission(fill)
      /\ history'.unbooked = IF booked THEN history.unbooked
                             ELSE history.unbooked + Signed(fill) - BaseCommission(fill)
  BY DEF Traded, HistoryFields
<1> QED BY <1>1, <1>2, SMT

\* A step that books, or not, one fill that was routed to the NETTING position.
LEMMA BookingStep ==
    ASSUME IInv, NEW c, Consistent(c), NEW fill, PlainFill(fill),
           \A id \in OrderIds : c.order_position[id] \in {cache.order_position[id], fill.position_id},
           \A id \in ClientOrderIds : IsDenied(cache, id) => IsDenied(c, id),
           c.positions = cache.positions,
           OmsType = "Netting" => fill.position_id = NetId,
           NEW r, Result(c, fill, r), cache' = r.cache, Traded(fill, r.booked)
    PROVE  IInv'
<1>1. /\ DOMAIN history' = HistoryFields
      /\ history'.submitted = history.submitted
      /\ history'.net = history.net + Signed(fill)
      /\ history'.unbooked = history.unbooked + (IF r.booked THEN 0 ELSE Signed(fill))
  BY TradedFacts DEF IInv, Result
<1>2. Signed(fill) \in Int
  BY PlainFillFacts
<1>3. history'.net \in Int /\ history'.unbooked \in Int
  BY <1>1, <1>2, SMT DEF IInv
<1>4. RoutedToNet(cache', history'.submitted)
  BY <1>1 DEF IInv, RoutedToNet, Result
<1>5. NettingBooksMatch'
  <2> SUFFICES ASSUME OmsType = "Netting"
               PROVE  Held(cache', NetId) + history'.unbooked = history'.net
    BY DEF NettingBooksMatch
  <2>1. Held(c, NetId) = Held(cache, NetId)
    BY DEF Held, has_position
  <2>2. Held(cache, NetId) \in Int
    BY HeldType DEF IInv
  <2>3. Held(cache', NetId) = Held(cache, NetId) + (IF r.booked THEN Signed(fill) ELSE 0)
    BY <2>1 DEF Result
  <2>4. Held(cache, NetId) + history.unbooked = history.net
    BY DEF IInv, NettingBooksMatch
  <2>5. r.booked \in BOOLEAN /\ history.unbooked \in Int /\ history.net \in Int
    BY DEF Result, IInv
  <2>6. CASE r.booked
    BY <1>1, <1>2, <2>2, <2>3, <2>4, <2>5, <2>6, SMTT(30)
  <2>7. CASE ~r.booked
    BY <1>1, <1>2, <2>2, <2>3, <2>4, <2>5, <2>7, SMTT(30)
  <2> QED BY <2>6, <2>7
<1> QED BY <1>1, <1>3, <1>4, <1>5 DEF IInv, Result

\* A step that changes neither the positions nor what was traded.
LEMMA QuietStep ==
    ASSUME IInv, Consistent(cache'), cache'.positions = cache.positions,
           RoutedToNet(cache', history'.submitted),
           DOMAIN history' = HistoryFields,
           history'.net = history.net, history'.unbooked = history.unbooked
    PROVE  IInv'
BY DEF IInv, NettingBooksMatch, Held, has_position

\* An operation on orders that indexes orders with no other than the NETTING position
\* keeps the routing.
LEMMA RoutingKept ==
    ASSUME NEW c, NEW position_id, NEW r, NEW submitted, OrdersOnly(c, position_id, r),
           RoutedToNet(c, submitted),
           OmsType = "Netting" => position_id = NetId \/ r = c
    PROVE  RoutedToNet(r, submitted)
BY DEF RoutedToNet, OrdersOnly

\* An event is for an order in the cache.
LEMMA ResolvedType ==
    ASSUME NEW event, Consistent(cache), Resolved(event) # None
    PROVE  Resolved(event) \in ClientOrderIds
BY DEF Resolved, order_exists, Consistent

-----------------------------------------------------------------------------
LEMMA InitHolds == Init => IInv
<1> SUFFICES ASSUME Init PROVE IInv
  OBVIOUS
<1>1. Consistent(cache) /\ cache.positions = [p \in {} |-> None]
      /\ \A id \in OrderIds : cache.order_position[id] = None
  BY DEF Init, EmptyCache, Consistent, CacheFields
<1>2. RoutedToNet(cache, history.submitted)
  BY <1>1 DEF RoutedToNet
<1>3. DOMAIN history = HistoryFields /\ history.net = 0 /\ history.unbooked = 0
  BY DEF Init, HistoryFields
<1>4. Held(cache, NetId) = 0
  BY <1>1 DEF Held, has_position
<1> QED BY <1>1, <1>2, <1>3, <1>4, SMT DEF IInv, NettingBooksMatch

LEMMA HandleEventStep ==
    ASSUME IInv, NEW event, HandleEvent(event)
    PROVE  IInv'
<1>1. OrdersOnly(cache, NetId, cache')
  BY ResolvedType, UpdateOrderFacts DEF HandleEvent, IInv
<1>2. history' = history
  BY DEF HandleEvent
<1>3. RoutedToNet(cache', history'.submitted)
  BY <1>1, <1>2, RoutingKept DEF IInv
<1> QED BY <1>1, <1>2, <1>3, QuietStep DEF OrdersOnly, IInv

LEMMA HandleFillStep ==
    ASSUME IInv, "Base" \notin Currencies, NEW event \in Fills, HandleFill(event)
    PROVE  IInv'
<1> DEFINE id == Resolved(event)
           routed == [event EXCEPT !.client_order_id = id]
<1>1. id \in ClientOrderIds
  BY ResolvedType DEF HandleFill, IInv
<1>2. PICK d \in determine_position_id(cache, count, routed) :
        LET fill == [routed EXCEPT !.position_id = d.position_id]
            r == handle_order_fill(update_order(d.cache, id, fill), d.count, fill)
        IN IF validate_fill_for_order(d.cache, fill) /\ Accepts(d.cache, id, fill)
           THEN cache' = r.cache /\ count' = r.count /\ Traded(fill, r.booked)
           ELSE cache' = d.cache /\ count' = d.count /\ Refused(d.cache, fill)
  BY DEF HandleFill
<1> DEFINE fill == [routed EXCEPT !.position_id = d.position_id]
           u == update_order(d.cache, id, fill)
           r == handle_order_fill(u, d.count, fill)
<1>3. PlainFill(routed) /\ FillRecord(routed) /\ routed.client_order_id = id
  BY VenueFills, RoutedFill
<1> HIDE DEF routed
<1>4. PlainFill(fill) /\ FillRecord(fill) /\ fill.position_id = d.position_id
  BY <1>3, RoutedFill
<1>5. /\ OrdersOnly(cache, d.position_id, d.cache)
      /\ OmsType = "Netting" =>
            \/ /\ d.cache = cache
               /\ cache.order_position[id] # None
               /\ d.position_id = cache.order_position[id]
            \/ d.position_id = NetId
  BY <1>3, DetermineFacts, SMTT(30) DEF IInv
<1> HIDE DEF id
<1>6. CASE validate_fill_for_order(d.cache, fill) /\ Accepts(d.cache, id, fill)
  <2>1. cache' = r.cache /\ Traded(fill, r.booked)
    BY <1>2, <1>6
  <2>2. ~IsDenied(d.cache, id)
    BY <1>6, DeniedRefuses DEF Accepts, IsDenied
  <2>3. OmsType = "Netting" => d.position_id = NetId
    BY <1>1, <1>5, <2>2 DEF OrdersOnly, IInv, RoutedToNet, OrderIds
  <2>4. OrdersOnly(d.cache, d.position_id, u)
    BY <1>1, <1>5, UpdateOrderFacts DEF OrdersOnly
  <2>5. Result(u, fill, r)
    BY <1>4, <2>4, OrderFillFacts DEF OrdersOnly
  <2> HIDE DEF u, r, fill
  <2>6. /\ \A x \in OrderIds : u.order_position[x] \in {cache.order_position[x], fill.position_id}
        /\ \A x \in ClientOrderIds : IsDenied(cache, x) => IsDenied(u, x)
        /\ u.positions = cache.positions
        /\ Consistent(u)
    BY <1>4, <1>5, <2>4 DEF OrdersOnly
  <2> QED BY <1>4, <2>1, <2>3, <2>5, <2>6, BookingStep
<1>7. CASE ~(validate_fill_for_order(d.cache, fill) /\ Accepts(d.cache, id, fill))
  <2>1. cache' = d.cache /\ Refused(d.cache, fill)
    BY <1>2, <1>7
  <2>2. /\ DOMAIN history' = HistoryFields
        /\ history'.net = history.net
        /\ history'.unbooked = history.unbooked
        /\ history'.submitted = history.submitted
    BY <2>1 DEF Refused, IInv, HistoryFields
  <2>3. RoutedToNet(cache', history'.submitted)
    BY <1>5, <2>1, <2>2, RoutingKept DEF IInv
  <2> QED BY <1>5, <2>1, <2>2, <2>3, QuietStep DEF OrdersOnly
<1> QED BY <1>6, <1>7
\* A leg fill is routed to the NETTING position.
LEMMA HandleLegFillStep ==
    ASSUME IInv, "Base" \notin Currencies, NEW event \in LegFills, HandleLegFill(event)
    PROVE  IInv'
<1> DEFINE d == determine_leg_fill_position_id(cache, count, event)
           fill == [event EXCEPT !.position_id = d[1]]
           r == handle_position_update(cache, d[2], fill)
<1>1. event.client_order_id \in LegOrderIds
  BY DEF LegFills
<1>2. OmsType = "Netting" => d[1] = NetId
  <2> HAVE OmsType = "Netting"
  <2>1. event.client_order_id \in OrderIds /\ event.client_order_id \notin ClientOrderIds
    BY <1>1, CacheAssumption DEF OrderIds
  <2>2. cache.order_position[event.client_order_id] \in {None, NetId}
    BY <2>1 DEF IInv, RoutedToNet
  <2> QED BY <2>2 DEF determine_leg_fill_position_id
<1> HIDE DEF d
<1>3. PlainFill(fill) /\ FillRecord(fill) /\ fill.position_id = d[1]
  BY VenueFills, RoutedFill
<1>4. \/ /\ UNCHANGED <<cache, history>>
      \/ /\ cache' = r.cache
         /\ Traded(fill, r.booked)
  BY DEF HandleLegFill, d
<1>5. CASE UNCHANGED <<cache, history>>
  BY <1>5 DEF IInv, NettingBooksMatch
<1>6. CASE cache' = r.cache /\ Traded(fill, r.booked)
  <2>1. /\ Outcome(cache, d[2], fill, r)
        /\ OmsType = "Netting" => Target(cache, d[2], fill) = fill.position_id
    BY <1>3, PositionUpdateFacts DEF IInv, Target, Renews
  <2> HIDE DEF r, fill
  <2>2. Result(cache, fill, r)
    BY <2>1 DEF Outcome, Result, IsDenied
  <2>3. \A id \in OrderIds : cache.order_position[id] \in {cache.order_position[id], fill.position_id}
    OBVIOUS
  <2>4. Consistent(cache)
    BY DEF IInv
  <2> QED BY <1>2, <1>3, <1>6, <2>2, <2>3, <2>4, BookingStep
<1> QED BY <1>4, <1>5, <1>6

\* An order that was just initialized can be denied.
LEMMA DenialApplies ==
    ASSUME NEW c, Consistent(c), NEW id \in ClientOrderIds, NEW order_type, NEW quantity,
           id \in DOMAIN c.orders, c.orders[id] = NewOrder(order_type, quantity, FALSE)
    PROVE  IsDenied(update_order(c, id, [type |-> "Denied", venue_order_id |-> None]), id)
<1> DEFINE e == [type |-> "Denied", venue_order_id |-> None]
           o == c.orders[id]
           saved == SavePrevious(o, e)
           denied == apply(o, e)
           w == [c EXCEPT !.orders[id] = denied]
<1>1. e.type = "Denied"
  OBVIOUS
<1> HIDE DEF e
<1>2. saved = [o EXCEPT !.previous_status = o.status]
  BY <1>1, SMT DEF SavePrevious, NewOrder, Pending
<1>3. saved.status = "Initialized" /\ "status" \in DOMAIN saved
  BY <1>2, SMT DEF NewOrder
<1> HIDE DEF saved, o
<1>4. /\ "Initialized" \in DOMAIN transition
      /\ "Denied" \in DOMAIN transition["Initialized"]
      /\ transition["Initialized"]["Denied"] = "Denied"
  BY NewIsDeniable
<1>5. Applies(saved, e)
  BY <1>1, <1>3, <1>4 DEF Applies
<1>6. o.status = "Initialized"
  BY SMTT(30) DEF o, NewOrder
<1>7. denied = [closed([saved EXCEPT !.status = "Denied"]) EXCEPT !.last_event = e.type]
  BY <1>1, <1>4, <1>5, <1>6 DEF apply, Handled, saved
<1>8. DeniedOrder(denied)
  BY <1>3, <1>7 DEF DeniedOrder, closed
<1> HIDE DEF denied
<1>9. update_order(c, id, e) = refresh_order(w, id, denied)
  BY <1>5 DEF update_order, Accepts, saved, denied, o
<1>10. Consistent(w) /\ id \in DOMAIN w.orders /\ w.orders[id] = denied
  BY DEF Consistent, CacheFields
<1> HIDE DEF w
<1>11. refresh_order(w, id, denied).orders = w.orders
  BY <1>10, RefreshFacts, SMT
<1> QED BY <1>8, <1>9, <1>10, <1>11 DEF e, IsDenied

\* An order that is indexed with another than the NETTING position is denied.
LEMMA SubmitOrderStep ==
    ASSUME IInv, NEW id \in ClientOrderIds, NEW position_id, NEW sent \in BOOLEAN,
           SubmitOrder(id, position_id, sent)
    PROVE  IInv'
<1> DEFINE order == NewOrder(OrderInit[id].order_type, OrderInit[id].quantity, FALSE)
           a == add_order(cache, id, order, position_id)
           e == [type |-> "Denied", venue_order_id |-> None]
           u == update_order(a, id, e)
           wrong == OmsType = "Netting" /\ position_id \notin {None, NetId}
<1>1. /\ Consistent(a)
      /\ a.positions = cache.positions
      /\ a.orders = WithEntry(cache.orders, id, order)
      /\ \A x \in OrderIds : \/ a.order_position[x] = cache.order_position[x]
                             \/ x = id /\ a.order_position[x] = position_id
  <2>1. Consistent(cache)
    BY DEF IInv
  <2> HIDE DEF order
  <2> QED BY <2>1, AddOrderFacts, SMTT(30)
<1>2. /\ id \notin history.submitted
      /\ cache' = u \/ (cache' = a /\ ~wrong)
      /\ history' = [history EXCEPT !.submitted = @ \cup {id}]
  BY DEF SubmitOrder
<1>3. /\ DOMAIN history' = HistoryFields
      /\ history'.net = history.net
      /\ history'.unbooked = history.unbooked
      /\ history'.submitted = history.submitted \cup {id}
  BY <1>2 DEF IInv, HistoryFields
<1>4. id \in DOMAIN a.orders /\ a.orders[id] = order
  BY <1>1 DEF WithEntry
<1> HIDE DEF a
<1>5. OrdersOnly(a, NetId, u)
  BY <1>1, UpdateOrderFacts
<1>6. IsDenied(u, id)
  BY <1>1, <1>4, DenialApplies
<1> HIDE DEF u
<1>7. \A x \in OrderIds : x # id =>
        \/ OmsType # "Netting"
        \/ a.order_position[x] \in {None, NetId}
        \/ x \in history'.submitted \cap ClientOrderIds /\ IsDenied(a, x)
  BY <1>1, <1>3 DEF IInv, RoutedToNet, IsDenied, WithEntry
<1>8. OmsType = "Netting" => a.order_position[id] \in {None, NetId, position_id}
  BY <1>1, <1>2 DEF IInv, RoutedToNet, OrderIds
<1>9. CASE cache' = u
  <2>1. RoutedToNet(cache', history'.submitted)
    BY <1>3, <1>5, <1>6, <1>7, <1>9 DEF RoutedToNet, OrdersOnly
  <2> QED BY <1>1, <1>3, <1>5, <1>9, <2>1, QuietStep DEF OrdersOnly
<1>10. CASE cache' = a /\ ~wrong
  <2>1. RoutedToNet(cache', history'.submitted)
    BY <1>7, <1>8, <1>10 DEF RoutedToNet
  <2> QED BY <1>1, <1>3, <1>10, <2>1, QuietStep
<1> QED BY <1>2, <1>9, <1>10

LEMMA PurgeClosedOrderStep ==
    ASSUME IInv, NEW id \in ClientOrderIds, PurgeClosedOrder(id)
    PROVE  IInv'
<1>1. cache' = purge_order(cache, id) /\ history' = history
  BY DEF PurgeClosedOrder
<1>2. /\ Consistent(cache')
      /\ cache'.positions = cache.positions
      /\ \A x \in ClientOrderIds : x # id /\ IsDenied(cache, x) => IsDenied(cache', x)
      /\ \A x \in OrderIds :
            cache'.order_position[x] = IF x = id THEN None ELSE cache.order_position[x]
  BY <1>1, PurgeOrderFacts DEF IInv
<1>3. RoutedToNet(cache', history'.submitted)
  BY <1>1, <1>2 DEF IInv, RoutedToNet
<1> QED BY <1>1, <1>2, <1>3, QuietStep DEF IInv

\* Nothing is held in a position that is purged.
LEMMA PurgeClosedPositionStep ==
    ASSUME IInv, NEW id, PurgeClosedPosition(id)
    PROVE  IInv'
<1>1. /\ cache' = purge_position(cache, id)
      /\ history' = history
      /\ id \in DOMAIN cache.positions
      /\ PositionClosed(cache.positions[id])
  BY DEF PurgeClosedPosition, has_position
<1>2. /\ Consistent(cache')
      /\ cache'.positions = WithoutEntry(cache.positions, id)
      /\ cache'.orders = cache.orders
      /\ \A x \in OrderIds : cache'.order_position[x] \in {cache.order_position[x], None}
  BY <1>1, PurgePositionFacts DEF IInv
<1>3. RoutedToNet(cache', history'.submitted)
  BY <1>1, <1>2 DEF IInv, RoutedToNet, IsDenied
<1>4. cache.positions[id].signed_qty = 0
  BY <1>1, OpenOrClosed DEF IInv, Consistent
<1>5. Held(cache', NetId) = Held(cache, NetId)
  BY <1>1, <1>2, <1>4 DEF Held, has_position, WithoutEntry
<1>6. NettingBooksMatch'
  BY <1>1, <1>5 DEF IInv, NettingBooksMatch
<1> QED BY <1>1, <1>2, <1>3, <1>6 DEF IInv

-----------------------------------------------------------------------------
\* The invariant is inductive when no commission is in the base currency.
LEMMA Inductive ==
    ASSUME "Base" \notin Currencies, IInv, [Next]_vars
    PROVE  IInv'
<1>1. CASE RegisterAccount
  BY <1>1 DEF RegisterAccount, IInv, NettingBooksMatch
<1>2. ASSUME NEW id \in ClientOrderIds, NEW position_id \in SubmitPositionIds \cup {None},
             NEW sent \in BOOLEAN, SubmitOrder(id, position_id, sent)
      PROVE  IInv'
  BY <1>2, SubmitOrderStep
<1>3. ASSUME NEW event \in Events, HandleEvent(event)
      PROVE  IInv'
  BY <1>3, HandleEventStep
<1>4. ASSUME NEW event \in Fills, HandleFill(event)
      PROVE  IInv'
  BY <1>4, HandleFillStep
<1>5. ASSUME NEW event \in LegFills, HandleLegFill(event)
      PROVE  IInv'
  BY <1>5, HandleLegFillStep
<1>6. ASSUME NEW id \in ClientOrderIds, PurgeClosedOrder(id)
      PROVE  IInv'
  BY <1>6, PurgeClosedOrderStep
<1>7. ASSUME NEW position_id \in PositionIds, PurgeClosedPosition(position_id)
      PROVE  IInv'
  BY <1>7, PurgeClosedPositionStep
<1>8. CASE UNCHANGED vars
  BY <1>8 DEF vars, IInv, NettingBooksMatch
<1> QED BY <1>1, <1>2, <1>3, <1>4, <1>5, <1>6, <1>7, <1>8 DEF Next

\* The indexes of open and closed positions that Cache::add_position, update_position
\* and purge_position maintain are exact, for every number of orders, positions and
\* fills, with NETTING and with HEDGING, as long as no commission is in the base
\* currency.
THEOREM IndexesAlwaysExact ==
    ASSUME "Base" \notin Currencies
    PROVE  Spec => []PositionIndexesExact
<1>1. IInv => PositionIndexesExact
  BY DEF IInv, Consistent, PositionIndexesExact
<1>2. IInv /\ [Next]_vars => IInv'
  BY Inductive
<1> QED BY <1>1, <1>2, InitHolds, PTL DEF Spec

\* With NETTING the position holds exactly the quantity that orders and legs traded and
\* that the engine did not log as left out, whatever the venue repeats, however often
\* the position closes, flips and reopens, and whichever orders and closed positions are
\* purged meanwhile, as long as no commission is in the base currency.
THEOREM NettingBooksAlwaysMatch ==
    ASSUME "Base" \notin Currencies
    PROVE  Spec => []NettingBooksMatch
<1>1. IInv => NettingBooksMatch
  BY DEF IInv
<1>2. IInv /\ [Next]_vars => IInv'
  BY Inductive
<1> QED BY <1>1, <1>2, InitHolds, PTL DEF Spec
-----------------------------------------------------------------------------
(***************************************************************************)
(* The orders and their indexes, and the guard against applying a trade    *)
(* twice.  Nothing is assumed of the commissions.                          *)
(***************************************************************************)
OrderFields ==
    {"status", "previous_status", "order_type", "quantity", "filled_qty", "leaves_qty",
     "overfill_qty", "fills", "venue_order_id", "venue_order_ids", "position_id",
     "emulation_trigger", "ts_accepted", "ts_closed", "last_event"}

\* An order as the cache holds it: a request that is rejected returns it to a status in
\* which it works at the venue.
Tracked(o) ==
    /\ DOMAIN o = OrderFields
    /\ o.emulation_trigger = FALSE
    /\ o.status \in OrderStatus
    /\ o.status \in Pending => o.previous_status \in Working

\* The indexes of a cache say of every order what its status says, save that an order
\* back in Submitted may be among the open ones.
Follows(c) ==
    /\ DOMAIN c = CacheFields
    /\ \A id \in DOMAIN c.orders : Tracked(c.orders[id])
    /\ c.orders_active_local = {id \in DOMAIN c.orders : is_active_local(c.orders[id])}
    /\ c.orders_inflight = {id \in DOMAIN c.orders : is_inflight(c.orders[id])}
    /\ c.orders_closed = {id \in DOMAIN c.orders : is_closed(c.orders[id])}
    /\ \A id \in DOMAIN c.orders : is_open(c.orders[id]) => id \in c.orders_open
    /\ \A id \in c.orders_open :
          /\ id \in DOMAIN c.orders
          /\ is_open(c.orders[id]) \/ c.orders[id].status = "Submitted"

\* The parts of a cache that Follows speaks of.
OrderParts == {"orders", "orders_active_local", "orders_inflight", "orders_open", "orders_closed"}

\* An operation on positions leaves them alone.
PartsKept(c, r) == DOMAIN r = CacheFields /\ \A f \in OrderParts : r[f] = c[f]

\* An event that is applied moves a closed order only by a fill, and makes no order local
\* that was not.
LEMMA AppliedFacts ==
    ASSUME NEW o, Tracked(o), NEW e, Applies(SavePrevious(o, e), e)
    PROVE  LET r == apply(o, e)
           IN /\ Tracked(r)
              /\ is_active_local(r) => is_active_local(o)
              /\ is_closed(o) => is_open(r) \/ is_closed(r)
<1> DEFINE s == SavePrevious(o, e)
           t == transition[o.status][e.type]
           m == [s EXCEPT !.status = t]
           h == Handled(m, e)
           r == apply(o, e)
<1>1. /\ DOMAIN s = OrderFields
      /\ s.emulation_trigger = FALSE
      /\ s.status = o.status
      /\ o.status \in Pending => s.previous_status \in Working
      /\ \/ o.status \in Pending
         \/ e.type \in {"Initialized", "ModifyRejected", "CancelRejected"}
         \/ s.previous_status = o.status
  BY DEF SavePrevious, Tracked, OrderFields
<1>2. o.status \in DOMAIN transition /\ e.type \in DOMAIN transition[o.status]
  BY <1>1 DEF Applies
<1>3. r = [h EXCEPT !.last_event = e.type]
  BY DEF apply
<1> HIDE DEF s
<1>4. /\ DOMAIN m = OrderFields
      /\ m.emulation_trigger = FALSE
      /\ m.status = t
      /\ m.previous_status = s.previous_status
  BY <1>1 DEF OrderFields
<1>5. /\ t \in OrderStatus
      /\ t \in Pending => o.status \in Working \cup Pending
      /\ e.type \in {"ModifyRejected", "CancelRejected"} => o.status \in Pending
      /\ e.type = "Updated" => t = o.status
      /\ e.type # "Initialized"
      /\ o.status \in {"Denied", "Rejected", "Canceled", "Expired", "Filled"} => e.type = "Filled"
      /\ t \in {"Initialized", "Emulated", "Released"} =>
            o.status \in {"Initialized", "Emulated", "Released"}
  BY <1>2, TableFacts
<1>6. t \in Pending => s.previous_status \in Working
  BY <1>1, <1>5 DEF Pending
<1> HIDE DEF m, t
<1>7. /\ DOMAIN h = OrderFields
      /\ h.emulation_trigger = FALSE
      /\ h.previous_status = m.previous_status
      /\ \/ h.status = t /\ e.type # "Filled"
         \/ h.status \in {"Filled", "PartiallyFilled"} /\ e.type = "Filled"
         \/ /\ e.type \in {"ModifyRejected", "CancelRejected", "Updated"}
            /\ o.status \in Pending
            /\ h.status = m.previous_status
  <2>1. CASE e.type \in {"Denied", "Rejected", "Canceled", "Expired"}
    BY <1>4, <2>1 DEF Handled, closed, OrderFields
  <2>2. CASE e.type = "Released"
    BY <1>4, <2>2 DEF Handled, OrderFields
  <2>3. CASE e.type = "Accepted"
    BY <1>4, <2>3 DEF Handled, accepted, OrderFields
  <2>4. CASE e.type \in {"ModifyRejected", "CancelRejected"}
    BY <1>4, <1>5, <2>4 DEF Handled, rejected_request, OrderFields
  <2>5. CASE e.type = "Updated"
    BY <1>4, <1>5, <2>5 DEF Handled, updated, OrderFields, Pending
  <2>6. CASE e.type = "Filled"
    BY <1>4, <2>6 DEF Handled, filled, OrderFields
  <2>7. CASE e.type \notin {"Denied", "Rejected", "Canceled", "Expired", "Released", "Accepted",
                            "ModifyRejected", "CancelRejected", "Updated", "Filled"}
    BY <1>4, <2>7 DEF Handled
  <2> QED BY <2>1, <2>2, <2>3, <2>4, <2>5, <2>6, <2>7
<1> HIDE DEF h
<1>8. /\ DOMAIN r = OrderFields
      /\ r.emulation_trigger = FALSE
      /\ r.previous_status = s.previous_status
      /\ r.status = h.status
  BY <1>3, <1>4, <1>7 DEF OrderFields
<1> HIDE DEF r
<1>9. o.status \in Pending => s.previous_status \in Working
  BY <1>1
<1>10. Tracked(r)
  BY <1>4, <1>5, <1>6, <1>7, <1>8, <1>9, SMT DEF Tracked, OrderStatus, Working, Pending
<1>11. is_active_local(r) => is_active_local(o)
  BY <1>4, <1>5, <1>7, <1>8, <1>9 DEF is_active_local, Working
<1>12. is_closed(o) => is_open(r) \/ is_closed(r)
  BY <1>5, <1>7, <1>8, <1>9 DEF is_closed, is_open, Working, Pending
<1> QED BY <1>10, <1>11, <1>12 DEF r

\* The operations on positions, one after the other.
LEMMA PartsKeptChain ==
    ASSUME NEW a, NEW b, NEW c, PartsKept(a, b), PartsKept(b, c)
    PROVE  PartsKept(a, c)
BY DEF PartsKept

\* Follows depends on these parts only.
LEMMA FollowsKept ==
    ASSUME NEW c, NEW r, Follows(c), PartsKept(c, r)
    PROVE  Follows(r)
<1>1. /\ r.orders = c.orders
      /\ r.orders_active_local = c.orders_active_local
      /\ r.orders_inflight = c.orders_inflight
      /\ r.orders_open = c.orders_open
      /\ r.orders_closed = c.orders_closed
  BY DEF PartsKept, OrderParts
<1> QED BY <1>1 DEF Follows, PartsKept

\* Changing another field keeps them.
LEMMA PositionOperations ==
    ASSUME NEW c, DOMAIN c = CacheFields, NEW id, NEW p, NEW n
    PROVE  /\ PartsKept(c, add_position_id(c, id, n))
           /\ PartsKept(c, add_position(c, id, p))
           /\ PartsKept(c, update_position(c, id, p))
           /\ PartsKept(c, snapshot_position(c, id, p))
           /\ PartsKept(c, purge_position(c, id))
           /\ PartsKept(c, c)
<1>1. PartsKept(c, add_position_id(c, id, n))
  BY DEF PartsKept, OrderParts, CacheFields, add_position_id
<1>2. PartsKept(c, add_position(c, id, p))
  BY DEF PartsKept, OrderParts, CacheFields, add_position, add_position_id
<1>3. PartsKept(c, update_position(c, id, p))
  BY DEF PartsKept, OrderParts, CacheFields, update_position
<1>4. PartsKept(c, snapshot_position(c, id, p))
  BY DEF PartsKept, OrderParts, CacheFields, snapshot_position
<1>5. PartsKept(c, purge_position(c, id))
  BY DEF PartsKept, OrderParts, CacheFields, purge_position
<1> QED BY <1>1, <1>2, <1>3, <1>4, <1>5 DEF PartsKept

\* Applying a fill to a position, whether it opens, changes, closes or flips it.
LEMMA PositionUpdateKeepsParts ==
    ASSUME NEW c, DOMAIN c = CacheFields, NEW n, NEW fill
    PROVE  /\ PartsKept(c, handle_position_update(c, n, fill).cache)
           /\ DOMAIN handle_position_update(c, n, fill) = {"cache", "count", "booked"}
<1> DEFINE id == fill.position_id
           p == c.positions[id]
           again == reopen_position(c, id, p)
           commission1 == bankers_round(fill.commission * p.quantity, fill.last_qty)
           closing == ApplyFill(p, [fill EXCEPT !.last_qty = p.quantity, !.commission = commission1])
           u == update_position(c, id, closing)
           kept == IF OmsType = "Netting" THEN snapshot_position(u, id, closing) ELSE u
           r == handle_position_update(c, n, fill)
<1>1. DOMAIN r = {"cache", "count", "booked"}
  BY DEF handle_position_update, Booked, Unbooked, open_position_again, open_position,
         flip_position
<1>2. PartsKept(c, again) /\ DOMAIN again = CacheFields
  <2>1. PartsKept(c, again)
    BY PositionOperations DEF reopen_position
  <2> QED BY <2>1 DEF PartsKept
<1>3. PartsKept(c, u) /\ DOMAIN u = CacheFields
  <2>1. PartsKept(c, u)
    BY PositionOperations
  <2> QED BY <2>1 DEF PartsKept
<1>4. PartsKept(u, kept) /\ DOMAIN kept = CacheFields
  <2> HIDE DEF u, closing
  <2>1. PartsKept(u, kept)
    BY <1>3, PositionOperations
  <2> QED BY <2>1 DEF PartsKept
<1>5. PartsKept(c, kept)
  <2> HIDE DEF u, kept
  <2> QED BY <1>3, <1>4, PartsKeptChain
<1>6. \A x, q : PartsKept(c, add_position(again, x, q)) /\ PartsKept(c, add_position(kept, x, q))
  <2> HIDE DEF again, kept
  <2> QED BY <1>2, <1>4, <1>5, PositionOperations, PartsKeptChain
<1>7. \/ r.cache = c
      \/ \E x, q : r.cache = add_position(c, x, q)
      \/ \E x, q : r.cache = add_position(again, x, q)
      \/ \E x, q : r.cache = add_position(kept, x, q)
      \/ \E q : r.cache = update_position(c, id, q)
  <2>1. handle_position_update(c, n, fill) \in
           {Unbooked(c, n), open_position(c, n, fill), open_position_again(c, n, p, fill),
            flip_position(c, n, p, fill), Booked(update_position(c, id, ApplyFill(p, fill)), n)}
    BY DEF handle_position_update
  <2>2. \E x, q : flip_position(c, n, p, fill).cache = add_position(kept, x, q)
    BY DEF flip_position, open_position, Booked
  <2>3. \/ open_position_again(c, n, p, fill).cache = c
        \/ \E x, q : open_position_again(c, n, p, fill).cache = add_position(again, x, q)
    BY DEF open_position_again, open_position, Booked, Unbooked
  <2>4. \E x, q : open_position(c, n, fill).cache = add_position(c, x, q)
    BY DEF open_position, Booked
  <2>5. /\ Unbooked(c, n).cache = c
        /\ Booked(update_position(c, id, ApplyFill(p, fill)), n).cache =
              update_position(c, id, ApplyFill(p, fill))
    BY DEF Booked, Unbooked
  <2> HIDE DEF p, again, kept
  <2> QED BY <2>1, <2>2, <2>3, <2>4, <2>5
<1> HIDE DEF r, again, kept
<1>8. PartsKept(c, r.cache)
  BY <1>6, <1>7, PositionOperations
<1> QED BY <1>1, <1>8 DEF r

\* Giving orders a position id moves none of them between the indexes.
LEMMA FollowsRenumbered ==
    ASSUME NEW c, Follows(c), NEW r, DOMAIN r = CacheFields,
           \A f \in OrderParts \ {"orders"} : r[f] = c[f],
           DOMAIN r.orders = DOMAIN c.orders, NEW position_id,
           \A id \in DOMAIN c.orders :
              r.orders[id] \in {c.orders[id], [c.orders[id] EXCEPT !.position_id = position_id]}
    PROVE  Follows(r)
<1>1. \A id \in DOMAIN c.orders :
         /\ Tracked(r.orders[id])
         /\ r.orders[id].status = c.orders[id].status
         /\ r.orders[id].emulation_trigger = c.orders[id].emulation_trigger
  BY SMT DEF Follows, Tracked, OrderFields
<1>2. \A id \in DOMAIN c.orders :
         /\ is_active_local(r.orders[id]) <=> is_active_local(c.orders[id])
         /\ is_inflight(r.orders[id]) <=> is_inflight(c.orders[id])
         /\ is_closed(r.orders[id]) <=> is_closed(c.orders[id])
         /\ is_open(r.orders[id]) <=> is_open(c.orders[id])
  BY <1>1 DEF is_active_local, is_inflight, is_closed, is_open
<1>3. /\ r.orders_active_local = c.orders_active_local
      /\ r.orders_inflight = c.orders_inflight
      /\ r.orders_open = c.orders_open
      /\ r.orders_closed = c.orders_closed
  BY DEF OrderParts
<1> QED BY <1>1, <1>2, <1>3, SMT DEF Follows

\* The position of a fill is given to the children of its order.
LEMMA FollowsLinked ==
    ASSUME NEW c, Follows(c), NEW fill
    PROVE  /\ Follows(LinkContingent(c, fill))
           /\ DOMAIN LinkContingent(c, fill).orders = DOMAIN c.orders
<1> DEFINE children == {id \in OrderInit[fill.client_order_id].linked_order_ids :
                           order_exists(c, id) /\ c.orders[id].position_id = None}
           r == LinkContingent(c, fill)
<1>1. CASE r = c
  BY <1>1
<1>2. CASE r # c
  <2> HIDE DEF children
  <2>1. /\ DOMAIN r = CacheFields
        /\ r.orders = [id \in DOMAIN c.orders |->
                         IF id \in children
                         THEN [c.orders[id] EXCEPT !.position_id = fill.position_id]
                         ELSE c.orders[id]]
    BY <1>2 DEF LinkContingent, Follows, CacheFields, children
  <2>2. \A f \in OrderParts \ {"orders"} : r[f] = c[f]
    BY <1>2 DEF LinkContingent, Follows, CacheFields, OrderParts
  <2> HIDE DEF r
  <2>3. \A id \in DOMAIN c.orders :
           r.orders[id] \in {c.orders[id], [c.orders[id] EXCEPT !.position_id = fill.position_id]}
    BY <2>1
  <2>4. DOMAIN r.orders = DOMAIN c.orders
    BY <2>1
  <2>5. Follows(r)
    BY <2>1, <2>2, <2>3, <2>4, FollowsRenumbered
  <2> QED BY <2>4, <2>5 DEF r
<1> QED BY <1>1, <1>2

\* The position of a spawned order is given to its primary.
LEMMA FollowsPropagated ==
    ASSUME NEW c, Follows(c), NEW position_id, NEW id
    PROVE  /\ Follows(Propagated(c, position_id, id))
           /\ DOMAIN Propagated(c, position_id, id).orders = DOMAIN c.orders
           /\ Propagated(c, position_id, id).positions = c.positions
<1> DEFINE spawn == OrderInit[id].exec_spawn_id
           w == [c EXCEPT !.orders[spawn].position_id = position_id]
           a == add_position_id(w, position_id, spawn)
           r == Propagated(c, position_id, id)
<1>1. CASE r = c
  BY <1>1
<1>2. CASE r # c
  <2>1. r = a /\ spawn \in DOMAIN c.orders
    BY <1>2 DEF Propagated, order_exists
  <2> HIDE DEF spawn
  <2>2. /\ DOMAIN w = CacheFields
        /\ w.orders = [c.orders EXCEPT ![spawn] = [c.orders[spawn] EXCEPT !.position_id = position_id]]
        /\ w.positions = c.positions
        /\ \A f \in OrderParts \ {"orders"} : w[f] = c[f]
    BY DEF Follows, CacheFields, OrderParts
  <2> HIDE DEF w
  <2>3. /\ PartsKept(w, a)
        /\ a.positions = w.positions
    BY <2>2, PositionOperations DEF add_position_id, CacheFields
  <2> HIDE DEF a, r
  <2>4. /\ DOMAIN r = CacheFields
        /\ r.orders = w.orders
        /\ \A f \in OrderParts \ {"orders"} : r[f] = c[f]
    BY <2>1, <2>2, <2>3 DEF PartsKept, OrderParts
  <2>5. /\ DOMAIN r.orders = DOMAIN c.orders
        /\ \A x \in DOMAIN c.orders :
              r.orders[x] \in {c.orders[x], [c.orders[x] EXCEPT !.position_id = position_id]}
    BY <2>2, <2>4
  <2>6. Follows(r)
    BY <2>4, <2>5, FollowsRenumbered
  <2> QED BY <2>1, <2>2, <2>3, <2>5, <2>6 DEF r
<1> QED BY <1>1, <1>2

\* Cache::refresh_order files one order.
FiledAt(c, id, o, r) ==
    LET decided == is_open(o) \/ is_closed(o)
    IN /\ DOMAIN r = CacheFields
       /\ r.orders = c.orders
       /\ r.positions = c.positions
       /\ r.order_position = c.order_position
       /\ r.exec_spawn_orders = c.exec_spawn_orders
       /\ r.orders_active_local = Member(c.orders_active_local, id, is_active_local(o))
       /\ r.orders_inflight = Member(c.orders_inflight, id, is_inflight(o))
       /\ r.orders_open = IF decided THEN Member(c.orders_open, id, is_open(o))
                          ELSE c.orders_open
       /\ r.orders_closed = IF decided THEN Member(c.orders_closed, id, ~is_open(o))
                            ELSE c.orders_closed

LEMMA RefreshIndexes ==
    ASSUME NEW c, DOMAIN c = CacheFields, NEW id, NEW o
    PROVE  FiledAt(c, id, o, refresh_order(c, id, o))
<1> DEFINE v == o.venue_order_id
           x == IF v # None /\ c.venue_order_ids[v] = None
                THEN add_venue_order_id(c, id, v, o.last_event = "Updated") ELSE c
<1>1. /\ DOMAIN x = CacheFields
      /\ \A f \in CacheFields \ {"client_order_ids", "venue_order_ids"} : x[f] = c[f]
  BY DEF add_venue_order_id, CacheFields
<1>2. /\ x.orders = c.orders
      /\ x.positions = c.positions
      /\ x.order_position = c.order_position
      /\ x.exec_spawn_orders = c.exec_spawn_orders
      /\ x.orders_active_local = c.orders_active_local
      /\ x.orders_inflight = c.orders_inflight
      /\ x.orders_open = c.orders_open
      /\ x.orders_closed = c.orders_closed
  BY <1>1 DEF CacheFields
<1>3. refresh_order(c, id, o) =
        [x EXCEPT
          !.orders_active_local = Member(@, id, is_active_local(o)),
          !.orders_inflight = Member(@, id, is_inflight(o)),
          !.orders_open = IF is_open(o) \/ is_closed(o) THEN Member(@, id, is_open(o)) ELSE @,
          !.orders_closed = IF is_open(o) \/ is_closed(o) THEN Member(@, id, ~is_open(o)) ELSE @,
          !.orders_emulated = Member(@, id, o.emulation_trigger /\ ~is_closed(o))]
  BY DEF refresh_order
<1> DEFINE r == refresh_order(c, id, o)
<1> HIDE DEF x
<1>4. /\ DOMAIN r = CacheFields
      /\ \A f \in CacheFields \ {"orders_active_local", "orders_inflight", "orders_open",
                                 "orders_closed", "orders_emulated"} : r[f] = x[f]
      /\ r.orders_active_local = Member(x.orders_active_local, id, is_active_local(o))
      /\ r.orders_inflight = Member(x.orders_inflight, id, is_inflight(o))
      /\ r.orders_open = IF is_open(o) \/ is_closed(o) THEN Member(x.orders_open, id, is_open(o))
                         ELSE x.orders_open
      /\ r.orders_closed = IF is_open(o) \/ is_closed(o)
                           THEN Member(x.orders_closed, id, ~is_open(o)) ELSE x.orders_closed
  BY <1>1, <1>3 DEF CacheFields
<1> HIDE DEF r
<1>5. /\ r.orders = x.orders /\ r.positions = x.positions
      /\ r.order_position = x.order_position /\ r.exec_spawn_orders = x.exec_spawn_orders
  BY <1>4 DEF CacheFields
<1>6. FiledAt(c, id, o, r)
  BY <1>2, <1>4, <1>5 DEF FiledAt
<1> QED BY <1>6 DEF r

\* Cache::update_order keeps the indexes in step with the order it changes.
LEMMA FollowsUpdated ==
    ASSUME NEW c, Follows(c), NEW id \in DOMAIN c.orders, NEW e
    PROVE  /\ Follows(update_order(c, id, e))
           /\ DOMAIN update_order(c, id, e).orders = DOMAIN c.orders
           /\ update_order(c, id, e).positions = c.positions
<1> DEFINE b == c.orders[id]
           o == apply(b, e)
           w == [c EXCEPT !.orders[id] = o]
           r == update_order(c, id, e)
<1>1. CASE ~Accepts(c, id, e)
  BY <1>1 DEF update_order
<1>2. CASE Accepts(c, id, e)
  <2>1. r = refresh_order(w, id, o)
    BY <1>2 DEF update_order
  <2>2. /\ Tracked(o)
        /\ is_active_local(o) => is_active_local(b)
        /\ is_closed(b) => is_open(o) \/ is_closed(o)
    BY <1>2, AppliedFacts DEF Accepts, Follows
  <2>3. Tracked(b)
    BY DEF Follows
  <2> HIDE DEF o
  <2>4. /\ DOMAIN w = CacheFields
        /\ w.orders = [c.orders EXCEPT ![id] = o]
        /\ w.positions = c.positions
        /\ w.orders_active_local = c.orders_active_local
        /\ w.orders_inflight = c.orders_inflight
        /\ w.orders_open = c.orders_open
        /\ w.orders_closed = c.orders_closed
    BY DEF Follows, CacheFields
  <2>5. /\ DOMAIN w.orders = DOMAIN c.orders
        /\ w.orders[id] = o
        /\ \A x \in DOMAIN c.orders : x # id => w.orders[x] = c.orders[x]
    BY <2>4
  <2> HIDE DEF w, r
  <2>6. /\ DOMAIN r = CacheFields
        /\ r.orders = w.orders
        /\ r.positions = w.positions
        /\ r.orders_active_local = Member(c.orders_active_local, id, is_active_local(o))
        /\ r.orders_inflight = Member(c.orders_inflight, id, is_inflight(o))
        /\ r.orders_open = IF is_open(o) \/ is_closed(o)
                           THEN Member(c.orders_open, id, is_open(o)) ELSE c.orders_open
        /\ r.orders_closed = IF is_open(o) \/ is_closed(o)
                             THEN Member(c.orders_closed, id, ~is_open(o)) ELSE c.orders_closed
    <3>1. FiledAt(w, id, o, r)
      BY <2>1, <2>4, RefreshIndexes
    <3> QED BY <2>4, <3>1 DEF FiledAt
  <2>7. is_closed(o) => ~is_open(o)
    BY DEF is_closed, is_open, Pending
  <2>8. ~is_open(o) /\ ~is_closed(o) => is_active_local(o) \/ o.status = "Submitted"
    BY <2>2 DEF Tracked, is_open, is_closed, is_active_local, OrderStatus
  <2>9. is_active_local(b) => ~is_open(b) /\ b.status # "Submitted"
    BY DEF is_active_local, is_open, Pending
  <2>10. r.orders_active_local = {x \in DOMAIN w.orders : is_active_local(w.orders[x])}
    BY <2>5, <2>6 DEF Follows, Member
  <2>11. r.orders_inflight = {x \in DOMAIN w.orders : is_inflight(w.orders[x])}
    BY <2>5, <2>6 DEF Follows, Member
  <2>12. r.orders_closed = {x \in DOMAIN w.orders : is_closed(w.orders[x])}
    BY <2>2, <2>5, <2>6, <2>7 DEF Follows, Member
  <2>13. \A x \in DOMAIN w.orders : is_open(w.orders[x]) => x \in r.orders_open
    BY <2>5, <2>6, SMT DEF Follows, Member
  <2>14. \A x \in r.orders_open :
            /\ x \in DOMAIN w.orders
            /\ is_open(w.orders[x]) \/ w.orders[x].status = "Submitted"
    BY <2>2, <2>5, <2>6, <2>7, <2>8, <2>9, SMT DEF Follows, Member
  <2>15. \A x \in DOMAIN w.orders : Tracked(w.orders[x])
    BY <2>2, <2>5 DEF Follows
  <2>16. Follows(r)
    BY <2>6, <2>10, <2>11, <2>12, <2>13, <2>14, <2>15 DEF Follows
  <2> QED BY <2>4, <2>5, <2>6, <2>16 DEF r
<1> QED BY <1>1, <1>2

\* Cache::add_order files a new order among the local ones.
LEMMA FollowsAdded ==
    ASSUME NEW c, Follows(c), NEW id, id \notin DOMAIN c.orders, NEW position_id,
           NEW order_type, NEW quantity
    PROVE  LET r == add_order(c, id, NewOrder(order_type, quantity, FALSE), position_id)
           IN Follows(r) /\ DOMAIN r.orders = DOMAIN c.orders \cup {id}
<1> DEFINE o == NewOrder(order_type, quantity, FALSE)
           spawn == OrderInit[id].exec_spawn_id
           a == [c EXCEPT
                   !.orders = WithEntry(@, id, o),
                   !.orders_active_local = IF is_active_local(o) THEN @ \cup {id} ELSE @,
                   !.orders_emulated = IF o.emulation_trigger THEN @ \cup {id} ELSE @,
                   !.exec_spawn_orders = [s \in ClientOrderIds |->
                                            IF s = spawn THEN @[s] \cup {id} ELSE @[s]]]
           r == add_order(c, id, o, position_id)
<1>1. /\ Tracked(o)
      /\ is_active_local(o)
      /\ ~is_inflight(o) /\ ~is_closed(o) /\ ~is_open(o)
  BY DEF NewOrder, Tracked, OrderFields, OrderStatus, Pending, is_active_local, is_inflight,
         is_closed, is_open
<1>2. r = IF position_id = None THEN a ELSE add_position_id(a, position_id, id)
  BY DEF add_order
<1> HIDE DEF o
<1>3. /\ DOMAIN a = CacheFields
      /\ a.orders = WithEntry(c.orders, id, o)
      /\ a.orders_active_local = c.orders_active_local \cup {id}
      /\ a.orders_inflight = c.orders_inflight
      /\ a.orders_open = c.orders_open
      /\ a.orders_closed = c.orders_closed
  BY <1>1 DEF Follows, CacheFields
<1>4. /\ DOMAIN a.orders = DOMAIN c.orders \cup {id}
      /\ a.orders[id] = o
      /\ \A x \in DOMAIN c.orders : a.orders[x] = c.orders[x]
  BY <1>3 DEF WithEntry
<1> HIDE DEF a
<1>5. Follows(a)
  BY <1>1, <1>3, <1>4 DEF Follows
<1>6. PartsKept(a, r)
  BY <1>2, <1>3, PositionOperations, SMT
<1> HIDE DEF r
<1>7. Follows(r)
  BY <1>5, <1>6, FollowsKept
<1>8. r.orders = a.orders
  BY <1>6 DEF PartsKept, OrderParts
<1> QED BY <1>4, <1>7, <1>8 DEF r, o

\* Cache::purge_order takes an order out of every index.
LEMMA FollowsPurged ==
    ASSUME NEW c, Follows(c), NEW id
    PROVE  /\ Follows(purge_order(c, id))
           /\ DOMAIN purge_order(c, id).orders = DOMAIN c.orders \ {id}
<1> DEFINE r == purge_order(c, id)
<1>1. /\ DOMAIN r = CacheFields
      /\ r.orders = WithoutEntry(c.orders, id)
      /\ r.orders_active_local = c.orders_active_local \ {id}
      /\ r.orders_inflight = c.orders_inflight \ {id}
      /\ r.orders_open = c.orders_open \ {id}
      /\ r.orders_closed = c.orders_closed \ {id}
  BY DEF purge_order, Follows, CacheFields
<1>2. /\ DOMAIN r.orders = DOMAIN c.orders \ {id}
      /\ \A x \in DOMAIN r.orders : r.orders[x] = c.orders[x]
  BY <1>1 DEF WithoutEntry
<1> HIDE DEF r
<1>3. Follows(r)
  BY <1>1, <1>2, SMT DEF Follows
<1> QED BY <1>2, <1>3 DEF r

\* The position id of a fill: the orders stay where they are, and the positions.
LEMMA FollowsDetermined ==
    ASSUME NEW c, Follows(c), NEW n, NEW fill, NEW d \in determine_position_id(c, n, fill)
    PROVE  /\ Follows(d.cache)
           /\ DOMAIN d.cache.orders = DOMAIN c.orders
           /\ d.cache.positions = c.positions
<1> DEFINE id == fill.client_order_id
<1>1. d.cache = c \/ \E x : d.cache = Propagated(c, x, id)
  BY SMT DEF determine_position_id
<1> QED BY <1>1, FollowsPropagated, SMT

\* Handling a fill in the positions.
LEMMA FollowsFilled ==
    ASSUME NEW c, Follows(c), NEW n, NEW fill
    PROVE  /\ Follows(handle_order_fill(c, n, fill).cache)
           /\ DOMAIN handle_order_fill(c, n, fill).cache.orders = DOMAIN c.orders
<1> DEFINE h == handle_position_update(c, n, fill)
           r == handle_order_fill(c, n, fill)
<1>1. CASE ~account
  BY <1>1 DEF handle_order_fill, Unbooked
<1>2. CASE account
  <2>1. PartsKept(c, h.cache) /\ DOMAIN h = {"cache", "count", "booked"}
    BY PositionUpdateKeepsParts DEF Follows
  <2>2. r = [h EXCEPT !.cache = LinkContingent(h.cache, fill)]
    BY <1>2 DEF handle_order_fill
  <2> HIDE DEF h
  <2>3. r.cache = LinkContingent(h.cache, fill)
    BY <2>1, <2>2
  <2>4. Follows(h.cache) /\ h.cache.orders = c.orders
    BY <2>1, FollowsKept DEF PartsKept, OrderParts
  <2> HIDE DEF r
  <2>5. Follows(r.cache) /\ DOMAIN r.cache.orders = DOMAIN c.orders
    BY <2>3, <2>4, FollowsLinked
  <2> QED BY <2>5 DEF r
<1> QED BY <1>1, <1>2

-----------------------------------------------------------------------------
\* The invariant: the cache's orders follow, were all submitted, and nothing panicked.
OInv ==
    /\ Follows(cache)
    /\ DOMAIN history = HistoryFields
    /\ DOMAIN cache.orders \subseteq history.submitted
    /\ history.panicked = FALSE

LEMMA OrdersInit == Init => OInv
<1> SUFFICES ASSUME Init PROVE OInv
  OBVIOUS
<1>1. /\ DOMAIN cache = CacheFields
      /\ DOMAIN cache.orders = {}
      /\ cache.orders_active_local = {}
      /\ cache.orders_inflight = {}
      /\ cache.orders_open = {}
      /\ cache.orders_closed = {}
  BY DEF Init, EmptyCache, CacheFields
<1>2. Follows(cache)
  BY <1>1 DEF Follows
<1>3. DOMAIN history = HistoryFields /\ history.panicked = FALSE
  BY DEF Init, HistoryFields
<1> QED BY <1>1, <1>2, <1>3 DEF OInv

\* A trade that no open position holds is recorded without a panic.
LEMMA TradedQuietly ==
    ASSUME OInv, NEW fill, NEW booked, Traded(fill, booked),
           ~position_contains_trade_id(cache, fill.position_id, fill.trade_id)
    PROVE  /\ DOMAIN history' = HistoryFields
           /\ history'.submitted = history.submitted
           /\ history'.panicked = FALSE
<1>1. ~Panics(fill)
  BY DEF Panics
<1> QED BY <1>1 DEF Traded, OInv, HistoryFields

LEMMA OrdersSubmit ==
    ASSUME OInv, NEW id, NEW position_id, NEW sent, SubmitOrder(id, position_id, sent)
    PROVE  OInv'
<1> DEFINE order == NewOrder(OrderInit[id].order_type, OrderInit[id].quantity, FALSE)
           added == add_order(cache, id, order, position_id)
           e == [type |-> "Denied", venue_order_id |-> None]
<1>1. id \notin DOMAIN cache.orders
  BY DEF SubmitOrder, OInv
<1>2. Follows(added) /\ DOMAIN added.orders = DOMAIN cache.orders \cup {id}
  BY <1>1, FollowsAdded DEF OInv
<1>3. cache' = added \/ cache' = update_order(added, id, e)
  BY DEF SubmitOrder
<1> HIDE DEF added
<1>4. Follows(cache') /\ DOMAIN cache'.orders = DOMAIN cache.orders \cup {id}
  BY <1>2, <1>3, FollowsUpdated, SMT
<1>5. /\ DOMAIN history' = HistoryFields
      /\ history'.submitted = history.submitted \cup {id}
      /\ history'.panicked = FALSE
  BY DEF SubmitOrder, OInv, HistoryFields
<1> QED BY <1>4, <1>5 DEF OInv

\* The order an event is for is in the cache.
LEMMA ResolvedExists ==
    ASSUME NEW event, Resolved(event) # None
    PROVE  Resolved(event) \in DOMAIN cache.orders
BY DEF Resolved, order_exists

LEMMA OrdersEvent ==
    ASSUME OInv, NEW event, HandleEvent(event)
    PROVE  OInv'
<1>1. Resolved(event) \in DOMAIN cache.orders
  BY ResolvedExists DEF HandleEvent
<1>2. cache' = update_order(cache, Resolved(event), event) /\ history' = history
  BY DEF HandleEvent
<1>3. Follows(cache') /\ DOMAIN cache'.orders = DOMAIN cache.orders
  BY <1>1, <1>2, FollowsUpdated DEF OInv
<1> QED BY <1>2, <1>3 DEF OInv

LEMMA OrdersFill ==
    ASSUME OInv, NEW event, HandleFill(event)
    PROVE  OInv'
<1> DEFINE id == Resolved(event)
           routed == [event EXCEPT !.client_order_id = id]
<1>1. id \in DOMAIN cache.orders
  BY ResolvedExists DEF HandleFill
<1>2. PICK d \in determine_position_id(cache, count, routed) :
        LET fill == [routed EXCEPT !.position_id = d.position_id]
            r == handle_order_fill(update_order(d.cache, id, fill), d.count, fill)
        IN IF validate_fill_for_order(d.cache, fill) /\ Accepts(d.cache, id, fill)
           THEN cache' = r.cache /\ count' = r.count /\ Traded(fill, r.booked)
           ELSE cache' = d.cache /\ count' = d.count /\ Refused(d.cache, fill)
  BY DEF HandleFill
<1> DEFINE fill == [routed EXCEPT !.position_id = d.position_id]
           u == update_order(d.cache, id, fill)
           r == handle_order_fill(u, d.count, fill)
<1>3. /\ Follows(d.cache)
      /\ DOMAIN d.cache.orders = DOMAIN cache.orders
      /\ d.cache.positions = cache.positions
  BY FollowsDetermined, SMT DEF OInv
<1> HIDE DEF id, fill
<1>4. CASE validate_fill_for_order(d.cache, fill) /\ Accepts(d.cache, id, fill)
  <2>1. cache' = r.cache /\ Traded(fill, r.booked)
    BY <1>2, <1>4 DEF fill
  <2>2. Follows(u) /\ DOMAIN u.orders = DOMAIN cache.orders
    BY <1>1, <1>3, FollowsUpdated, SMT
  <2> HIDE DEF u
  <2>3. Follows(r.cache) /\ DOMAIN r.cache.orders = DOMAIN cache.orders
    BY <2>2, FollowsFilled
  <2>4. ~position_contains_trade_id(cache, fill.position_id, fill.trade_id)
    BY <1>3, <1>4 DEF validate_fill_for_order, position_contains_trade_id, has_position
  <2> HIDE DEF r
  <2>5. /\ DOMAIN history' = HistoryFields
        /\ history'.submitted = history.submitted
        /\ history'.panicked = FALSE
    BY <2>1, <2>4, TradedQuietly
  <2> QED BY <2>1, <2>3, <2>5 DEF OInv
<1>5. CASE ~(validate_fill_for_order(d.cache, fill) /\ Accepts(d.cache, id, fill))
  <2>1. cache' = d.cache /\ Refused(d.cache, fill)
    BY <1>2, <1>5 DEF fill
  <2>2. /\ DOMAIN history' = HistoryFields
        /\ history'.submitted = history.submitted
        /\ history'.panicked = FALSE
    BY <2>1 DEF Refused, OInv, HistoryFields
  <2> QED BY <1>3, <2>1, <2>2 DEF OInv
<1> QED BY <1>4, <1>5

LEMMA OrdersLegFill ==
    ASSUME OInv, NEW event \in LegFills, HandleLegFill(event)
    PROVE  OInv'
<1> DEFINE d == determine_leg_fill_position_id(cache, count, event)
           fill == [event EXCEPT !.position_id = d[1]]
           r == handle_position_update(cache, d[2], fill)
<1>1. \/ UNCHANGED <<cache, history>>
      \/ /\ ~position_contains_trade_id(cache, d[1], fill.trade_id)
         /\ cache' = r.cache
         /\ Traded(fill, r.booked)
  BY DEF HandleLegFill
<1>2. CASE UNCHANGED <<cache, history>>
  BY <1>2 DEF OInv
<1>3. CASE /\ ~position_contains_trade_id(cache, d[1], fill.trade_id)
           /\ cache' = r.cache
           /\ Traded(fill, r.booked)
  <2>1. fill.position_id = d[1]
    BY DEF LegFills
  <2>2. PartsKept(cache, r.cache)
    BY PositionUpdateKeepsParts DEF OInv, Follows
  <2> HIDE DEF r, fill, d
  <2>3. Follows(cache') /\ cache'.orders = cache.orders
    BY <1>3, <2>2, FollowsKept DEF OInv, PartsKept, OrderParts
  <2>4. /\ DOMAIN history' = HistoryFields
        /\ history'.submitted = history.submitted
        /\ history'.panicked = FALSE
    BY <1>3, <2>1, TradedQuietly
  <2> QED BY <2>3, <2>4 DEF OInv
<1> QED BY <1>1, <1>2, <1>3

LEMMA OrdersPurgeOrder ==
    ASSUME OInv, NEW id, PurgeClosedOrder(id)
    PROVE  OInv'
<1>1. cache' = purge_order(cache, id) /\ history' = history
  BY DEF PurgeClosedOrder
<1>2. Follows(cache') /\ DOMAIN cache'.orders \subseteq DOMAIN cache.orders
  BY <1>1, FollowsPurged DEF OInv
<1> QED BY <1>1, <1>2 DEF OInv

LEMMA OrdersPurgePosition ==
    ASSUME OInv, NEW position_id, PurgeClosedPosition(position_id)
    PROVE  OInv'
<1>1. cache' = purge_position(cache, position_id) /\ history' = history
  BY DEF PurgeClosedPosition
<1>2. PartsKept(cache, cache')
  BY <1>1, PositionOperations DEF OInv, Follows
<1>3. Follows(cache') /\ cache'.orders = cache.orders
  BY <1>2, FollowsKept DEF OInv, PartsKept, OrderParts
<1> QED BY <1>1, <1>3 DEF OInv

LEMMA OrdersNext == OInv /\ [Next]_vars => OInv'
<1> SUFFICES ASSUME OInv, [Next]_vars PROVE OInv'
  OBVIOUS
<1>1. CASE RegisterAccount
  BY <1>1 DEF RegisterAccount, OInv
<1>2. ASSUME NEW id \in ClientOrderIds, NEW position_id \in SubmitPositionIds \cup {None},
             NEW sent \in BOOLEAN, SubmitOrder(id, position_id, sent)
      PROVE  OInv'
  BY <1>2, OrdersSubmit
<1>3. ASSUME NEW event \in Events, HandleEvent(event)
      PROVE  OInv'
  BY <1>3, OrdersEvent
<1>4. ASSUME NEW event \in Fills, HandleFill(event)
      PROVE  OInv'
  BY <1>4, OrdersFill
<1>5. ASSUME NEW event \in LegFills, HandleLegFill(event)
      PROVE  OInv'
  BY <1>5, OrdersLegFill
<1>6. ASSUME NEW id \in ClientOrderIds, PurgeClosedOrder(id)
      PROVE  OInv'
  BY <1>6, OrdersPurgeOrder
<1>7. ASSUME NEW position_id \in PositionIds, PurgeClosedPosition(position_id)
      PROVE  OInv'
  BY <1>7, OrdersPurgePosition
<1>8. CASE UNCHANGED vars
  BY <1>8 DEF vars, OInv
<1> QED BY <1>1, <1>2, <1>3, <1>4, <1>5, <1>6, <1>7, <1>8 DEF Next

\* The order indexes that Cache::refresh_order updates one insertion or removal at a time
\* agree with the orders, for every number of orders and every order of events, late
\* fills, rejected requests and purges included.
THEOREM OrderIndexesAlwaysFollow == Spec => []OrderIndexesFollow
<1>1. OInv => OrderIndexesFollow
  BY DEF OInv, Follows, OrderIndexesFollow
<1> QED BY <1>1, OrdersInit, OrdersNext, PTL DEF Spec

\* The engine never lets a fill reach Position::apply whose trade the open position
\* holds: the checks of handle_event and of handle_leg_fill_without_order see the position
\* the fill is applied to, whichever position the routing chose.
THEOREM EngineNeverPanics == Spec => []NeverPanics
<1>1. OInv => NeverPanics
  BY DEF OInv, NeverPanics
<1> QED BY <1>1, OrdersInit, OrdersNext, PTL DEF Spec

-----------------------------------------------------------------------------
(***************************************************************************)
(* The position of an execution spawn, with HEDGING.  A group is the set   *)
(* exec_spawn_orders[s].  Its invariant names the one id x that is shared: *)
(* every order of the group has, and is indexed with, x or an id that was  *)
(* assigned (by the venue, a submission or a flip), and an order that was  *)
(* given no position yet is indexed with an assigned one.  The last part   *)
(* is why a new id may be generated when no order of the group has one.    *)
(***************************************************************************)
Assigned(h) == VenuePositionIds \cup SubmitPositionIds \cup h.renewed \cup {None}

Shares(c, G, s, x) ==
    \A id \in c.exec_spawn_orders[s] :
        /\ id \in DOMAIN c.orders
        /\ OrderInit[id].exec_spawn_id = s
        /\ c.orders[id].position_id \in G \cup {x}
        /\ c.order_position[id] \in G \cup {x}
        /\ c.orders[id].position_id = None => c.order_position[id] \in G

Grouped(c, G) ==
    /\ DOMAIN c.orders \subseteq ClientOrderIds
    /\ DOMAIN c.order_position = OrderIds
    /\ DOMAIN c.exec_spawn_orders = ClientOrderIds
    /\ \A s \in ClientOrderIds : \E x : Shares(c, G, s, x)

\* What is assumed of the orders: a primary order is in its own group or in none, and the
\* children linked to an order are not spawned.
PlainSpawns ==
    \A id \in ClientOrderIds :
        /\ OrderInit[id].exec_spawn_id # None =>
              OrderInit[OrderInit[id].exec_spawn_id].exec_spawn_id
                 \in {None, OrderInit[id].exec_spawn_id}
        /\ \A child \in OrderInit[id].linked_order_ids : OrderInit[child].exec_spawn_id = None

\* An operation that indexes at most the order id with another position.
IndexedAt(c, r, id) ==
    /\ DOMAIN r = CacheFields
    /\ r.orders = c.orders
    /\ r.exec_spawn_orders = c.exec_spawn_orders
    /\ DOMAIN r.order_position = DOMAIN c.order_position
    /\ \A x \in DOMAIN c.order_position : x # id => r.order_position[x] = c.order_position[x]

\* An operation that takes orders out of groups, or positions from orders, or assigns more.
LEMMA GroupedLess ==
    ASSUME NEW c, NEW G, Grouped(c, G), NEW r, NEW H, G \subseteq H, None \in G,
           DOMAIN r.orders \subseteq ClientOrderIds,
           DOMAIN r.order_position = OrderIds,
           DOMAIN r.exec_spawn_orders = ClientOrderIds,
           \A s \in ClientOrderIds : r.exec_spawn_orders[s] \subseteq c.exec_spawn_orders[s],
           \A s \in ClientOrderIds : \A id \in r.exec_spawn_orders[s] :
              /\ id \in DOMAIN r.orders
              /\ r.orders[id].position_id = c.orders[id].position_id
              /\ r.order_position[id] \in {c.order_position[id], None}
    PROVE  Grouped(r, H)
<1> SUFFICES ASSUME NEW s \in ClientOrderIds
             PROVE  \E x : Shares(r, H, s, x)
  BY DEF Grouped
<1>1. PICK x : Shares(c, G, s, x)
  BY DEF Grouped
<1>2. Shares(r, H, s, x)
  BY <1>1 DEF Shares
<1> QED BY <1>2

\* The position id an event leaves in the order it is applied to.
LEMMA AppliedPosition ==
    ASSUME NEW o, Tracked(o), NEW e, Applies(SavePrevious(o, e), e)
    PROVE  apply(o, e).position_id = IF e.type = "Filled" THEN e.position_id ELSE o.position_id
<1> DEFINE s == SavePrevious(o, e)
           m == [s EXCEPT !.status = transition[o.status][e.type]]
           h == Handled(m, e)
<1>1. DOMAIN s = OrderFields /\ s.position_id = o.position_id
  BY DEF SavePrevious, Tracked, OrderFields
<1>2. apply(o, e) = [h EXCEPT !.last_event = e.type]
  BY DEF apply
<1> HIDE DEF s
<1>3. DOMAIN m = OrderFields /\ m.position_id = o.position_id
  BY <1>1 DEF OrderFields
<1> HIDE DEF m
<1>4. DOMAIN h = OrderFields /\ h.position_id = IF e.type = "Filled" THEN e.position_id ELSE o.position_id
  <2>1. CASE e.type \in {"Denied", "Rejected", "Canceled", "Expired"}
    BY <1>3, <2>1 DEF Handled, closed, OrderFields
  <2>2. CASE e.type = "Released"
    BY <1>3, <2>2 DEF Handled, OrderFields
  <2>3. CASE e.type = "Accepted"
    BY <1>3, <2>3 DEF Handled, accepted, OrderFields
  <2>4. CASE e.type \in {"ModifyRejected", "CancelRejected"}
    BY <1>3, <2>4 DEF Handled, rejected_request, OrderFields
  <2>5. CASE e.type = "Updated"
    BY <1>3, <2>5 DEF Handled, updated, OrderFields
  <2>6. CASE e.type = "Filled"
    BY <1>3, <2>6 DEF Handled, filled, OrderFields
  <2>7. CASE e.type \notin {"Denied", "Rejected", "Canceled", "Expired", "Released", "Accepted",
                            "ModifyRejected", "CancelRejected", "Updated", "Filled"}
    BY <1>3, <2>7 DEF Handled
  <2> QED BY <2>1, <2>2, <2>3, <2>4, <2>5, <2>6, <2>7
<1> HIDE DEF h
<1> QED BY <1>2, <1>4 DEF OrderFields

\* Cache::update_order changes no index of positions, and of the orders one.
UpdatedAt(c, id, e, r) ==
    /\ DOMAIN r = CacheFields
    /\ r.order_position = c.order_position
    /\ r.exec_spawn_orders = c.exec_spawn_orders
    /\ DOMAIN r.orders = DOMAIN c.orders
    /\ \A x \in DOMAIN c.orders : x # id => r.orders[x] = c.orders[x]
    /\ r.orders[id].position_id = IF Accepts(c, id, e) /\ e.type = "Filled" THEN e.position_id
                                  ELSE c.orders[id].position_id

LEMMA UpdatedGroups ==
    ASSUME NEW c, Follows(c), NEW id \in DOMAIN c.orders, NEW e
    PROVE  UpdatedAt(c, id, e, update_order(c, id, e))
<1> DEFINE o == apply(c.orders[id], e)
           w == [c EXCEPT !.orders[id] = o]
           r == update_order(c, id, e)
<1>1. CASE ~Accepts(c, id, e)
  BY <1>1 DEF update_order, Follows, UpdatedAt
<1>2. CASE Accepts(c, id, e)
  <2>1. r = refresh_order(w, id, o)
    BY <1>2 DEF update_order
  <2>2. o.position_id = IF e.type = "Filled" THEN e.position_id ELSE c.orders[id].position_id
    BY <1>2, AppliedPosition DEF Accepts, Follows
  <2> HIDE DEF o
  <2>3. /\ DOMAIN w = CacheFields
        /\ w.orders = [c.orders EXCEPT ![id] = o]
        /\ w.order_position = c.order_position
        /\ w.exec_spawn_orders = c.exec_spawn_orders
    BY DEF Follows, CacheFields
  <2> HIDE DEF w
  <2>4. /\ DOMAIN r = CacheFields
        /\ r.orders = w.orders
        /\ r.order_position = w.order_position
        /\ r.exec_spawn_orders = w.exec_spawn_orders
    <3> HIDE DEF r
    <3>1. FiledAt(w, id, o, r)
      BY <2>1, <2>3, RefreshIndexes
    <3> QED BY <3>1 DEF FiledAt
  <2> HIDE DEF r
  <2>5. /\ DOMAIN r.orders = DOMAIN c.orders
        /\ \A x \in DOMAIN c.orders : x # id => r.orders[x] = c.orders[x]
        /\ r.orders[id] = o
    BY <2>3, <2>4
  <2> QED BY <1>2, <2>2, <2>3, <2>4, <2>5 DEF r, UpdatedAt
<1> QED BY <1>1, <1>2

\* The operations on positions index at most the order that opens one.
LEMMA IndexingOperations ==
    ASSUME NEW c, DOMAIN c = CacheFields, NEW position_id, NEW p
    PROVE  /\ \A id : IndexedAt(c, add_position_id(c, position_id, id), id)
           /\ IndexedAt(c, add_position(c, position_id, p), p.opening_order_id)
           /\ \A id : IndexedAt(c, update_position(c, position_id, p), id)
           /\ \A id : IndexedAt(c, snapshot_position(c, position_id, p), id)
           /\ \A id : IndexedAt(c, c, id)
<1>1. \A id : IndexedAt(c, add_position_id(c, position_id, id), id)
  BY DEF IndexedAt, CacheFields, add_position_id
<1>2. IndexedAt(c, add_position(c, position_id, p), p.opening_order_id)
  BY DEF IndexedAt, CacheFields, add_position, add_position_id
<1>3. \A id : IndexedAt(c, update_position(c, position_id, p), id)
  BY DEF IndexedAt, CacheFields, update_position
<1>4. \A id : IndexedAt(c, snapshot_position(c, position_id, p), id)
  BY DEF IndexedAt, CacheFields, snapshot_position
<1>5. \A id : IndexedAt(c, c, id)
  BY DEF IndexedAt
<1> QED BY <1>1, <1>2, <1>3, <1>4, <1>5

LEMMA IndexedChain ==
    ASSUME NEW a, NEW b, NEW c, NEW id, IndexedAt(a, b, id), IndexedAt(b, c, id)
    PROVE  IndexedAt(a, c, id)
BY DEF IndexedAt

\* The order that opens a position is that of the fill.
LEMMA OpeningOrder ==
    ASSUME NEW fill
    PROVE  NewPosition(fill).opening_order_id = fill.client_order_id
<1> DEFINE blank ==
      [events |-> << >>, adjustments |-> << >>, buy_qty |-> 0, sell_qty |-> 0,
       opening_order_id |-> fill.client_order_id, closing_order_id |-> None,
       entry |-> fill.order_side, side |-> "Flat", signed_qty |-> 0,
       quantity |-> fill.last_qty, peak_qty |-> fill.last_qty, ts_closed |-> FALSE,
       avg_px_open |-> <<fill.last_px, 1>>, avg_px_close |-> None,
       realized_pnl |-> <<0, 1>>]
           c == Reopened(blank, fill)
           l == Logged(c, fill)
           t == handle_fill(l, fill)
           h == IF fill.currency = "Base"
                THEN apply_adjustment(t, CommissionAdjustment(fill)) ELSE t
<1>1. /\ DOMAIN blank = PositionFields
      /\ blank.side = "Flat"
  BY DEF PositionFields
<1>2. NewPosition(fill) = Settled(h, fill)
  BY DEF NewPosition, ApplyFill
<1> HIDE DEF blank
<1>3. DOMAIN c = PositionFields /\ c.opening_order_id = fill.client_order_id
  BY <1>1 DEF Reopened, PositionFields
<1> HIDE DEF c
<1>4. DOMAIN l = PositionFields /\ l.opening_order_id = fill.client_order_id
  BY <1>3 DEF Logged, PositionFields
<1> HIDE DEF l
<1>5. DOMAIN t = PositionFields /\ t.opening_order_id = fill.client_order_id
  BY <1>4 DEF handle_fill, PositionFields
<1> HIDE DEF t
<1>6. DOMAIN h = PositionFields /\ h.opening_order_id = fill.client_order_id
  BY <1>5 DEF apply_adjustment, PositionFields
<1> HIDE DEF h
<1> QED BY <1>2, <1>6 DEF Settled, PositionFields

\* Applying a fill to a position indexes at most the order of the fill.
LEMMA PositionUpdateIndexes ==
    ASSUME NEW c, DOMAIN c = CacheFields, NEW n, NEW fill, "client_order_id" \in DOMAIN fill
    PROVE  IndexedAt(c, handle_position_update(c, n, fill).cache, fill.client_order_id)
<1> DEFINE id == fill.position_id
           by == fill.client_order_id
           p == c.positions[id]
           again == reopen_position(c, id, p)
           commission1 == bankers_round(fill.commission * p.quantity, fill.last_qty)
           closing == ApplyFill(p, [fill EXCEPT !.last_qty = p.quantity, !.commission = commission1])
           u == update_position(c, id, closing)
           kept == IF OmsType = "Netting" THEN snapshot_position(u, id, closing) ELSE u
           renew == OmsType = "Hedging" /\ is_virtual(id)
           split2 == [fill EXCEPT !.last_qty = difference(p, fill),
                                  !.commission = @ - commission1,
                                  !.position_id = IF renew THEN Generated(n + 1) ELSE @]
           r == handle_position_update(c, n, fill)
<1>1. IndexedAt(c, again, by) /\ DOMAIN again = CacheFields
  <2>1. IndexedAt(c, again, by)
    BY IndexingOperations DEF reopen_position
  <2> QED BY <2>1 DEF IndexedAt
<1>2. IndexedAt(c, u, by) /\ DOMAIN u = CacheFields
  <2>1. IndexedAt(c, u, by)
    BY IndexingOperations
  <2> QED BY <2>1 DEF IndexedAt
<1>3. IndexedAt(u, kept, by) /\ DOMAIN kept = CacheFields
  <2> HIDE DEF u, closing
  <2>1. IndexedAt(u, kept, by)
    BY <1>2, IndexingOperations
  <2> QED BY <2>1 DEF IndexedAt
<1>4. IndexedAt(c, kept, by)
  <2> HIDE DEF u, kept
  <2> QED BY <1>2, <1>3, IndexedChain
<1>5. split2.client_order_id = by
  OBVIOUS
<1>6. \/ r.cache = c
      \/ r.cache = add_position(c, id, NewPosition(fill))
      \/ r.cache = add_position(again, id, NewPosition(fill))
      \/ r.cache = add_position(kept, split2.position_id, NewPosition(split2))
      \/ \E q : r.cache = update_position(c, id, q)
  <2>1. r \in {Unbooked(c, n), open_position(c, n, fill), open_position_again(c, n, p, fill),
               flip_position(c, n, p, fill), Booked(update_position(c, id, ApplyFill(p, fill)), n)}
    BY DEF handle_position_update
  <2>2. flip_position(c, n, p, fill).cache =
           add_position(kept, split2.position_id, NewPosition(split2))
    BY DEF flip_position, open_position, Booked
  <2>3. \/ open_position_again(c, n, p, fill).cache = c
        \/ open_position_again(c, n, p, fill).cache = add_position(again, id, NewPosition(fill))
    BY DEF open_position_again, open_position, Booked, Unbooked
  <2>4. open_position(c, n, fill).cache = add_position(c, id, NewPosition(fill))
    BY DEF open_position, Booked
  <2>5. /\ Unbooked(c, n).cache = c
        /\ Booked(update_position(c, id, ApplyFill(p, fill)), n).cache =
              update_position(c, id, ApplyFill(p, fill))
    BY DEF Booked, Unbooked
  <2> HIDE DEF p, again, kept, split2, r
  <2> QED BY <2>1, <2>2, <2>3, <2>4, <2>5
<1> HIDE DEF r, again, kept, split2, id
<1>7. /\ IndexedAt(c, add_position(c, id, NewPosition(fill)), by)
      /\ IndexedAt(again, add_position(again, id, NewPosition(fill)), by)
      /\ IndexedAt(kept, add_position(kept, split2.position_id, NewPosition(split2)), by)
  BY <1>1, <1>3, <1>5, IndexingOperations, OpeningOrder
<1>8. IndexedAt(c, r.cache, by)
  BY <1>1, <1>4, <1>6, <1>7, IndexingOperations, IndexedChain, SMT
<1> QED BY <1>8 DEF r

\* Giving the primary order of a group an id that the group may have.
LEMMA PropagatedGroups ==
    ASSUME PlainSpawns, NEW c, Follows(c), NEW G, None \in G, Grouped(c, G), NEW position_id,
           NEW id \in ClientOrderIds
    PROVE  LET r == Propagated(c, position_id, id)
               spawn == OrderInit[id].exec_spawn_id
           IN /\ DOMAIN r.orders = DOMAIN c.orders
              /\ DOMAIN r.order_position = OrderIds
              /\ r.exec_spawn_orders = c.exec_spawn_orders
              /\ \A x \in OrderIds \ DOMAIN c.orders : r.order_position[x] = c.order_position[x]
              /\ \A s \in ClientOrderIds : \A x :
                    Shares(c, G, s, x) /\ (s = spawn => position_id \in G \cup {x}) =>
                       Shares(r, G, s, x)
<1> DEFINE spawn == OrderInit[id].exec_spawn_id
           w == [c EXCEPT !.orders[spawn].position_id = position_id]
           a == add_position_id(w, position_id, spawn)
           r == Propagated(c, position_id, id)
<1>1. CASE r = c
  BY <1>1 DEF Grouped
<1>2. CASE r # c
  <2>1. r = a /\ spawn \in DOMAIN c.orders /\ spawn # None
    BY <1>2 DEF Propagated, order_exists
  <2>2. OrderInit[spawn].exec_spawn_id \in {None, spawn}
    BY <2>1 DEF PlainSpawns
  <2> HIDE DEF spawn
  <2>3. /\ DOMAIN w = CacheFields
        /\ w.orders = [c.orders EXCEPT ![spawn] = [c.orders[spawn] EXCEPT !.position_id = position_id]]
        /\ w.order_position = c.order_position
        /\ w.exec_spawn_orders = c.exec_spawn_orders
    BY DEF Follows, CacheFields
  <2> HIDE DEF w
  <2>4. /\ a.orders = w.orders
        /\ a.exec_spawn_orders = w.exec_spawn_orders
        /\ a.order_position = [w.order_position EXCEPT ![spawn] = position_id]
    BY <2>3 DEF add_position_id, CacheFields
  <2> HIDE DEF a, r
  <2>5. /\ DOMAIN r.orders = DOMAIN c.orders
        /\ r.exec_spawn_orders = c.exec_spawn_orders
        /\ DOMAIN r.order_position = OrderIds
        /\ \A x \in DOMAIN c.orders : x # spawn => r.orders[x] = c.orders[x]
        /\ \A x \in OrderIds : x # spawn => r.order_position[x] = c.order_position[x]
    BY <2>1, <2>3, <2>4 DEF Grouped
  <2>6. r.orders[spawn].position_id = position_id
    BY <2>1, <2>3, <2>4, SMT DEF Follows, Tracked, OrderFields
  <2>7. r.order_position[spawn] = position_id
    BY <2>1, <2>3, <2>4 DEF Grouped, OrderIds
  <2>8. ASSUME NEW s \in ClientOrderIds, NEW x, Shares(c, G, s, x),
               s = spawn => position_id \in G \cup {x}
        PROVE  Shares(r, G, s, x)
    <3>1. s # spawn => spawn \notin c.exec_spawn_orders[s]
      BY <2>2, <2>8, CacheAssumption DEF Shares
    <3>2. \A y \in c.exec_spawn_orders[s] : y \in OrderIds /\ y \in DOMAIN c.orders
      BY <2>8 DEF Shares, Grouped, OrderIds
    <3> QED BY <2>5, <2>6, <2>7, <2>8, <3>1, <3>2 DEF Shares
  <2>9. \A x \in OrderIds \ DOMAIN c.orders : r.order_position[x] = c.order_position[x]
    BY <2>1, <2>5
  <2> QED BY <2>5, <2>8, <2>9 DEF r, spawn
<1> QED BY <1>1, <1>2

\* The id a fill is given is one its group may have.
LEMMA DeterminedGroups ==
    ASSUME OmsType = "Hedging", PlainSpawns, NEW c, Follows(c),
           NEW G, None \in G, VenuePositionIds \subseteq G, Grouped(c, G),
           NEW n, NEW fill, fill.client_order_id \in ClientOrderIds,
           fill.position_id \in VenuePositionIds \cup {None},
           NEW d \in determine_position_id(c, n, fill)
    PROVE  /\ Grouped(d.cache, G)
           /\ d.cache.exec_spawn_orders = c.exec_spawn_orders
           /\ \A x \in OrderIds \ DOMAIN c.orders :
                 d.cache.order_position[x] = c.order_position[x]
           /\ \A s \in ClientOrderIds : fill.client_order_id \in c.exec_spawn_orders[s] =>
                 \E x : Shares(d.cache, G, s, x) /\ d.position_id \in G \cup {x}
<1> DEFINE id == fill.client_order_id
           spawn == OrderInit[id].exec_spawn_id
           siblings == IF spawn = None THEN {}
                       ELSE {c.orders[s].position_id : s \in c.exec_spawn_orders[spawn]} \ {None}
           assigned == determine_hedging_position_id(c, n, fill)
<1>1. CASE c.order_position[id] # None
  <2>1. d = [position_id |-> c.order_position[id], count |-> n, cache |-> c]
    BY <1>1 DEF determine_position_id
  <2>2. d.cache = c /\ d.position_id = c.order_position[id]
    BY <2>1
  <2> HIDE DEF id
  <2>3. ASSUME NEW s \in ClientOrderIds, id \in c.exec_spawn_orders[s]
        PROVE  \E x : Shares(d.cache, G, s, x) /\ d.position_id \in G \cup {x}
    <3>1. PICK x : Shares(c, G, s, x)
      BY DEF Grouped
    <3>2. c.order_position[id] \in G \cup {x}
      BY <2>3, <3>1 DEF Shares
    <3> QED BY <2>2, <3>1, <3>2
  <2> QED BY <2>2, <2>3 DEF id
<1>2. CASE c.order_position[id] = None
  <2>1. PICK a \in assigned :
          d = [position_id |-> a[1], count |-> a[2], cache |-> Propagated(c, a[1], id)]
    BY <1>2 DEF determine_position_id
  <2>2. d.position_id = a[1] /\ d.cache = Propagated(c, a[1], id)
    BY <2>1
  <2>3. /\ DOMAIN d.cache.orders = DOMAIN c.orders
        /\ DOMAIN d.cache.order_position = OrderIds
        /\ d.cache.exec_spawn_orders = c.exec_spawn_orders
        /\ \A x \in OrderIds \ DOMAIN c.orders : d.cache.order_position[x] = c.order_position[x]
        /\ \A s \in ClientOrderIds : \A x :
              Shares(c, G, s, x) /\ (s = spawn => a[1] \in G \cup {x}) =>
                 Shares(d.cache, G, s, x)
    <3> DEFINE p == a[1]
    <3>1. d.cache = Propagated(c, p, id) /\ id \in ClientOrderIds
      BY <2>2
    <3> HIDE DEF p, id
    <3>2. LET r == Propagated(c, p, id)
          IN /\ DOMAIN r.orders = DOMAIN c.orders
             /\ DOMAIN r.order_position = OrderIds
             /\ r.exec_spawn_orders = c.exec_spawn_orders
             /\ \A x \in OrderIds \ DOMAIN c.orders : r.order_position[x] = c.order_position[x]
             /\ \A s \in ClientOrderIds : \A x :
                   Shares(c, G, s, x) /\ (s = spawn => p \in G \cup {x}) => Shares(r, G, s, x)
      BY <3>1, PropagatedGroups
    <3> QED BY <3>1, <3>2 DEF p
  <2>4. \/ a[1] \in VenuePositionIds
        \/ a[1] \in siblings
        \/ siblings = {}
    <3>1. CASE fill.position_id # None
      BY <3>1, SMT DEF determine_hedging_position_id
    <3>2. CASE fill.position_id = None /\ siblings # {}
      <4>1. a \in siblings \X {n}
        BY <3>2 DEF determine_hedging_position_id
      <4> QED BY <4>1
    <3> QED BY <3>1, <3>2
  <2>5. spawn \in ClientOrderIds => \E x : Shares(c, G, spawn, x) /\ a[1] \in G \cup {x}
    <3> SUFFICES ASSUME spawn \in ClientOrderIds
                 PROVE  \E x : Shares(c, G, spawn, x) /\ a[1] \in G \cup {x}
      OBVIOUS
    <3>1. PICK x : Shares(c, G, spawn, x)
      BY DEF Grouped
    <3>2. spawn # None
      BY CacheAssumption
    <3>3. CASE a[1] \in VenuePositionIds
      BY <3>1, <3>3
    <3>4. CASE a[1] \in siblings
      BY <3>1, <3>2, <3>4, SMT DEF Shares
    <3>5. CASE siblings = {}
      <4>1. \A y \in c.exec_spawn_orders[spawn] : c.orders[y].position_id = None
        BY <3>2, <3>5
      <4>2. Shares(c, G, spawn, a[1])
        BY <3>1, <4>1 DEF Shares
      <4> QED BY <4>2
    <3> QED BY <2>4, <3>3, <3>4, <3>5
  <2> HIDE DEF siblings, assigned
  <2>6. ASSUME NEW s \in ClientOrderIds
        PROVE  \E x : Shares(d.cache, G, s, x) /\ (s = spawn => d.position_id \in G \cup {x})
    <3>1. CASE s = spawn
      BY <2>2, <2>3, <2>5, <3>1
    <3>2. CASE s # spawn
      BY <2>3, <3>2 DEF Grouped
    <3> QED BY <3>1, <3>2
  <2>7. Grouped(d.cache, G)
    BY <2>3, <2>6 DEF Grouped
  <2>8. ASSUME NEW s \in ClientOrderIds, id \in c.exec_spawn_orders[s]
        PROVE  s = spawn
    BY <2>8 DEF Grouped, Shares
  <2> HIDE DEF id, spawn
  <2> QED BY <2>3, <2>6, <2>7, <2>8 DEF id
<1> QED BY <1>1, <1>2

\* Linked children are in no group.
LEMMA LinkedGroups ==
    ASSUME PlainSpawns, NEW c, DOMAIN c = CacheFields, DOMAIN c.order_position = OrderIds,
           NEW fill, fill.client_order_id \in ClientOrderIds
    PROVE  LET r == LinkContingent(c, fill)
           IN /\ DOMAIN r.orders = DOMAIN c.orders
              /\ DOMAIN r.order_position = OrderIds
              /\ r.exec_spawn_orders = c.exec_spawn_orders
              /\ \A y \in DOMAIN c.orders :
                    OrderInit[y].exec_spawn_id # None => r.orders[y] = c.orders[y]
              /\ \A y \in OrderIds :
                    y \notin DOMAIN c.orders \/ OrderInit[y].exec_spawn_id # None =>
                       r.order_position[y] = c.order_position[y]
<1> DEFINE children == {id \in OrderInit[fill.client_order_id].linked_order_ids :
                           order_exists(c, id) /\ c.orders[id].position_id = None}
           r == LinkContingent(c, fill)
<1>1. \A y \in children : y \in DOMAIN c.orders /\ OrderInit[y].exec_spawn_id = None
  BY DEF PlainSpawns, order_exists
<1>2. CASE r = c
  BY <1>2
<1>3. CASE r # c
  <2> HIDE DEF children
  <2>1. /\ r.orders = [id \in DOMAIN c.orders |->
                         IF id \in children
                         THEN [c.orders[id] EXCEPT !.position_id = fill.position_id]
                         ELSE c.orders[id]]
        /\ r.order_position = [id \in OrderIds |->
                                 IF id \in children THEN fill.position_id
                                 ELSE c.order_position[id]]
        /\ r.exec_spawn_orders = c.exec_spawn_orders
    BY <1>3 DEF LinkContingent, CacheFields, children
  <2> HIDE DEF r
  <2>2. /\ DOMAIN r.orders = DOMAIN c.orders
        /\ DOMAIN r.order_position = OrderIds
        /\ \A y \in DOMAIN c.orders : y \notin children => r.orders[y] = c.orders[y]
        /\ \A y \in OrderIds : y \notin children => r.order_position[y] = c.order_position[y]
    BY <2>1
  <2> QED BY <1>1, <2>1, <2>2 DEF r
<1> QED BY <1>2, <1>3

\* Handling a fill changes at most the index of its order, as far as groups go.
FilledAt(c, id, r) ==
    /\ DOMAIN r.orders = DOMAIN c.orders
    /\ DOMAIN r.order_position = OrderIds
    /\ r.exec_spawn_orders = c.exec_spawn_orders
    /\ \A y \in DOMAIN c.orders : OrderInit[y].exec_spawn_id # None => r.orders[y] = c.orders[y]
    /\ \A y \in OrderIds \ {id} :
          y \notin DOMAIN c.orders \/ OrderInit[y].exec_spawn_id # None =>
             r.order_position[y] = c.order_position[y]

LEMMA FilledGroups ==
    ASSUME PlainSpawns, NEW c, Follows(c), DOMAIN c.order_position = OrderIds, NEW n,
           NEW fill, "client_order_id" \in DOMAIN fill, fill.client_order_id \in ClientOrderIds
    PROVE  FilledAt(c, fill.client_order_id, handle_order_fill(c, n, fill).cache)
<1> DEFINE h == handle_position_update(c, n, fill)
           r == handle_order_fill(c, n, fill)
<1>1. CASE ~account
  <2>1. r.cache = c
    BY <1>1 DEF handle_order_fill, Unbooked
  <2> QED BY <2>1 DEF FilledAt
<1>2. CASE account
  <2>1. IndexedAt(c, h.cache, fill.client_order_id) /\ DOMAIN h = {"cache", "count", "booked"}
    BY PositionUpdateIndexes, PositionUpdateKeepsParts DEF Follows
  <2>2. r = [h EXCEPT !.cache = LinkContingent(h.cache, fill)]
    BY <1>2 DEF handle_order_fill
  <2> HIDE DEF h
  <2>3. r.cache = LinkContingent(h.cache, fill)
    BY <2>1, <2>2
  <2> HIDE DEF r
  <2> DEFINE q == h.cache
             z == r.cache
  <2>4. /\ DOMAIN q = CacheFields
        /\ q.orders = c.orders
        /\ q.exec_spawn_orders = c.exec_spawn_orders
        /\ DOMAIN q.order_position = OrderIds
        /\ \A y \in OrderIds : y # fill.client_order_id => q.order_position[y] = c.order_position[y]
    BY <2>1 DEF IndexedAt
  <2>5. z = LinkContingent(q, fill)
    BY <2>3
  <2> HIDE DEF q, z
  <2>6. /\ DOMAIN z.orders = DOMAIN q.orders
        /\ DOMAIN z.order_position = OrderIds
        /\ z.exec_spawn_orders = q.exec_spawn_orders
        /\ \A y \in DOMAIN q.orders :
              OrderInit[y].exec_spawn_id # None => z.orders[y] = q.orders[y]
        /\ \A y \in OrderIds :
              y \notin DOMAIN q.orders \/ OrderInit[y].exec_spawn_id # None =>
                 z.order_position[y] = q.order_position[y]
    BY <2>4, <2>5, LinkedGroups, SMT
  <2>7. r.cache = z
    BY DEF z
  <2> QED BY <2>4, <2>6, <2>7 DEF r, FilledAt
<1> QED BY <1>1, <1>2

-----------------------------------------------------------------------------
\* The invariant: the groups share a position, and only submitted orders are indexed.
GInv ==
    /\ OInv
    /\ Grouped(cache, Assigned(history))
    /\ \A id \in ClientOrderIds \ history.submitted : cache.order_position[id] = None

LEMMA GroupsInit == Init => GInv
<1> SUFFICES ASSUME Init PROVE GInv
  OBVIOUS
<1>1. /\ DOMAIN cache.orders = {}
      /\ DOMAIN cache.order_position = OrderIds
      /\ DOMAIN cache.exec_spawn_orders = ClientOrderIds
      /\ \A s \in ClientOrderIds : cache.exec_spawn_orders[s] = {}
      /\ \A id \in OrderIds : cache.order_position[id] = None
  BY DEF Init, EmptyCache
<1>2. \A s \in ClientOrderIds : Shares(cache, Assigned(history), s, None)
  BY <1>1 DEF Shares
<1>3. Grouped(cache, Assigned(history))
  BY <1>1, <1>2 DEF Grouped
<1> QED BY <1>1, <1>3, OrdersInit DEF GInv, OrderIds

\* What a fill that is booked, or logged, adds to the assigned ids.
LEMMA TradedAssigned ==
    ASSUME GInv, NEW fill, NEW booked, Traded(fill, booked)
    PROVE  /\ Assigned(history) \subseteq Assigned(history')
           /\ history'.submitted = history.submitted
           /\ cache'.order_position[fill.client_order_id]
                 \in Assigned(history') \cup {fill.position_id}
<1>1. /\ history'.renewed = history.renewed \cup ({cache'.order_position[fill.client_order_id]}
                                                  \ {None, fill.position_id})
      /\ history'.submitted = history.submitted
  BY DEF Traded, GInv, OInv, HistoryFields
<1> QED BY <1>1 DEF Assigned

\* A step that leaves the groups' orders as they are.
LEMMA GroupsUnmoved ==
    ASSUME GInv, OInv', Assigned(history) \subseteq Assigned(history'),
           history'.submitted = history.submitted,
           DOMAIN cache'.orders \subseteq DOMAIN cache.orders,
           DOMAIN cache'.order_position = OrderIds,
           DOMAIN cache'.exec_spawn_orders = ClientOrderIds,
           \A s \in ClientOrderIds : cache'.exec_spawn_orders[s] \subseteq cache.exec_spawn_orders[s],
           \A s \in ClientOrderIds : \A id \in cache'.exec_spawn_orders[s] :
              /\ id \in DOMAIN cache'.orders
              /\ cache'.orders[id].position_id = cache.orders[id].position_id,
           \A id \in ClientOrderIds : cache'.order_position[id] \in {cache.order_position[id], None}
    PROVE  GInv'
<1>1. None \in Assigned(history)
  BY DEF Assigned
<1>2. \A s \in ClientOrderIds : \A id \in cache'.exec_spawn_orders[s] :
         cache'.order_position[id] \in {cache.order_position[id], None}
  BY DEF OInv, GInv, Grouped
<1> DEFINE c == cache
           r == cache'
           G == Assigned(history)
           H == Assigned(history')
<1>3. Grouped(r, H)
  <2>1. /\ Grouped(c, G) /\ G \subseteq H /\ None \in G
        /\ DOMAIN r.orders \subseteq ClientOrderIds
        /\ DOMAIN r.order_position = OrderIds
        /\ DOMAIN r.exec_spawn_orders = ClientOrderIds
        /\ \A s \in ClientOrderIds : r.exec_spawn_orders[s] \subseteq c.exec_spawn_orders[s]
        /\ \A s \in ClientOrderIds : \A id \in r.exec_spawn_orders[s] :
              /\ id \in DOMAIN r.orders
              /\ r.orders[id].position_id = c.orders[id].position_id
              /\ r.order_position[id] \in {c.order_position[id], None}
    BY <1>1, <1>2 DEF GInv, Grouped
  <2> HIDE DEF c, r, G, H
  <2> QED BY <2>1, GroupedLess, SMT
<1> QED BY <1>3 DEF GInv

\* An order joins its group without a position of its own.
LEMMA GroupsSubmit ==
    ASSUME GInv, NEW id \in ClientOrderIds, NEW position_id \in SubmitPositionIds \cup {None},
           NEW sent, SubmitOrder(id, position_id, sent)
    PROVE  GInv'
<1> DEFINE order == NewOrder(OrderInit[id].order_type, OrderInit[id].quantity, FALSE)
           spawn == OrderInit[id].exec_spawn_id
           w == [cache EXCEPT
                   !.orders = WithEntry(@, id, order),
                   !.orders_active_local = IF is_active_local(order) THEN @ \cup {id} ELSE @,
                   !.orders_emulated = IF order.emulation_trigger THEN @ \cup {id} ELSE @,
                   !.exec_spawn_orders = [s \in ClientOrderIds |->
                                            IF s = spawn THEN @[s] \cup {id} ELSE @[s]]]
           a == add_order(cache, id, order, position_id)
           e == [type |-> "Denied", venue_order_id |-> None]
           G == Assigned(history)
<1>1. OInv'
  BY OrdersSubmit DEF GInv
<1>2. /\ id \notin DOMAIN cache.orders
      /\ cache.order_position[id] = None
      /\ DOMAIN cache = CacheFields
      /\ DOMAIN history = HistoryFields
      /\ Follows(cache)
  BY DEF SubmitOrder, GInv, OInv, Follows
<1>3. /\ history'.submitted = history.submitted \cup {id}
      /\ history'.renewed = history.renewed
  BY <1>2 DEF SubmitOrder, HistoryFields
<1>4. cache' = a \/ cache' = update_order(a, id, e)
  BY DEF SubmitOrder
<1>5. order.position_id = None
  BY DEF NewOrder
<1>6. /\ Follows(a)
      /\ DOMAIN a.orders = DOMAIN cache.orders \cup {id}
  BY <1>2, FollowsAdded
<1> HIDE DEF order, G
<1>7. /\ a.orders = WithEntry(cache.orders, id, order)
      /\ a.exec_spawn_orders = [s \in ClientOrderIds |->
                                  IF s = spawn THEN cache.exec_spawn_orders[s] \cup {id}
                                  ELSE cache.exec_spawn_orders[s]]
      /\ a.order_position = IF position_id = None THEN cache.order_position
                            ELSE [cache.order_position EXCEPT ![id] = position_id]
  <2>1. a = IF position_id = None THEN w ELSE add_position_id(w, position_id, id)
    BY DEF add_order
  <2> HIDE DEF a
  <2>2. /\ DOMAIN w = CacheFields
        /\ w.orders = WithEntry(cache.orders, id, order)
        /\ w.exec_spawn_orders = [s \in ClientOrderIds |->
                                    IF s = spawn THEN cache.exec_spawn_orders[s] \cup {id}
                                    ELSE cache.exec_spawn_orders[s]]
        /\ w.order_position = cache.order_position
    BY <1>2 DEF CacheFields
  <2> HIDE DEF w
  <2> QED BY <2>1, <2>2 DEF add_position_id, CacheFields
<1> HIDE DEF a
<1>8. /\ \A y \in DOMAIN cache.orders : a.orders[y] = cache.orders[y]
      /\ a.orders[id].position_id = None
      /\ DOMAIN a.order_position = OrderIds
      /\ DOMAIN a.exec_spawn_orders = ClientOrderIds
      /\ \A y \in OrderIds : y # id => a.order_position[y] = cache.order_position[y]
      /\ a.order_position[id] \in SubmitPositionIds \cup {None}
      /\ \A s \in ClientOrderIds :
            a.exec_spawn_orders[s] = IF s = spawn THEN cache.exec_spawn_orders[s] \cup {id}
                                     ELSE cache.exec_spawn_orders[s]
  <2>1. /\ \A y \in DOMAIN cache.orders : a.orders[y] = cache.orders[y]
        /\ a.orders[id].position_id = None
    BY <1>2, <1>5, <1>7 DEF WithEntry
  <2>2. /\ DOMAIN a.order_position = OrderIds
        /\ \A y \in OrderIds : y # id => a.order_position[y] = cache.order_position[y]
        /\ a.order_position[id] \in SubmitPositionIds \cup {None}
    BY <1>2, <1>7 DEF GInv, Grouped, OrderIds
  <2>3. /\ DOMAIN a.exec_spawn_orders = ClientOrderIds
        /\ \A s \in ClientOrderIds :
              a.exec_spawn_orders[s] = IF s = spawn THEN cache.exec_spawn_orders[s] \cup {id}
                                       ELSE cache.exec_spawn_orders[s]
    BY <1>7
  <2> QED BY <2>1, <2>2, <2>3
<1>9. Grouped(a, G)
  <2>1. ASSUME NEW s \in ClientOrderIds
        PROVE  \E x : Shares(a, G, s, x)
    <3>1. PICK x : Shares(cache, G, s, x)
      BY DEF GInv, Grouped, G
    <3>2. \A y \in cache.exec_spawn_orders[s] : y \in DOMAIN cache.orders /\ y \in OrderIds /\ y # id
      BY <1>2, <3>1, SMT DEF Shares, GInv, Grouped, OrderIds
    <3>3. a.order_position[id] \in G
      BY <1>8 DEF G, Assigned
    <3>4. None \in G
      BY DEF G, Assigned
    <3>5. a.exec_spawn_orders[s] \subseteq cache.exec_spawn_orders[s] \cup {id}
      BY <1>8
    <3>6. id \in a.exec_spawn_orders[s] => OrderInit[id].exec_spawn_id = s
      BY <1>8, <3>2
    <3>7. Shares(a, G, s, x)
      BY <1>6, <1>8, <3>1, <3>2, <3>3, <3>4, <3>5, <3>6 DEF Shares
    <3> QED BY <3>7
  <2> QED BY <1>6, <1>8, <2>1 DEF Grouped, GInv
<1> HIDE DEF e
<1>10. /\ DOMAIN cache'.orders = DOMAIN a.orders
       /\ cache'.order_position = a.order_position
       /\ cache'.exec_spawn_orders = a.exec_spawn_orders
       /\ \A y \in DOMAIN a.orders : cache'.orders[y].position_id = a.orders[y].position_id
  <2>1. CASE cache' = a
    BY <2>1
  <2>2. CASE cache' = update_order(a, id, e)
    <3>1. e.type # "Filled"
      BY DEF e
    <3>2. Follows(a) /\ id \in DOMAIN a.orders
      BY <1>6
    <3> DEFINE u == update_order(a, id, e)
    <3>3. /\ u.order_position = a.order_position
          /\ u.exec_spawn_orders = a.exec_spawn_orders
          /\ DOMAIN u.orders = DOMAIN a.orders
          /\ \A y \in DOMAIN a.orders : y # id => u.orders[y] = a.orders[y]
          /\ u.orders[id].position_id = a.orders[id].position_id
      <4>1. UpdatedAt(a, id, e, u)
        BY <3>2, UpdatedGroups
      <4> HIDE DEF u
      <4> QED BY <3>1, <4>1 DEF UpdatedAt
    <3> HIDE DEF u
    <3>4. cache' = u
      BY <2>2 DEF u
    <3> QED BY <3>3, <3>4
  <2> QED BY <1>4, <2>1, <2>2
<1>11. Assigned(history') = G
  BY <1>3 DEF Assigned, G
<1>12. Grouped(cache', G)
  <2>1. ASSUME NEW s \in ClientOrderIds
        PROVE  \E x : Shares(cache', G, s, x)
    <3>1. PICK x : Shares(a, G, s, x)
      BY <1>9 DEF Grouped
    <3>2. Shares(cache', G, s, x)
      BY <1>10, <3>1 DEF Shares
    <3> QED BY <3>2
  <2> QED BY <1>9, <1>10, <2>1 DEF Grouped
<1>13. \A y \in ClientOrderIds \ history'.submitted : cache'.order_position[y] = None
  BY <1>3, <1>8, <1>10 DEF GInv, OrderIds
<1> QED BY <1>1, <1>11, <1>12, <1>13 DEF GInv

LEMMA GroupsEvent ==
    ASSUME GInv, NEW event \in Events, HandleEvent(event)
    PROVE  GInv'
<1> DEFINE id == Resolved(event)
<1>1. id \in DOMAIN cache.orders /\ Follows(cache)
  BY ResolvedExists DEF HandleEvent, GInv, OInv
<1>2. cache' = update_order(cache, id, event) /\ history' = history
  BY DEF HandleEvent
<1>3. event.type # "Filled"
  BY ExecEngineAssumption DEF Events
<1> HIDE DEF id
<1>4. /\ cache'.order_position = cache.order_position
      /\ cache'.exec_spawn_orders = cache.exec_spawn_orders
      /\ DOMAIN cache'.orders = DOMAIN cache.orders
      /\ \A x \in DOMAIN cache.orders : cache'.orders[x].position_id = cache.orders[x].position_id
  <2> DEFINE u == update_order(cache, id, event)
  <2>1. /\ u.order_position = cache.order_position
        /\ u.exec_spawn_orders = cache.exec_spawn_orders
        /\ DOMAIN u.orders = DOMAIN cache.orders
        /\ \A y \in DOMAIN cache.orders : y # id => u.orders[y] = cache.orders[y]
        /\ u.orders[id].position_id = cache.orders[id].position_id
    <3>1. UpdatedAt(cache, id, event, u)
      BY <1>1, <1>3, UpdatedGroups
    <3> HIDE DEF u
    <3> QED BY <1>1, <1>3, <3>1 DEF UpdatedAt
  <2>2. cache' = u
    BY <1>2
  <2> HIDE DEF u
  <2> QED BY <2>1, <2>2
<1>5. \A s \in ClientOrderIds : cache.exec_spawn_orders[s] \subseteq DOMAIN cache.orders
  BY DEF GInv, Grouped, Shares
<1>6. OInv'
  BY OrdersEvent DEF GInv
<1>7. Assigned(history) \subseteq Assigned(history') /\ history'.submitted = history.submitted
  BY <1>2
<1> QED BY <1>4, <1>5, <1>6, <1>7, GroupsUnmoved DEF GInv, Grouped

LEMMA GroupsPurgeOrder ==
    ASSUME GInv, NEW id \in ClientOrderIds, PurgeClosedOrder(id)
    PROVE  GInv'
<1>1. /\ cache' = purge_order(cache, id)
      /\ history' = history
      /\ DOMAIN cache = CacheFields
  BY DEF PurgeClosedOrder, GInv, OInv, Follows
<1>2. /\ cache'.orders = WithoutEntry(cache.orders, id)
      /\ cache'.order_position = [cache.order_position EXCEPT ![id] = None]
      /\ cache'.exec_spawn_orders =
            [s \in ClientOrderIds |->
               IF s = id THEN {}
               ELSE IF s = OrderInit[id].exec_spawn_id THEN cache.exec_spawn_orders[s] \ {id}
               ELSE cache.exec_spawn_orders[s]]
  BY <1>1 DEF purge_order, CacheFields
<1>3. /\ DOMAIN cache'.orders = DOMAIN cache.orders \ {id}
      /\ \A y \in DOMAIN cache.orders : y # id => cache'.orders[y] = cache.orders[y]
  BY <1>2 DEF WithoutEntry
<1>4. \A s \in ClientOrderIds : \A y \in cache.exec_spawn_orders[s] :
         y \in DOMAIN cache.orders /\ OrderInit[y].exec_spawn_id = s
  BY DEF GInv, Grouped, Shares
<1>5. \A s \in ClientOrderIds :
         cache'.exec_spawn_orders[s] \subseteq cache.exec_spawn_orders[s] \ {id}
  BY <1>2, <1>4, SMT
<1>6. OInv'
  BY OrdersPurgeOrder DEF GInv
<1>7. Assigned(history) \subseteq Assigned(history') /\ history'.submitted = history.submitted
  BY <1>1
<1>8. /\ DOMAIN cache'.order_position = OrderIds
      /\ DOMAIN cache'.exec_spawn_orders = ClientOrderIds
      /\ \A y \in ClientOrderIds : cache'.order_position[y] \in {cache.order_position[y], None}
  BY <1>2 DEF GInv, Grouped, OrderIds
<1> QED BY <1>3, <1>4, <1>5, <1>6, <1>7, <1>8, GroupsUnmoved

LEMMA GroupsPurgePosition ==
    ASSUME GInv, NEW position_id, PurgeClosedPosition(position_id)
    PROVE  GInv'
<1>1. /\ cache' = purge_position(cache, position_id)
      /\ history' = history
      /\ DOMAIN cache = CacheFields
  BY DEF PurgeClosedPosition, GInv, OInv, Follows
<1>2. /\ cache'.orders = cache.orders
      /\ cache'.exec_spawn_orders = cache.exec_spawn_orders
      /\ DOMAIN cache'.order_position = OrderIds
      /\ \A y \in OrderIds : cache'.order_position[y] \in {cache.order_position[y], None}
  BY <1>1 DEF purge_position, CacheFields
<1>3. \A s \in ClientOrderIds : cache.exec_spawn_orders[s] \subseteq DOMAIN cache.orders
  BY DEF GInv, Grouped, Shares
<1>4. OInv'
  BY OrdersPurgePosition DEF GInv
<1>5. Assigned(history) \subseteq Assigned(history') /\ history'.submitted = history.submitted
  BY <1>1
<1> QED BY <1>2, <1>3, <1>4, <1>5, GroupsUnmoved DEF GInv, Grouped, OrderIds

\* The fill of an order: its group, if it is in one, may have the position it went to.
LEMMA GroupsFill ==
    ASSUME OmsType = "Hedging", PlainSpawns, GInv, NEW event \in Fills, HandleFill(event)
    PROVE  GInv'
<1> DEFINE id == Resolved(event)
           routed == [event EXCEPT !.client_order_id = id]
           G == Assigned(history)
           H == Assigned(history')
<1>1. id \in DOMAIN cache.orders /\ id \in ClientOrderIds
  BY ResolvedExists DEF HandleFill, GInv, Grouped
<1>2. PICK d \in determine_position_id(cache, count, routed) :
        LET fill == [routed EXCEPT !.position_id = d.position_id]
            r == handle_order_fill(update_order(d.cache, id, fill), d.count, fill)
        IN IF validate_fill_for_order(d.cache, fill) /\ Accepts(d.cache, id, fill)
           THEN cache' = r.cache /\ count' = r.count /\ Traded(fill, r.booked)
           ELSE cache' = d.cache /\ count' = d.count /\ Refused(d.cache, fill)
  BY DEF HandleFill
<1> DEFINE fill == [routed EXCEPT !.position_id = d.position_id]
           b == d.cache
           p == d.position_id
           u == update_order(b, id, fill)
           r == handle_order_fill(u, d.count, fill)
<1>3. /\ routed.client_order_id = id
      /\ routed.position_id \in VenuePositionIds \cup {None}
      /\ fill.client_order_id = id
      /\ fill.position_id = p
      /\ fill.type = "Filled"
      /\ "client_order_id" \in DOMAIN fill
  BY DEF Fills
<1>4. /\ Follows(b)
      /\ DOMAIN b.orders = DOMAIN cache.orders
  BY FollowsDetermined, SMT DEF GInv, OInv
<1>5. None \in G /\ VenuePositionIds \subseteq G
  BY DEF Assigned
<1> HIDE DEF id, routed
<1>6. /\ Grouped(b, G)
      /\ b.exec_spawn_orders = cache.exec_spawn_orders
      /\ \A x \in OrderIds \ DOMAIN cache.orders : b.order_position[x] = cache.order_position[x]
      /\ \A s \in ClientOrderIds : id \in cache.exec_spawn_orders[s] =>
            \E x : Shares(b, G, s, x) /\ p \in G \cup {x}
  <2>1. Grouped(cache, G) /\ Follows(cache)
    BY DEF GInv, OInv
  <2>2. d \in determine_position_id(cache, count, routed)
    BY <1>2
  <2>3. routed.client_order_id \in ClientOrderIds
    BY <1>1, <1>3
  <2> HIDE DEF G, b, p, fill
  <2>4. /\ Grouped(d.cache, G)
        /\ d.cache.exec_spawn_orders = cache.exec_spawn_orders
        /\ \A x \in OrderIds \ DOMAIN cache.orders :
              d.cache.order_position[x] = cache.order_position[x]
        /\ \A s \in ClientOrderIds : routed.client_order_id \in cache.exec_spawn_orders[s] =>
              \E x : Shares(d.cache, G, s, x) /\ d.position_id \in G \cup {x}
    BY <1>3, <1>5, <2>1, <2>2, <2>3, DeterminedGroups
  <2> QED BY <1>3, <2>4 DEF b, p
<1>7. OInv'
  BY OrdersFill DEF GInv
<1>8. \A y \in ClientOrderIds \ history.submitted :
         y \in OrderIds \ DOMAIN cache.orders /\ cache.order_position[y] = None
  BY DEF GInv, OInv, OrderIds
<1> HIDE DEF b, p, fill, G, H
<1>9. CASE validate_fill_for_order(b, fill) /\ Accepts(b, id, fill)
  <2>1. cache' = r.cache /\ Traded(fill, r.booked)
    BY <1>2, <1>9 DEF fill, b
  <2>2. /\ u.order_position = b.order_position
        /\ u.exec_spawn_orders = b.exec_spawn_orders
        /\ DOMAIN u.orders = DOMAIN b.orders
        /\ \A x \in DOMAIN b.orders : x # id => u.orders[x] = b.orders[x]
        /\ u.orders[id].position_id = p
    <3>1. id \in DOMAIN b.orders
      BY <1>1, <1>4
    <3>2. Follows(b)
      BY <1>4
    <3>3. UpdatedAt(b, id, fill, u)
      BY <3>1, <3>2, UpdatedGroups
    <3> HIDE DEF u
    <3> QED BY <1>3, <1>9, <3>3 DEF UpdatedAt
  <2>3. Follows(u)
    BY <1>1, <1>4, FollowsUpdated
  <2> HIDE DEF u
  <2>4. DOMAIN u.order_position = OrderIds
    BY <1>6, <2>2 DEF Grouped
  <2> DEFINE z == r.cache
  <2>5. /\ DOMAIN z.orders = DOMAIN u.orders
        /\ DOMAIN z.order_position = OrderIds
        /\ z.exec_spawn_orders = u.exec_spawn_orders
        /\ \A y \in DOMAIN u.orders :
              OrderInit[y].exec_spawn_id # None => z.orders[y] = u.orders[y]
        /\ \A y \in OrderIds \ {id} :
              y \notin DOMAIN u.orders \/ OrderInit[y].exec_spawn_id # None =>
                 z.order_position[y] = u.order_position[y]
    <3>1. FilledAt(u, id, z)
      BY <1>1, <1>3, <2>3, <2>4, FilledGroups
    <3> HIDE DEF z
    <3> QED BY <3>1 DEF FilledAt
  <2>6. cache' = z
    BY <2>1
  <2>7. /\ G \subseteq H
        /\ history'.submitted = history.submitted
        /\ cache'.order_position[id] \in H \cup {p}
    BY <1>3, <2>1, TradedAssigned DEF G, H
  <2> HIDE DEF z, r
  <2>8. ASSUME NEW s \in ClientOrderIds
        PROVE  \E x : Shares(z, H, s, x)
    <3>1. PICK x : Shares(b, G, s, x) /\ (id \in b.exec_spawn_orders[s] => p \in G \cup {x})
      BY <1>6 DEF Grouped
    <3>2. s # None
      BY CacheAssumption
    <3>3. \A y \in b.exec_spawn_orders[s] :
             /\ y \in DOMAIN b.orders
             /\ y \in OrderIds
             /\ OrderInit[y].exec_spawn_id = s
             /\ y # id => /\ z.orders[y] = b.orders[y]
                          /\ z.order_position[y] = b.order_position[y]
      <4> SUFFICES ASSUME NEW y \in b.exec_spawn_orders[s]
                   PROVE  /\ y \in DOMAIN b.orders /\ y \in OrderIds
                          /\ OrderInit[y].exec_spawn_id = s
                          /\ y # id => /\ z.orders[y] = b.orders[y]
                                       /\ z.order_position[y] = b.order_position[y]
        OBVIOUS
      <4>1. y \in DOMAIN b.orders /\ OrderInit[y].exec_spawn_id = s
        BY <3>1 DEF Shares
      <4>2. y \in OrderIds
        BY <1>6, <4>1 DEF Grouped, OrderIds
      <4>3. y \in DOMAIN u.orders /\ OrderInit[y].exec_spawn_id # None
        BY <2>2, <3>2, <4>1
      <4> QED BY <2>2, <2>5, <4>1, <4>2, <4>3
    <3>4. id \in b.exec_spawn_orders[s] =>
             /\ z.orders[id].position_id = p
             /\ z.order_position[id] \in H \cup {p}
      BY <2>2, <2>5, <2>6, <2>7, <3>2, <3>3
    <3>5. Shares(z, H, s, x)
      <4>1. z.exec_spawn_orders[s] = b.exec_spawn_orders[s] /\ DOMAIN z.orders = DOMAIN b.orders
        BY <2>2, <2>5
      <4>2. ASSUME NEW y \in b.exec_spawn_orders[s], y # id
            PROVE  /\ z.orders[y].position_id \in H \cup {x}
                   /\ z.order_position[y] \in H \cup {x}
                   /\ z.orders[y].position_id = None => z.order_position[y] \in H
        BY <2>7, <3>1, <3>3, <4>2 DEF Shares
      <4>3. ASSUME id \in b.exec_spawn_orders[s]
            PROVE  /\ z.orders[id].position_id \in H \cup {x}
                   /\ z.order_position[id] \in H \cup {x}
                   /\ z.orders[id].position_id = None => z.order_position[id] \in H
        BY <1>5, <2>7, <3>1, <3>4, <4>3
      <4> QED BY <3>3, <4>1, <4>2, <4>3 DEF Shares
    <3> QED BY <3>5
  <2>9. Grouped(z, H)
    BY <1>6, <2>2, <2>5, <2>8 DEF Grouped
  <2>10. \A y \in ClientOrderIds \ history.submitted : z.order_position[y] = None
    <3> SUFFICES ASSUME NEW y \in ClientOrderIds \ history.submitted
                 PROVE  z.order_position[y] = None
      OBVIOUS
    <3>1. y \in OrderIds /\ y \notin DOMAIN b.orders /\ y # id
      BY <1>1, <1>4, <1>8
    <3>2. b.order_position[y] = None
      BY <1>6, <1>8
    <3> QED BY <2>2, <2>5, <3>1, <3>2
  <2> QED BY <1>7, <2>6, <2>7, <2>9, <2>10 DEF GInv, H
<1>10. CASE ~(validate_fill_for_order(b, fill) /\ Accepts(b, id, fill))
  <2>1. cache' = b /\ Refused(b, fill)
    BY <1>2, <1>10 DEF fill, b
  <2>2. /\ history'.renewed = history.renewed
        /\ history'.submitted = history.submitted
    BY <2>1 DEF Refused, GInv, OInv, HistoryFields
  <2>3. H = G
    BY <2>2 DEF G, H, Assigned
  <2>4. \A y \in ClientOrderIds \ history.submitted : b.order_position[y] = None
    BY <1>6, <1>8
  <2> QED BY <1>6, <1>7, <2>1, <2>2, <2>3, <2>4 DEF GInv, H
<1> QED BY <1>9, <1>10

\* A leg fill indexes a leg, which is in no group.
LEMMA GroupsLegFill ==
    ASSUME GInv, NEW event \in LegFills, HandleLegFill(event)
    PROVE  GInv'
<1> DEFINE d == determine_leg_fill_position_id(cache, count, event)
           fill == [event EXCEPT !.position_id = d[1]]
           r == handle_position_update(cache, d[2], fill)
<1>1. OInv'
  BY OrdersLegFill DEF GInv
<1>2. \/ UNCHANGED <<cache, history>>
      \/ cache' = r.cache /\ Traded(fill, r.booked)
  BY DEF HandleLegFill
<1>3. CASE UNCHANGED <<cache, history>>
  BY <1>1, <1>3 DEF GInv
<1>4. CASE cache' = r.cache /\ Traded(fill, r.booked)
  <2>1. fill.client_order_id \in LegOrderIds /\ "client_order_id" \in DOMAIN fill
    BY DEF LegFills
  <2>2. DOMAIN cache = CacheFields
    BY DEF GInv, OInv, Follows
  <2> HIDE DEF fill, d
  <2>3. IndexedAt(cache, r.cache, fill.client_order_id)
    BY <2>1, <2>2, PositionUpdateIndexes
  <2> HIDE DEF r
  <2>4. /\ cache'.orders = cache.orders
        /\ cache'.exec_spawn_orders = cache.exec_spawn_orders
        /\ DOMAIN cache'.order_position = OrderIds
        /\ \A y \in ClientOrderIds : cache'.order_position[y] = cache.order_position[y]
    BY <1>4, <2>1, <2>3, CacheAssumption DEF IndexedAt, GInv, Grouped, OrderIds
  <2>5. Assigned(history) \subseteq Assigned(history') /\ history'.submitted = history.submitted
    BY <1>4, TradedAssigned
  <2>6. \A s \in ClientOrderIds : cache.exec_spawn_orders[s] \subseteq DOMAIN cache.orders
    BY DEF GInv, Grouped, Shares
  <2> QED BY <1>1, <2>4, <2>5, <2>6, GroupsUnmoved DEF GInv, Grouped
<1> QED BY <1>2, <1>3, <1>4

LEMMA GroupsNext ==
    ASSUME OmsType = "Hedging", PlainSpawns, GInv, [Next]_vars
    PROVE  GInv'
<1>1. CASE RegisterAccount
  <2>1. UNCHANGED <<cache, history>>
    BY <1>1 DEF RegisterAccount
  <2> QED BY <2>1 DEF GInv, OInv
<1>2. ASSUME NEW id \in ClientOrderIds, NEW position_id \in SubmitPositionIds \cup {None},
             NEW sent \in BOOLEAN, SubmitOrder(id, position_id, sent)
      PROVE  GInv'
  BY <1>2, GroupsSubmit
<1>3. ASSUME NEW event \in Events, HandleEvent(event)
      PROVE  GInv'
  BY <1>3, GroupsEvent
<1>4. ASSUME NEW event \in Fills, HandleFill(event)
      PROVE  GInv'
  BY <1>4, GroupsFill
<1>5. ASSUME NEW event \in LegFills, HandleLegFill(event)
      PROVE  GInv'
  BY <1>5, GroupsLegFill
<1>6. ASSUME NEW id \in ClientOrderIds, PurgeClosedOrder(id)
      PROVE  GInv'
  BY <1>6, GroupsPurgeOrder
<1>7. ASSUME NEW position_id \in PositionIds, PurgeClosedPosition(position_id)
      PROVE  GInv'
  BY <1>7, GroupsPurgePosition
<1>8. CASE UNCHANGED vars
  BY <1>8 DEF vars, GInv, OInv
<1> QED BY <1>1, <1>2, <1>3, <1>4, <1>5, <1>6, <1>7, <1>8 DEF Next

\* The orders of an execution spawn share one position, whatever the number of orders and
\* groups, whichever fills first, whatever is refused, flipped or purged in between.
THEOREM SpawnsAlwaysShare ==
    ASSUME PlainSpawns
    PROVE  Spec => []SpawnSharesPosition
<1>1. CASE OmsType = "Hedging"
  <2>1. GInv => SpawnSharesPosition
    BY SMT DEF GInv, Grouped, Shares, Assigned, SpawnSharesPosition
  <2>2. GInv /\ [Next]_vars => GInv'
    BY <1>1, GroupsNext
  <2> QED BY <2>1, <2>2, GroupsInit, PTL DEF Spec
<1>2. CASE OmsType # "Hedging"
  <2>1. SpawnSharesPosition
    BY <1>2 DEF SpawnSharesPosition
  <2> QED BY <2>1, PTL
<1> QED BY <1>1, <1>2

-----------------------------------------------------------------------------
(***************************************************************************)
(* The books of all positions together, with NETTING and with HEDGING.     *)
(* What a fill adds to the sum is what it adds to one position, unless a   *)
(* flip writes over a position that holds something under the new id.      *)
(* That is what the invariant excludes: no position, no order and no index *)
(* has a generated id with a number that was not given out yet.            *)
(***************************************************************************)
Known(n) == {p \in PositionIds : is_virtual(p) => \E k \in 1 .. n : p = Generated(k)}

KnownIn(c, n) ==
    /\ DOMAIN c.positions \subseteq Known(n)
    /\ DOMAIN c.order_position = OrderIds
    /\ \A id \in OrderIds : c.order_position[id] \in Known(n) \cup {None}
    /\ \A id \in DOMAIN c.orders : c.orders[id].position_id \in Known(n) \cup {None}
    /\ DOMAIN c.exec_spawn_orders = ClientOrderIds
    /\ \A s \in ClientOrderIds : \A id \in c.exec_spawn_orders[s] :
          id \in DOMAIN c.orders /\ OrderInit[id].exec_spawn_id = s

\* An order is submitted with a generated position id only after the id was generated.
KnownIds ==
    \A id \in ClientOrderIds, position_id \in SubmitPositionIds, sent \in BOOLEAN :
        SubmitOrder(id, position_id, sent) => position_id \in Known(count)

Books(c) == SumFunction([id \in PositionIds |-> Held(c, id)])

\* Ids that are known stay known, a generated one is, and the next one is not.
LEMMA KnownMore ==
    ASSUME NEW n \in Nat
    PROVE  /\ Known(n) \subseteq Known(n + 1)
           /\ n + 1 <= MaxCount => Generated(n + 1) \in Known(n + 1)
           /\ Generated(n + 1) \notin Known(n)
           /\ NetId \in Known(n)
           /\ VenuePositionIds \subseteq Known(n)
<1>1. \A i, j \in Nat : Generated(i) = Generated(j) => i = j
  BY DEF Generated
<1>2. \A k \in Nat : is_virtual(Generated(k))
  BY DEF is_virtual, Generated
<1>3. ~is_virtual(NetId)
  BY DEF is_virtual, NetId
<1>4. /\ NetId \in PositionIds
      /\ VenuePositionIds \subseteq PositionIds
      /\ \A p \in VenuePositionIds : ~is_virtual(p)
      /\ n + 1 <= MaxCount => Generated(n + 1) \in PositionIds
      /\ MaxCount \in Nat
  BY ExecEngineAssumption, SMT
<1> HIDE DEF Generated
<1>5. \A k \in 1 .. n : k \in 1 .. (n + 1) /\ k \in Nat /\ k # n + 1
  BY SMT
<1>6. n + 1 \in 1 .. (n + 1) /\ n + 1 \in Nat
  BY SMT
<1> QED BY <1>1, <1>2, <1>3, <1>4, <1>5, <1>6 DEF Known

\* There are finitely many position ids.
LEMMA IdsFinite == IsFiniteSet(PositionIds)
<1> DEFINE G == {Generated(k) : k \in 1 .. MaxCount}
<1>1. MaxCount \in Nat /\ IsFiniteSet(VenuePositionIds)
      /\ PositionIds = {NetId} \cup VenuePositionIds \cup G
  BY ExecEngineAssumption
<1>2. IsFiniteSet(1 .. MaxCount)
  BY <1>1, FS_Interval, SMT
<1>3. IsFiniteSet(G)
  <2> DEFINE f == [k \in 1 .. MaxCount |-> Generated(k)]
  <2>1. f \in Surjection(1 .. MaxCount, G)
    BY DEF Surjection
  <2> QED BY <1>2, <2>1, FS_Surjection, SMT
<1>4. IsFiniteSet({NetId})
  BY FS_Singleton
<1> HIDE DEF G
<1>5. IsFiniteSet({NetId} \cup VenuePositionIds)
  BY <1>1, <1>4, FS_Union
<1> QED BY <1>1, <1>3, <1>5, FS_Union

\* The books are an integer, and the same for the same positions.
LEMMA BooksType ==
    ASSUME NEW c, Consistent(c)
    PROVE  Books(c) \in Int
<1> DEFINE w == [id \in PositionIds |-> Held(c, id)]
<1>1. \A x \in PositionIds : w[x] \in Int
  BY HeldType
<1>2. DOMAIN w = PositionIds
  OBVIOUS
<1> HIDE DEF w
<1>3. SumFunctionOnSet(w, PositionIds) \in Int
  BY <1>1, IdsFinite, SumType
<1> QED BY <1>2, <1>3 DEF Books, SumFunction, w

\* One position changes.
LEMMA BooksChanged ==
    ASSUME NEW c, Consistent(c), NEW r, Consistent(r), NEW a \in PositionIds,
           \A x \in PositionIds : x # a => Held(r, x) = Held(c, x)
    PROVE  Books(r) = Books(c) + Held(r, a) - Held(c, a)
<1> DEFINE w == [id \in PositionIds |-> Held(c, id)]
           v == [id \in PositionIds |-> Held(r, id)]
<1>1. /\ \A x \in PositionIds : w[x] \in Int /\ v[x] \in Int
      /\ \A x \in PositionIds \ {a} : w[x] = v[x]
      /\ DOMAIN w = PositionIds /\ DOMAIN v = PositionIds
      /\ w[a] = Held(c, a) /\ v[a] = Held(r, a)
  BY HeldType
<1>2. Books(c) = SumFunctionOnSet(w, PositionIds) /\ Books(r) = SumFunctionOnSet(v, PositionIds)
  BY DEF Books, SumFunction
<1> HIDE DEF w, v
<1>3. SumFunctionOnSet(v, PositionIds) = SumFunctionOnSet(w, PositionIds) + v[a] - w[a]
  BY <1>1, IdsFinite, SumChanged, SMT
<1> QED BY <1>1, <1>2, <1>3

\* A position's quantity moves to another one that held nothing, and changes by d.
LEMMA BooksMoved ==
    ASSUME NEW c, Consistent(c), NEW r, Consistent(r), NEW a \in PositionIds,
           NEW b \in PositionIds, NEW d \in Int,
           \A x : x \notin {a, b} => Held(r, x) = Held(c, x),
           a # b => Held(r, a) = 0 /\ Held(c, b) = 0,
           Held(r, b) = Held(c, a) + d
    PROVE  Books(r) = Books(c) + d
<1>1. \A x : Held(c, x) \in Int /\ Held(r, x) \in Int
  BY HeldType
<1>2. Books(c) \in Int
  BY BooksType
<1>3. CASE a = b
  <2>1. Books(r) = Books(c) + Held(r, b) - Held(c, b)
    BY <1>3, BooksChanged
  <2> QED BY <1>1, <1>2, <1>3, <2>1, SMT
<1>4. CASE a # b
  <2> DEFINE w == [id \in PositionIds |-> Held(c, id)]
             v == [id \in PositionIds |-> Held(r, id)]
             m == [w EXCEPT ![a] = 0]
  <2>1. /\ \A x \in PositionIds : w[x] \in Int /\ v[x] \in Int
        /\ DOMAIN w = PositionIds /\ DOMAIN v = PositionIds
        /\ w[a] = Held(c, a) /\ w[b] = Held(c, b) /\ v[a] = Held(r, a) /\ v[b] = Held(r, b)
        /\ \A x \in PositionIds \ {a, b} : v[x] = w[x]
    BY <1>1
  <2>2. Books(c) = SumFunctionOnSet(w, PositionIds) /\ Books(r) = SumFunctionOnSet(v, PositionIds)
    BY DEF Books, SumFunction
  <2> HIDE DEF w, v
  <2>3. /\ \A x \in PositionIds : m[x] \in Int
        /\ \A x \in PositionIds \ {a} : w[x] = m[x]
        /\ \A x \in PositionIds \ {b} : m[x] = v[x]
        /\ m[a] = 0 /\ m[b] = 0
    BY <1>4, <2>1
  <2> HIDE DEF m
  <2>4. SumFunctionOnSet(m, PositionIds) = SumFunctionOnSet(w, PositionIds) + m[a] - w[a]
    <3>1. \A x \in PositionIds : w[x] \in Int /\ m[x] \in Int
      BY <2>1, <2>3
    <3>2. \A x \in PositionIds \ {a} : w[x] = m[x]
      BY <2>3
    <3> QED BY <3>1, <3>2, IdsFinite, SumChanged, SMT
  <2>5. SumFunctionOnSet(v, PositionIds) = SumFunctionOnSet(m, PositionIds) + v[b] - m[b]
    <3>1. \A x \in PositionIds : m[x] \in Int /\ v[x] \in Int
      BY <2>1, <2>3
    <3>2. \A x \in PositionIds \ {b} : m[x] = v[x]
      BY <2>3
    <3> QED BY <3>1, <3>2, IdsFinite, SumChanged, SMT
  <2> QED BY <1>1, <1>2, <2>1, <2>2, <2>3, <2>4, <2>5, SMT
<1> QED BY <1>3, <1>4

\* The same positions hold the same.
LEMMA BooksSame ==
    ASSUME NEW c, NEW r, r.positions = c.positions
    PROVE  Books(r) = Books(c)
<1>1. \A x : Held(r, x) = Held(c, x)
  BY DEF Held, has_position
<1>2. [id \in PositionIds |-> Held(r, id)] = [id \in PositionIds |-> Held(c, id)]
  BY <1>1
<1> QED BY <1>2 DEF Books

-----------------------------------------------------------------------------
\* A smaller number of ids is known, so all of them stay known.
LEMMA KnownInMore ==
    ASSUME NEW c, NEW n \in Nat, KnownIn(c, n)
    PROVE  KnownIn(c, n + 1)
BY KnownMore DEF KnownIn

\* An operation that changes no order, but may open a position and index orders with it.
LEMMA KnownOpened ==
    ASSUME NEW c, NEW n, KnownIn(c, n), NEW r, NEW a \in Known(n),
           DOMAIN r.positions \subseteq DOMAIN c.positions \cup {a},
           DOMAIN r.order_position = OrderIds,
           \A o \in OrderIds : r.order_position[o] \in {c.order_position[o], a},
           r.orders = c.orders,
           r.exec_spawn_orders = c.exec_spawn_orders
    PROVE  KnownIn(r, n)
BY DEF KnownIn

\* An operation that gives orders, and their indexes, a known position.
LEMMA KnownGiven ==
    ASSUME NEW c, NEW n, KnownIn(c, n), NEW r, NEW a \in Known(n) \cup {None},
           r.positions = c.positions,
           DOMAIN r.order_position = OrderIds,
           \A o \in OrderIds : r.order_position[o] \in {c.order_position[o], a},
           DOMAIN r.orders = DOMAIN c.orders,
           \A o \in DOMAIN c.orders : r.orders[o].position_id \in {c.orders[o].position_id, a},
           r.exec_spawn_orders = c.exec_spawn_orders
    PROVE  KnownIn(r, n)
BY DEF KnownIn

\* Applying an event to its order.
LEMMA KnownUpdated ==
    ASSUME NEW c, Consistent(c), Follows(c), NEW n, KnownIn(c, n), NEW id \in DOMAIN c.orders,
           NEW e, e.type = "Filled" => e.position_id \in Known(n)
    PROVE  KnownIn(update_order(c, id, e), n)
<1> DEFINE r == update_order(c, id, e)
           a == IF e.type = "Filled" THEN e.position_id ELSE None
<1>1. /\ r.order_position = c.order_position
      /\ r.exec_spawn_orders = c.exec_spawn_orders
      /\ DOMAIN r.orders = DOMAIN c.orders
      /\ \A x \in DOMAIN c.orders : x # id => r.orders[x] = c.orders[x]
      /\ r.orders[id].position_id =
            IF Accepts(c, id, e) /\ e.type = "Filled" THEN e.position_id
            ELSE c.orders[id].position_id
  <2>1. UpdatedAt(c, id, e, r)
    BY UpdatedGroups
  <2> HIDE DEF r
  <2> QED BY <2>1 DEF UpdatedAt
<1>2. id \in ClientOrderIds
  BY DEF Consistent
<1>3. r.positions = c.positions
  BY <1>2, UpdateOrderFacts DEF OrdersOnly
<1> HIDE DEF r
<1>4. a \in Known(n) \cup {None}
  OBVIOUS
<1>5. \A x \in DOMAIN c.orders : r.orders[x].position_id \in {c.orders[x].position_id, a}
  BY <1>1
<1>6. DOMAIN r.order_position = OrderIds
  BY <1>1 DEF KnownIn
<1> HIDE DEF a
<1>7. KnownIn(r, n)
  BY <1>1, <1>3, <1>4, <1>5, <1>6, KnownGiven
<1> QED BY <1>7 DEF r

\* An order that has a position id has the one it is given.
LEMMA PositionGiven ==
    ASSUME NEW o, "position_id" \in DOMAIN o, NEW a
    PROVE  [o EXCEPT !.position_id = a].position_id = a
OBVIOUS

\* Giving the primary order of a spawn a known position.
LEMMA KnownPropagated ==
    ASSUME NEW c, Consistent(c), Follows(c), NEW n, KnownIn(c, n), NEW a \in Known(n), NEW id
    PROVE  KnownIn(Propagated(c, a, id), n)
<1> DEFINE spawn == OrderInit[id].exec_spawn_id
           w == [c EXCEPT !.orders[spawn].position_id = a]
           r == Propagated(c, a, id)
<1>1. r = c \/ r = add_position_id(w, a, spawn)
  BY DEF Propagated
<1>2. CASE r = add_position_id(w, a, spawn)
  <2>1. /\ DOMAIN w = CacheFields
        /\ w.positions = c.positions
        /\ w.order_position = c.order_position
        /\ w.exec_spawn_orders = c.exec_spawn_orders
        /\ DOMAIN w.orders = DOMAIN c.orders
        /\ \A x \in DOMAIN c.orders :
              w.orders[x] \in {c.orders[x], [c.orders[x] EXCEPT !.position_id = a]}
    BY DEF Consistent, CacheFields
  <2> HIDE DEF w
  <2>2. \A x \in DOMAIN c.orders : w.orders[x].position_id \in {c.orders[x].position_id, a}
    BY <2>1, PositionGiven, SMT DEF Follows, Tracked, OrderFields
  <2>3. /\ r.positions = w.positions
        /\ r.order_position = [w.order_position EXCEPT ![spawn] = a]
        /\ r.exec_spawn_orders = w.exec_spawn_orders
        /\ r.orders = w.orders
    BY <1>2, <2>1 DEF add_position_id, CacheFields
  <2> HIDE DEF r
  <2>4. /\ DOMAIN r.order_position = OrderIds
        /\ \A o \in OrderIds : r.order_position[o] \in {c.order_position[o], a}
    BY <2>1, <2>3 DEF KnownIn
  <2>5. KnownIn(r, n)
    BY <2>1, <2>2, <2>3, <2>4, KnownGiven
  <2> QED BY <2>5 DEF r
<1> QED BY <1>1, <1>2

\* Giving the children of an order its position, if that is open.
LEMMA KnownLinked ==
    ASSUME NEW c, Consistent(c), Follows(c), NEW n, KnownIn(c, n), NEW fill
    PROVE  KnownIn(LinkContingent(c, fill), n)
<1> DEFINE a == fill.position_id
           children == {id \in OrderInit[fill.client_order_id].linked_order_ids :
                           order_exists(c, id) /\ c.orders[id].position_id = None}
           r == LinkContingent(c, fill)
           w == [c EXCEPT
                   !.orders = [id \in DOMAIN c.orders |->
                                 IF id \in children THEN [c.orders[id] EXCEPT !.position_id = a]
                                 ELSE c.orders[id]],
                   !.order_position = [id \in OrderIds |->
                                         IF id \in children THEN a ELSE c.order_position[id]],
                   !.position_orders[a] = @ \cup children]
<1>1. r = c \/ (r = w /\ a \in DOMAIN c.positions)
  BY DEF LinkContingent, Consistent, CacheFields, has_position
<1>2. CASE r = w /\ a \in DOMAIN c.positions
  <2> HIDE DEF children
  <2>1. /\ w.positions = c.positions
        /\ w.exec_spawn_orders = c.exec_spawn_orders
        /\ w.orders = [id \in DOMAIN c.orders |->
                         IF id \in children THEN [c.orders[id] EXCEPT !.position_id = a]
                         ELSE c.orders[id]]
        /\ w.order_position = [id \in OrderIds |->
                                 IF id \in children THEN a ELSE c.order_position[id]]
    BY DEF Consistent, CacheFields
  <2>2. a \in Known(n)
    BY <1>2 DEF KnownIn
  <2> HIDE DEF w, a, r
  <2>3. \A x \in DOMAIN c.orders :
           w.orders[x] \in {c.orders[x], [c.orders[x] EXCEPT !.position_id = a]}
    BY <2>1
  <2>4. /\ DOMAIN w.orders = DOMAIN c.orders
        /\ \A x \in DOMAIN c.orders : w.orders[x].position_id \in {c.orders[x].position_id, a}
        /\ DOMAIN w.order_position = OrderIds
        /\ \A o \in OrderIds : w.order_position[o] \in {c.order_position[o], a}
    BY <2>1, <2>3, PositionGiven, SMT DEF Follows, Tracked, OrderFields
  <2>5. KnownIn(w, n)
    BY <2>1, <2>2, <2>4, KnownGiven
  <2> QED BY <1>2, <2>5 DEF r
<1> QED BY <1>1, <1>2

\* The position id a fill is given is known, counting the one that is generated for it.
LEMMA KnownDetermined ==
    ASSUME NEW c, Consistent(c), Follows(c), NEW n \in Nat, KnownIn(c, n),
           OmsType = "Hedging" => n + 1 <= MaxCount, NEW fill,
           fill.client_order_id \in ClientOrderIds,
           fill.position_id \in VenuePositionIds \cup {None},
           NEW d \in determine_position_id(c, n, fill)
    PROVE  /\ d.count = n \/ (OmsType = "Hedging" /\ d.count = n + 1)
           /\ d.position_id \in Known(d.count)
           /\ KnownIn(d.cache, d.count)
<1> DEFINE id == fill.client_order_id
           spawn == OrderInit[id].exec_spawn_id
           assigned == IF OmsType = "Hedging" THEN determine_hedging_position_id(c, n, fill)
                       ELSE {<<NetId, n>>}
<1>1. CASE c.order_position[id] # None
  <2>1. d = [position_id |-> c.order_position[id], count |-> n, cache |-> c]
    BY <1>1 DEF determine_position_id
  <2>2. d.cache = c /\ d.position_id = c.order_position[id] /\ d.count = n
    BY <2>1
  <2> QED BY <1>1, <2>2 DEF KnownIn, OrderIds
<1>2. CASE c.order_position[id] = None
  <2>1. PICK a \in assigned :
          d = [position_id |-> a[1], count |-> a[2], cache |-> Propagated(c, a[1], id)]
    BY <1>2 DEF determine_position_id
  <2>2. d.position_id = a[1] /\ d.cache = Propagated(c, a[1], id) /\ d.count = a[2]
    BY <2>1
  <2>3. /\ a[2] = n \/ (OmsType = "Hedging" /\ a[2] = n + 1)
        /\ a[1] \in Known(a[2])
    <3>1. CASE OmsType # "Hedging"
      <4>1. a = <<NetId, n>>
        BY <3>1
      <4> QED BY <4>1, KnownMore
    <3>2. CASE OmsType = "Hedging" /\ fill.position_id # None
      <4>1. a = <<fill.position_id, n>>
        BY <3>2 DEF determine_hedging_position_id
      <4> QED BY <3>2, <4>1, KnownMore
    <3>3. CASE OmsType = "Hedging" /\ fill.position_id = None
      <4> DEFINE siblings == IF spawn = None THEN {}
                             ELSE {c.orders[s].position_id : s \in c.exec_spawn_orders[spawn]} \ {None}
      <4>1. a \in siblings \X {n} \/ a = <<Generated(n + 1), n + 1>>
        BY <3>3 DEF determine_hedging_position_id
      <4>2. siblings \subseteq Known(n)
        <5>1. spawn \in ClientOrderIds \cup {None}
          BY CacheAssumption
        <5>2. spawn # None => c.exec_spawn_orders[spawn] \subseteq DOMAIN c.orders
          BY <5>1 DEF KnownIn
        <5>3. ASSUME NEW x \in siblings PROVE x \in Known(n)
          BY <5>2, SMT DEF KnownIn
        <5> QED BY <5>3
      <4> HIDE DEF siblings
      <4>3. CASE a \in siblings \X {n}
        BY <4>2, <4>3
      <4>4. CASE a = <<Generated(n + 1), n + 1>>
        <5>1. Generated(n + 1) \in Known(n + 1)
          BY <3>3, KnownMore
        <5> QED BY <3>3, <4>4, <5>1
      <4> QED BY <4>1, <4>3, <4>4
    <3> QED BY <3>1, <3>2, <3>3
  <2> HIDE DEF assigned
  <2>4. KnownIn(c, a[2])
    BY <2>3, KnownInMore
  <2>5. KnownIn(Propagated(c, a[1], id), a[2])
    BY <2>3, <2>4, KnownPropagated
  <2> QED BY <2>2, <2>3, <2>5
<1> QED BY <1>1, <1>2

\* What a fill adds to the books of all positions is what it trades, if it is booked: a
\* flip's new id is not that of any position.
BookedAt(c, n, fill, r) ==
    /\ r.count = n \/ (OmsType = "Hedging" /\ r.count = n + 1)
    /\ r.booked \in BOOLEAN
    /\ Consistent(r.cache)
    /\ r.cache.orders = c.orders
    /\ KnownIn(r.cache, r.count)
    /\ Books(r.cache) = Books(c) + (IF r.booked THEN Signed(fill) ELSE 0)

LEMMA BookedOnce ==
    ASSUME NEW c, Consistent(c), NEW n \in Nat, KnownIn(c, n),
           OmsType = "Hedging" => n + 1 <= MaxCount, NEW fill, PlainFill(fill), FillRecord(fill),
           fill.position_id \in Known(n)
    PROVE  BookedAt(c, n, fill, handle_position_update(c, n, fill))
<1> DEFINE r == handle_position_update(c, n, fill)
           a == fill.position_id
           b == Target(c, n, fill)
           d == IF r.booked THEN Signed(fill) ELSE 0
<1>1. Outcome(c, n, fill, r)
  BY PositionUpdateFacts
<1>2. IndexedAt(c, r.cache, fill.client_order_id)
  BY PositionUpdateIndexes DEF Consistent, FillRecord
<1> HIDE DEF r
<1>3. /\ r.count = n \/ (OmsType = "Hedging" /\ r.count = n + 1)
      /\ b \in Known(r.count)
      /\ b # a => b = Generated(n + 1)
  <2>1. CASE Renews(c, fill)
    <3>1. OmsType = "Hedging" /\ r.count = n + 1 /\ b = Generated(n + 1)
      BY <1>1, <2>1 DEF Outcome, Renews, Target
    <3> QED BY <3>1, KnownMore
  <2>2. CASE ~Renews(c, fill)
    BY <1>1, <2>2 DEF Outcome, Target
  <2> QED BY <2>1, <2>2
<1>4. KnownIn(c, r.count)
  BY <1>3, KnownInMore
<1>5. KnownIn(r.cache, r.count)
  <2>1. /\ DOMAIN r.cache.positions \subseteq DOMAIN c.positions \cup {b}
        /\ \A o \in OrderIds : r.cache.order_position[o] \in {c.order_position[o], b}
        /\ r.cache.orders = c.orders
    BY <1>1 DEF Outcome
  <2>2. /\ DOMAIN r.cache.order_position = OrderIds
        /\ r.cache.exec_spawn_orders = c.exec_spawn_orders
    BY <1>2 DEF IndexedAt, KnownIn
  <2> HIDE DEF b
  <2> QED BY <1>3, <1>4, <2>1, <2>2, KnownOpened
<1>6. a \in PositionIds /\ b \in PositionIds
  BY <1>3 DEF Known
<1>7. a # b => Held(r.cache, a) = 0 /\ Held(c, b) = 0
  <2> HAVE a # b
  <2>1. b \notin DOMAIN c.positions
    BY <1>3, KnownMore, SMT DEF KnownIn
  <2> QED BY <1>1, <2>1 DEF Outcome, Held, has_position
<1>8. d \in Int
  BY PlainFillFacts, SMT
<1>9. /\ \A x : x \notin {a, b} => Held(r.cache, x) = Held(c, x)
      /\ Held(r.cache, b) = Held(c, a) + d
      /\ Consistent(r.cache)
      /\ r.booked \in BOOLEAN
      /\ r.cache.orders = c.orders
  BY <1>1 DEF Outcome
<1>10. Books(r.cache) = Books(c) + d
  <2> HIDE DEF a, b, d
  <2> DEFINE q == r.cache
  <2>1. Consistent(q) /\ (\A x : x \notin {a, b} => Held(q, x) = Held(c, x))
        /\ Held(q, b) = Held(c, a) + d
        /\ (a # b => Held(q, a) = 0 /\ Held(c, b) = 0)
    BY <1>7, <1>9
  <2> HIDE DEF q
  <2>2. Books(q) = Books(c) + d
    BY <1>6, <1>8, <2>1, BooksMoved
  <2> QED BY <2>2 DEF q
<1> QED BY <1>3, <1>5, <1>9, <1>10 DEF r, BookedAt

\* Adding an order with a known position, or none.
LEMMA KnownAdded ==
    ASSUME NEW c, Consistent(c), NEW n, KnownIn(c, n), NEW id \in ClientOrderIds,
           NEW a \in Known(n) \cup {None}, NEW o, o.position_id = None
    PROVE  KnownIn(add_order(c, id, o, a), n)
<1> DEFINE spawn == OrderInit[id].exec_spawn_id
           w == [c EXCEPT
                   !.orders = WithEntry(c.orders, id, o),
                   !.orders_active_local = IF is_active_local(o) THEN @ \cup {id} ELSE @,
                   !.orders_emulated = IF o.emulation_trigger THEN @ \cup {id} ELSE @,
                   !.exec_spawn_orders = [s \in ClientOrderIds |->
                                            IF s = spawn THEN c.exec_spawn_orders[s] \cup {id}
                                            ELSE c.exec_spawn_orders[s]]]
           r == add_order(c, id, o, a)
<1>1. r = IF a = None THEN w ELSE add_position_id(w, a, id)
  BY DEF add_order, Consistent, CacheFields
<1>2. /\ DOMAIN w = CacheFields
      /\ w.orders = WithEntry(c.orders, id, o)
      /\ w.exec_spawn_orders = [s \in ClientOrderIds |->
                                  IF s = spawn THEN c.exec_spawn_orders[s] \cup {id}
                                  ELSE c.exec_spawn_orders[s]]
      /\ w.positions = c.positions
      /\ w.order_position = c.order_position
  BY DEF Consistent, CacheFields
<1> HIDE DEF w, r
<1>3. KnownIn(w, n)
  <2>1. /\ DOMAIN w.orders = DOMAIN c.orders \cup {id}
        /\ \A x \in DOMAIN w.orders : w.orders[x].position_id \in Known(n) \cup {None}
    BY <1>2, SMT DEF WithEntry, KnownIn
  <2>2. /\ DOMAIN w.exec_spawn_orders = ClientOrderIds
        /\ \A s \in ClientOrderIds : \A x \in w.exec_spawn_orders[s] :
              x \in DOMAIN w.orders /\ OrderInit[x].exec_spawn_id = s
    BY <1>2, <2>1, SMT DEF KnownIn
  <2> QED BY <1>2, <2>1, <2>2 DEF KnownIn
<1>4. CASE a = None
  BY <1>1, <1>3, <1>4 DEF r
<1>5. CASE a # None
  <2>1. r = add_position_id(w, a, id)
    BY <1>1, <1>5
  <2>2. /\ r.orders = w.orders
        /\ r.exec_spawn_orders = w.exec_spawn_orders
        /\ r.positions = w.positions
        /\ r.order_position = [w.order_position EXCEPT ![id] = a]
    BY <1>2, <2>1 DEF add_position_id, CacheFields
  <2>3. /\ DOMAIN r.order_position = OrderIds
        /\ \A x \in OrderIds : r.order_position[x] \in {w.order_position[x], a}
    BY <1>3, <2>2 DEF KnownIn
  <2>4. \A x \in DOMAIN w.orders : r.orders[x].position_id \in {w.orders[x].position_id, a}
    BY <2>2
  <2>5. KnownIn(r, n)
    BY <1>3, <2>2, <2>3, <2>4, KnownGiven
  <2> QED BY <2>5 DEF r
<1> QED BY <1>4, <1>5

-----------------------------------------------------------------------------
\* The invariant.
BInv ==
    /\ IInv
    /\ OInv
    /\ count \in Nat
    /\ KnownIn(cache, count)
    /\ BooksMatchFills

LEMMA BooksInit == Init => BInv
<1> SUFFICES ASSUME Init PROVE BInv
  OBVIOUS
<1>1. IInv /\ OInv
  BY InitHolds, OrdersInit
<1>2. /\ DOMAIN cache.positions = {}
      /\ DOMAIN cache.orders = {}
      /\ DOMAIN cache.order_position = OrderIds
      /\ \A id \in OrderIds : cache.order_position[id] = None
      /\ DOMAIN cache.exec_spawn_orders = ClientOrderIds
      /\ \A s \in ClientOrderIds : cache.exec_spawn_orders[s] = {}
  BY DEF Init, EmptyCache
<1>3. KnownIn(cache, count) /\ count \in Nat
  BY <1>2 DEF KnownIn, Init
<1>4. Books(cache) = 0
  <2> DEFINE w == [id \in PositionIds |-> Held(cache, id)]
  <2>1. DOMAIN w = PositionIds /\ \A x \in PositionIds : w[x] = 0
    BY <1>2 DEF Held, has_position
  <2> HIDE DEF w
  <2>2. SumFunctionOnSet(w, PositionIds) = 0
    BY <2>1, IdsFinite, SumOfZeros
  <2> QED BY <2>1, <2>2 DEF w, Books, SumFunction
<1>5. history.net = 0 /\ history.unbooked = 0
  BY DEF Init
<1> QED BY <1>1, <1>3, <1>4, <1>5, SMT DEF BInv, BooksMatchFills, Books

\* A step that changes neither the positions nor what was traded.
LEMMA BooksQuiet ==
    ASSUME BInv, IInv', OInv', cache'.positions = cache.positions,
           history'.net = history.net, history'.unbooked = history.unbooked,
           count' \in Nat, KnownIn(cache', count')
    PROVE  BInv'
<1> DEFINE r == cache'
<1>1. r.positions = cache.positions
  OBVIOUS
<1> HIDE DEF r
<1>2. Books(r) = Books(cache)
  BY <1>1, BooksSame
<1>3. Books(cache') + history'.unbooked = history'.net
  BY <1>2 DEF BInv, BooksMatchFills, Books, r
<1> QED BY <1>3 DEF BInv, BooksMatchFills, Books

\* A step that books, or not, one fill.
LEMMA BooksBooked ==
    ASSUME BInv, IInv', OInv', NEW fill, PlainFill(fill), NEW booked \in BOOLEAN,
           Traded(fill, booked), count' \in Nat, KnownIn(cache', count'),
           Books(cache') = Books(cache) + (IF booked THEN Signed(fill) ELSE 0)
    PROVE  BInv'
<1>1. /\ history'.net = history.net + Signed(fill)
      /\ history'.unbooked = history.unbooked + (IF booked THEN 0 ELSE Signed(fill))
  BY TradedFacts DEF BInv, IInv
<1>2. Signed(fill) \in Int /\ Books(cache) \in Int
  BY PlainFillFacts, BooksType DEF BInv, IInv
<1>3. history.net \in Int /\ history.unbooked \in Int
  BY DEF BInv, IInv
<1>4. Books(cache) + history.unbooked = history.net
  BY DEF BInv, BooksMatchFills, Books
<1>5. Books(cache') + history'.unbooked = history'.net
  <2>1. CASE booked
    BY <1>1, <1>2, <1>3, <1>4, <2>1, SMT
  <2>2. CASE ~booked
    BY <1>1, <1>2, <1>3, <1>4, <2>2, SMT
  <2> QED BY <2>1, <2>2
<1> QED BY <1>5 DEF BInv, BooksMatchFills, Books

LEMMA BooksSubmit ==
    ASSUME BInv, IInv', OInv', NEW id \in ClientOrderIds,
           NEW position_id \in SubmitPositionIds \cup {None}, NEW sent \in BOOLEAN,
           SubmitOrder(id, position_id, sent), KnownIds
    PROVE  BInv'
<1> DEFINE order == NewOrder(OrderInit[id].order_type, OrderInit[id].quantity, FALSE)
           a == add_order(cache, id, order, position_id)
           e == [type |-> "Denied", venue_order_id |-> None]
           u == update_order(a, id, e)
<1>1. position_id \in Known(count) \cup {None}
  BY DEF KnownIds
<1>2. /\ cache' = u \/ cache' = a
      /\ count' = count
      /\ history' = [history EXCEPT !.submitted = @ \cup {id}]
      /\ id \notin DOMAIN cache.orders
  BY DEF SubmitOrder, BInv, OInv
<1>3. history'.net = history.net /\ history'.unbooked = history.unbooked
  BY <1>2 DEF BInv, OInv, HistoryFields
<1>4. order.position_id = None
  BY DEF NewOrder
<1>5. Consistent(cache) /\ Follows(cache) /\ KnownIn(cache, count) /\ count \in Nat
  BY DEF BInv, IInv, OInv
<1>6. Follows(a) /\ DOMAIN a.orders = DOMAIN cache.orders \cup {id}
  BY <1>2, <1>5, FollowsAdded
<1> HIDE DEF order
<1>7. Consistent(a) /\ a.positions = cache.positions
  BY <1>5, AddOrderFacts, SMT
<1>8. KnownIn(a, count)
  BY <1>1, <1>4, <1>5, KnownAdded
<1>9. e.type # "Filled"
  OBVIOUS
<1> HIDE DEF a, e
<1>10. KnownIn(u, count) /\ u.positions = a.positions
  BY <1>6, <1>7, <1>8, <1>9, KnownUpdated, FollowsUpdated
<1> HIDE DEF u
<1> QED BY <1>2, <1>3, <1>5, <1>7, <1>8, <1>10, BooksQuiet

LEMMA BooksEvent ==
    ASSUME BInv, IInv', OInv', NEW event \in Events, HandleEvent(event)
    PROVE  BInv'
<1>1. Resolved(event) \in DOMAIN cache.orders
  BY ResolvedExists DEF HandleEvent
<1>2. /\ cache' = update_order(cache, Resolved(event), event)
      /\ history' = history
      /\ count' = count
  BY DEF HandleEvent
<1>3. event.type # "Filled"
  BY ExecEngineAssumption DEF Events
<1>4. KnownIn(cache', count)
  BY <1>1, <1>2, <1>3, KnownUpdated DEF BInv, IInv, OInv
<1>5. cache'.positions = cache.positions
  BY <1>1, <1>2, FollowsUpdated DEF BInv, OInv
<1> QED BY <1>2, <1>4, <1>5, BooksQuiet DEF BInv

LEMMA BooksPurgeOrder ==
    ASSUME BInv, IInv', OInv', NEW id \in ClientOrderIds, PurgeClosedOrder(id)
    PROVE  BInv'
<1> DEFINE r == purge_order(cache, id)
<1>1. cache' = r /\ history' = history /\ count' = count
  BY DEF PurgeClosedOrder
<1>2. /\ r.positions = cache.positions
      /\ r.orders = WithoutEntry(cache.orders, id)
      /\ r.order_position = [cache.order_position EXCEPT ![id] = None]
      /\ r.exec_spawn_orders =
            [s \in ClientOrderIds |->
               IF s = id THEN {}
               ELSE IF s = OrderInit[id].exec_spawn_id THEN cache.exec_spawn_orders[s] \ {id}
               ELSE cache.exec_spawn_orders[s]]
  BY DEF purge_order, BInv, IInv, Consistent, CacheFields
<1> HIDE DEF r
<1>3. /\ DOMAIN r.orders = DOMAIN cache.orders \ {id}
      /\ \A x \in DOMAIN r.orders : r.orders[x] = cache.orders[x]
  BY <1>2 DEF WithoutEntry
<1>4. \A s \in ClientOrderIds : r.exec_spawn_orders[s] \subseteq cache.exec_spawn_orders[s] \ {id}
  BY <1>2, SMT DEF BInv, KnownIn
<1>5. KnownIn(r, count)
  BY <1>2, <1>3, <1>4 DEF BInv, KnownIn, OrderIds
<1> QED BY <1>1, <1>2, <1>5, BooksQuiet DEF BInv

\* Nothing is held in a position that is purged.
LEMMA BooksPurgePosition ==
    ASSUME BInv, IInv', OInv', NEW id \in PositionIds, PurgeClosedPosition(id)
    PROVE  BInv'
<1> DEFINE r == purge_position(cache, id)
<1>1. /\ cache' = r
      /\ history' = history
      /\ count' = count
      /\ id \in DOMAIN cache.positions
      /\ PositionClosed(cache.positions[id])
      /\ Consistent(cache)
      /\ count \in Nat
  BY DEF PurgeClosedPosition, has_position, BInv, IInv
<1>2. /\ Consistent(r)
      /\ r.positions = WithoutEntry(cache.positions, id)
      /\ r.orders = cache.orders
      /\ \A x \in OrderIds : r.order_position[x] \in {cache.order_position[x], None}
  BY <1>1, PurgePositionFacts
<1>3. DOMAIN r.order_position = OrderIds /\ r.exec_spawn_orders = cache.exec_spawn_orders
  BY <1>1 DEF purge_position, Consistent, CacheFields
<1> HIDE DEF r
<1>4. DOMAIN r.positions \subseteq DOMAIN cache.positions
  BY <1>2 DEF WithoutEntry
<1>5. KnownIn(r, count)
  BY <1>2, <1>3, <1>4 DEF BInv, KnownIn
<1>6. cache.positions[id].signed_qty = 0
  BY <1>1, OpenOrClosed DEF Consistent
<1>7. \A x : Held(r, x) = Held(cache, x)
  BY <1>1, <1>2, <1>6 DEF Held, has_position, WithoutEntry
<1>8. Books(r) = Books(cache)
  <2>1. [x \in PositionIds |-> Held(r, x)] = [x \in PositionIds |-> Held(cache, x)]
    BY <1>7
  <2> QED BY <2>1 DEF Books
<1>9. Books(cache') + history'.unbooked = history'.net
  BY <1>1, <1>8 DEF BInv, BooksMatchFills, Books
<1> QED BY <1>1, <1>5, <1>9 DEF BInv, BooksMatchFills, Books

\* The same for handle_order_fill, which books nothing while the account is missing and
\* links the children of the order afterwards.
LEMMA OrderBookedOnce ==
    ASSUME NEW c, Consistent(c), Follows(c), NEW n \in Nat, KnownIn(c, n),
           OmsType = "Hedging" => n + 1 <= MaxCount, NEW fill, PlainFill(fill), FillRecord(fill),
           fill.position_id \in Known(n)
    PROVE  LET r == handle_order_fill(c, n, fill)
           IN /\ r.count \in Nat
              /\ r.booked \in BOOLEAN
              /\ KnownIn(r.cache, r.count)
              /\ Books(r.cache) = Books(c) + (IF r.booked THEN Signed(fill) ELSE 0)
<1> DEFINE h == handle_position_update(c, n, fill)
           r == handle_order_fill(c, n, fill)
<1>1. CASE ~account
  <2>1. r.cache = c /\ r.booked = FALSE /\ r.count = n
    BY <1>1 DEF handle_order_fill, Unbooked
  <2>2. Books(c) \in Int
    BY BooksType
  <2> HIDE DEF r
  <2>3. Books(r.cache) = Books(c) + (IF r.booked THEN Signed(fill) ELSE 0)
    BY <2>1, <2>2, SMT
  <2> QED BY <2>1, <2>3 DEF r
<1>2. CASE account
  <2>1. r = [h EXCEPT !.cache = LinkContingent(h.cache, fill)]
    BY <1>2 DEF handle_order_fill
  <2>2. PartsKept(c, h.cache) /\ DOMAIN h = {"cache", "count", "booked"}
    BY PositionUpdateKeepsParts DEF Follows
  <2>3. /\ h.count = n \/ (OmsType = "Hedging" /\ h.count = n + 1)
        /\ h.booked \in BOOLEAN
        /\ Consistent(h.cache)
        /\ KnownIn(h.cache, h.count)
        /\ Books(h.cache) = Books(c) + (IF h.booked THEN Signed(fill) ELSE 0)
    <3>1. BookedAt(c, n, fill, h)
      BY BookedOnce
    <3> HIDE DEF h
    <3> QED BY <3>1 DEF BookedAt
  <2> HIDE DEF h
  <2>4. /\ r.cache = LinkContingent(h.cache, fill)
        /\ r.booked = h.booked
        /\ r.count = h.count
    BY <2>1, <2>2
  <2> HIDE DEF r
  <2>5. Follows(h.cache)
    BY <2>2, FollowsKept
  <2> DEFINE q == h.cache
             z == r.cache
  <2>6. Consistent(q) /\ Follows(q) /\ KnownIn(q, h.count) /\ z = LinkContingent(q, fill)
    BY <2>3, <2>4, <2>5
  <2> HIDE DEF q, z
  <2>7. KnownIn(z, h.count)
    BY <2>6, KnownLinked
  <2>8. z.positions = q.positions
    BY <2>6, LinkFacts DEF OrdersOnly
  <2>9. Books(z) = Books(q)
    BY <2>8, BooksSame
  <2>10. r.count \in Nat
    BY <2>3, <2>4, SMT
  <2>11. Books(r.cache) = Books(c) + (IF r.booked THEN Signed(fill) ELSE 0)
    BY <2>3, <2>4, <2>9 DEF q, z
  <2>12. r.booked \in BOOLEAN /\ KnownIn(r.cache, r.count)
    BY <2>3, <2>4, <2>7 DEF z
  <2> QED BY <2>10, <2>11, <2>12 DEF r
<1> QED BY <1>1, <1>2

LEMMA BooksFill ==
    ASSUME BInv, IInv', OInv', "Base" \notin Currencies, NEW event \in Fills, HandleFill(event)
    PROVE  BInv'
<1> DEFINE id == Resolved(event)
           routed == [event EXCEPT !.client_order_id = id]
<1>1. id \in DOMAIN cache.orders /\ id \in ClientOrderIds
  BY ResolvedExists, ResolvedType DEF HandleFill, BInv, IInv
<1>2. PICK d \in determine_position_id(cache, count, routed) :
        LET fill == [routed EXCEPT !.position_id = d.position_id]
            r == handle_order_fill(update_order(d.cache, id, fill), d.count, fill)
        IN IF validate_fill_for_order(d.cache, fill) /\ Accepts(d.cache, id, fill)
           THEN cache' = r.cache /\ count' = r.count /\ Traded(fill, r.booked)
           ELSE cache' = d.cache /\ count' = d.count /\ Refused(d.cache, fill)
  BY DEF HandleFill
<1> DEFINE fill == [routed EXCEPT !.position_id = d.position_id]
           u == update_order(d.cache, id, fill)
           r == handle_order_fill(u, d.count, fill)
<1>3. PlainFill(routed) /\ FillRecord(routed) /\ routed.client_order_id = id
  BY VenueFills, RoutedFill
<1>4. routed.position_id \in VenuePositionIds \cup {None}
  BY DEF Fills
<1> HIDE DEF routed, id
<1>5. PlainFill(fill) /\ FillRecord(fill) /\ fill.position_id = d.position_id
  BY <1>3, RoutedFill
<1>6. /\ OmsType = "Hedging" => count + 2 <= MaxCount
      /\ count \in Nat
      /\ MaxCount \in Nat
      /\ Consistent(cache)
      /\ Follows(cache)
      /\ KnownIn(cache, count)
  BY ExecEngineAssumption DEF HandleFill, BInv, IInv, OInv
<1>7. OmsType = "Hedging" => count + 1 <= MaxCount
  BY <1>6, SMT
<1>8. /\ d.count = count \/ (OmsType = "Hedging" /\ d.count = count + 1)
      /\ d.position_id \in Known(d.count)
      /\ KnownIn(d.cache, d.count)
  BY <1>1, <1>3, <1>4, <1>6, <1>7, KnownDetermined
<1>9. OrdersOnly(cache, d.position_id, d.cache)
  BY <1>6, DetermineFacts
<1>10. Follows(d.cache) /\ DOMAIN d.cache.orders = DOMAIN cache.orders
  BY <1>6, FollowsDetermined, SMT
<1>11. d.cache.positions = cache.positions /\ Consistent(d.cache)
  BY <1>9 DEF OrdersOnly
<1>12. d.count \in Nat /\ (OmsType = "Hedging" => d.count + 1 <= MaxCount)
  BY <1>6, <1>8, SMT
<1>13. CASE validate_fill_for_order(d.cache, fill) /\ Accepts(d.cache, id, fill)
  <2>1. cache' = r.cache /\ count' = r.count /\ Traded(fill, r.booked)
    BY <1>2, <1>13
  <2> HIDE DEF fill
  <2>2. KnownIn(u, d.count)
    BY <1>1, <1>5, <1>8, <1>10, <1>11, KnownUpdated
  <2>3. Consistent(u)
    BY <1>1, <1>11, UpdateOrderFacts DEF OrdersOnly
  <2>4. Follows(u) /\ u.positions = d.cache.positions
    BY <1>1, <1>10, FollowsUpdated
  <2> HIDE DEF u
  <2>5. /\ r.count \in Nat
        /\ r.booked \in BOOLEAN
        /\ KnownIn(r.cache, r.count)
        /\ Books(r.cache) = Books(u) + (IF r.booked THEN Signed(fill) ELSE 0)
    BY <1>5, <1>8, <1>12, <2>2, <2>3, <2>4, OrderBookedOnce
  <2> HIDE DEF r
  <2>6. Books(u) = Books(cache)
    BY <1>11, <2>4, BooksSame
  <2> QED BY <1>5, <2>1, <2>5, <2>6, BooksBooked
<1>14. CASE ~(validate_fill_for_order(d.cache, fill) /\ Accepts(d.cache, id, fill))
  <2>1. cache' = d.cache /\ count' = d.count /\ Refused(d.cache, fill)
    BY <1>2, <1>14
  <2>2. history'.net = history.net /\ history'.unbooked = history.unbooked
    BY <2>1 DEF Refused, BInv, OInv, HistoryFields
  <2> QED BY <1>8, <1>11, <1>12, <2>1, <2>2, BooksQuiet
<1> QED BY <1>13, <1>14

LEMMA BooksLegFill ==
    ASSUME BInv, IInv', OInv', "Base" \notin Currencies, NEW event \in LegFills,
           HandleLegFill(event)
    PROVE  BInv'
<1> DEFINE d == determine_leg_fill_position_id(cache, count, event)
           fill == [event EXCEPT !.position_id = d[1]]
           r == handle_position_update(cache, d[2], fill)
<1>1. event.client_order_id \in OrderIds /\ event.position_id \in VenuePositionIds \cup {None}
  BY DEF LegFills, OrderIds
<1>2. /\ OmsType = "Hedging" => count + 2 <= MaxCount
      /\ count \in Nat
      /\ MaxCount \in Nat
      /\ OmsType \in {"Netting", "Hedging"}
      /\ Consistent(cache)
      /\ KnownIn(cache, count)
  BY ExecEngineAssumption DEF HandleLegFill, BInv, IInv
<1>3. \/ d = <<cache.order_position[event.client_order_id], count>>
         /\ cache.order_position[event.client_order_id] # None
      \/ d = <<NetId, count>>
      \/ d = <<event.position_id, count>> /\ event.position_id # None
      \/ OmsType = "Hedging" /\ d = <<Generated(count + 1), count + 1>>
  BY <1>2 DEF determine_leg_fill_position_id
<1> HIDE DEF d
<1>4. /\ d[2] = count \/ (OmsType = "Hedging" /\ d[2] = count + 1)
      /\ d[1] \in Known(d[2])
  <2>1. /\ NetId \in Known(count)
        /\ VenuePositionIds \subseteq Known(count)
        /\ OmsType = "Hedging" => Generated(count + 1) \in Known(count + 1)
    <3>1. OmsType = "Hedging" => count + 1 <= MaxCount
      BY <1>2, SMT
    <3> QED BY <1>2, <3>1, KnownMore
  <2>2. cache.order_position[event.client_order_id] \in Known(count) \cup {None}
    BY <1>1, <1>2 DEF KnownIn
  <2> QED BY <1>1, <1>3, <2>1, <2>2, SMT
<1>5. d[2] \in Nat /\ (OmsType = "Hedging" => d[2] + 1 <= MaxCount)
  BY <1>2, <1>4, SMT
<1>6. KnownIn(cache, d[2])
  BY <1>2, <1>4, KnownInMore
<1>7. PlainFill(fill) /\ FillRecord(fill) /\ fill.position_id = d[1]
  BY VenueFills, RoutedFill
<1>8. \/ count' = d[2] /\ UNCHANGED <<cache, history>>
      \/ cache' = r.cache /\ count' = r.count /\ Traded(fill, r.booked)
  BY DEF HandleLegFill, d
<1> HIDE DEF fill
<1>9. CASE count' = d[2] /\ UNCHANGED <<cache, history>>
  BY <1>5, <1>6, <1>9, BooksQuiet
<1>10. CASE cache' = r.cache /\ count' = r.count /\ Traded(fill, r.booked)
  <2> DEFINE n == d[2]
  <2>1. n \in Nat /\ KnownIn(cache, n) /\ fill.position_id \in Known(n)
        /\ (OmsType = "Hedging" => n + 1 <= MaxCount) /\ r = handle_position_update(cache, n, fill)
    BY <1>4, <1>5, <1>6, <1>7
  <2> HIDE DEF n, r
  <2>2. /\ r.count = n \/ (OmsType = "Hedging" /\ r.count = n + 1)
        /\ r.booked \in BOOLEAN
        /\ KnownIn(r.cache, r.count)
        /\ Books(r.cache) = Books(cache) + (IF r.booked THEN Signed(fill) ELSE 0)
    <3>1. BookedAt(cache, n, fill, r)
      BY <1>2, <1>7, <2>1, BookedOnce
    <3> QED BY <3>1 DEF BookedAt
  <2>3. r.count \in Nat
    BY <2>1, <2>2, SMT
  <2> QED BY <1>7, <1>10, <2>2, <2>3, BooksBooked
<1> QED BY <1>8, <1>9, <1>10

LEMMA BooksNext ==
    ASSUME "Base" \notin Currencies, BInv, [Next]_vars, [KnownIds]_vars
    PROVE  BInv'
<1>1. IInv' /\ OInv'
  BY Inductive, OrdersNext DEF BInv
<1>2. CASE RegisterAccount
  BY <1>1, <1>2, BooksQuiet DEF RegisterAccount, BInv
<1>3. ASSUME NEW id \in ClientOrderIds, NEW position_id \in SubmitPositionIds \cup {None},
             NEW sent \in BOOLEAN, SubmitOrder(id, position_id, sent)
      PROVE  BInv'
  <2>1. history' # history
    BY <1>3 DEF SubmitOrder, BInv, OInv, HistoryFields
  <2>2. KnownIds
    BY <2>1 DEF vars
  <2> QED BY <1>1, <1>3, <2>2, BooksSubmit
<1>4. ASSUME NEW event \in Events, HandleEvent(event)
      PROVE  BInv'
  BY <1>1, <1>4, BooksEvent
<1>5. ASSUME NEW event \in Fills, HandleFill(event)
      PROVE  BInv'
  BY <1>1, <1>5, BooksFill
<1>6. ASSUME NEW event \in LegFills, HandleLegFill(event)
      PROVE  BInv'
  BY <1>1, <1>6, BooksLegFill
<1>7. ASSUME NEW id \in ClientOrderIds, PurgeClosedOrder(id)
      PROVE  BInv'
  BY <1>1, <1>7, BooksPurgeOrder
<1>8. ASSUME NEW position_id \in PositionIds, PurgeClosedPosition(position_id)
      PROVE  BInv'
  BY <1>1, <1>8, BooksPurgePosition
<1>9. CASE UNCHANGED vars
  BY <1>1, <1>9, BooksQuiet DEF vars, BInv
<1> QED BY <1>2, <1>3, <1>4, <1>5, <1>6, <1>7, <1>8, <1>9 DEF Next

\* With NETTING and with HEDGING the positions hold together exactly what orders and legs
\* traded and the engine did not log as left out: no fill is applied twice or lost when a
\* position opens, closes, flips into one with a new id, reopens or is purged.  It is
\* assumed that no commission is in the base currency and that an order is submitted with
\* a generated position id only once the id exists: a flip would write over a position
\* that was opened under the id it generates.
THEOREM BooksAlwaysMatch ==
    ASSUME "Base" \notin Currencies
    PROVE  Spec /\ [][KnownIds]_vars => []BooksMatchFills
<1>1. BInv => BooksMatchFills
  BY DEF BInv
<1>2. BInv /\ [Next]_vars /\ [KnownIds]_vars => BInv'
  BY BooksNext
<1> QED BY <1>1, <1>2, BooksInit, PTL DEF Spec
=============================================================================
