---------------------------- MODULE PositionCore ----------------------------
(***************************************************************************)
(* The position of crates/model/src/position.rs: Position::new, apply with *)
(* its buy and sell handlers, apply_adjustment and purge_events_for_order, *)
(* as functions of a position record and a fill record.                    *)
(*                                                                         *)
(* Quantities are integers (raw units), prices are integers, and average   *)
(* prices and profit are exact fractions <<numerator, denominator>>: the   *)
(* code's f64 rounding is not modelled, nor that Position::apply rounds    *)
(* the quantity to the size precision, of which every quantity here is a   *)
(* multiple.  Instruments are linear with multiplier 1.  A commission is   *)
(* in the base currency of a currency pair, where it changes the quantity  *)
(* held, or in the settlement currency, where it changes the profit; it is *)
(* never negative (a rebate).  Timestamps are left out, except that        *)
(* `ts_closed` records whether the field holds a value.                    *)
(***************************************************************************)
EXTENDS Quantity, Sequences, FiniteSetsExt

OrderSide == {"Buy", "Sell"}

PositionSide == {"Flat", "Long", "Short"}

\* The signed quantity a fill trades.
Signed(fill) == IF fill.order_side = "Buy" THEN fill.last_qty ELSE -fill.last_qty

\* What a fill's commission takes from the quantity held, and from the profit.
BaseCommission(fill) == IF fill.currency = "Base" THEN fill.commission ELSE 0
SettlementCommission(fill) == IF fill.currency = "Base" THEN 0 ELSE fill.commission

-----------------------------------------------------------------------------
\* Fractions with a positive denominator, in lowest terms.
Fraction(n, d) ==
    LET g == CHOOSE k \in 1 .. d :
                /\ n % k = 0 /\ d % k = 0
                /\ \A j \in (k + 1) .. d : n % j # 0 \/ d % j # 0
    IN <<n \div g, d \div g>>
Plus(x, y) == Fraction(x[1] * y[2] + y[1] * x[2], x[2] * y[2])
Times(k, x) == Fraction(k * x[1], x[2])

calculate_avg_px(qty, avg_px, last_px, last_qty) ==
    IF qty = 0 THEN <<last_px, 1>>
    ELSE Fraction(avg_px[1] * qty + last_px * last_qty * avg_px[2],
                  avg_px[2] * (qty + last_qty))

\* Mutant: the average weighs the quantity held, not the quantity closed so far.
calculate_avg_px_close_held(p, last_px, last_qty) ==
    IF p.avg_px_close = None THEN <<last_px, 1>>
    ELSE calculate_avg_px(p.quantity, p.avg_px_close, last_px, last_qty)

calculate_avg_px_close_px(p, last_px, last_qty) ==
    IF p.avg_px_close = None THEN <<last_px, 1>>
    ELSE calculate_avg_px(IF p.side = "Long" THEN p.sell_qty ELSE p.buy_qty,
                          p.avg_px_close, last_px, last_qty)

calculate_points(side, avg_px_open, px) ==
    CASE side = "Long"  -> Plus(<<px, 1>>, Times(-1, avg_px_open))
      [] side = "Short" -> Plus(avg_px_open, <<-px, 1>>)
      [] side = "Flat"  -> <<0, 1>>

\* Mutant: the closed quantity is not capped by the quantity held.
calculate_pnl_uncapped(p, px, qty) ==
    Times(qty, calculate_points(p.side, p.avg_px_open, px))

calculate_pnl_raw(p, px, qty) ==
    Times(IF qty < abs(p.signed_qty) THEN qty ELSE abs(p.signed_qty),
          calculate_points(p.side, p.avg_px_open, px))

-----------------------------------------------------------------------------
\* The position side for a signed quantity; `entry` follows it while open.
SideOf(signed) == IF signed > 0 THEN "Long" ELSE IF signed < 0 THEN "Short" ELSE "Flat"

\* Position::apply on a flat position forgets the cycle before.
Reopened(p, fill) ==
    [p EXCEPT !.events = << >>, !.adjustments = << >>,
              !.buy_qty = 0, !.sell_qty = 0, !.peak_qty = 0,
              !.opening_order_id = fill.client_order_id, !.closing_order_id = None,
              !.ts_closed = FALSE,
              !.avg_px_open = <<fill.last_px, 1>>, !.avg_px_close = None,
              !.realized_pnl = <<0, 1>>]

\* handle_buy_order_fill and handle_sell_order_fill: one is the mirror of the other.
handle_fill(p, fill) ==
    LET increases == p.signed_qty * Signed(fill) > 0
        reduces   == p.signed_qty * Signed(fill) < 0
        signed    == p.signed_qty + Signed(fill)
        pnl       == IF reduces THEN calculate_pnl_raw(p, fill.last_px, fill.last_qty)
                     ELSE <<0, 1>>
    IN [p EXCEPT
          !.avg_px_open =
             IF increases THEN calculate_avg_px(p.quantity, @, fill.last_px, fill.last_qty)
             ELSE IF reduces /\ p.signed_qty * signed < 0 THEN <<fill.last_px, 1>>
             ELSE @,
          !.avg_px_close =
             IF reduces THEN calculate_avg_px_close_px(p, fill.last_px, fill.last_qty) ELSE @,
          !.realized_pnl = Plus(Plus(@, pnl), <<-SettlementCommission(fill), 1>>),
          !.signed_qty = signed,
          !.buy_qty = IF fill.order_side = "Buy" THEN @ + fill.last_qty ELSE @,
          !.sell_qty = IF fill.order_side = "Sell" THEN @ + fill.last_qty ELSE @]

\* apply_adjustment: a commission in the base currency changes the quantity, a funding
\* payment the profit.
apply_adjustment(p, adj) ==
    LET signed == p.signed_qty + adj.quantity_change
    IN [p EXCEPT
          !.signed_qty = signed,
          !.quantity = IF adj.quantity_change = 0 THEN @ ELSE abs(signed),
          !.peak_qty = IF adj.quantity_change # 0 /\ abs(signed) > @ THEN abs(signed) ELSE @,
          !.realized_pnl = Plus(@, <<adj.pnl_change, 1>>),
          !.side = SideOf(signed),
          !.adjustments = Append(@, adj)]

CommissionAdjustment(fill) ==
    [type |-> "Commission", quantity_change |-> -BaseCommission(fill), pnl_change |-> 0]

\* The end of Position::apply: quantity, peak, side, entry and closing order follow the
\* signed quantity.
Settled(p, fill) ==
    LET qty == abs(p.signed_qty)
    IN [p EXCEPT
          !.quantity = qty,
          !.peak_qty = IF qty > @ THEN qty ELSE @,
          !.side = SideOf(p.signed_qty),
          !.entry = IF p.signed_qty > 0 THEN "Buy" ELSE IF p.signed_qty < 0 THEN "Sell" ELSE @,
          !.closing_order_id = IF qty = 0 THEN fill.client_order_id ELSE @,
          !.ts_closed = IF qty = 0 THEN TRUE ELSE @]

Logged(p, fill) == [p EXCEPT !.events = Append(@, fill)]

\* Position::apply, for a trade id the position does not hold; for one it does, the code
\* panics.
ApplyFill(p, fill) ==
    LET cycle  == IF p.side = "Flat" THEN Reopened(p, fill) ELSE p
        traded == handle_fill(Logged(cycle, fill), fill)
        held   == IF fill.currency = "Base"
                  THEN apply_adjustment(traded, CommissionAdjustment(fill)) ELSE traded
    IN Settled(held, fill)

\* Position::new.
NewPosition(fill) ==
    ApplyFill([events |-> << >>, adjustments |-> << >>, buy_qty |-> 0, sell_qty |-> 0,
           opening_order_id |-> fill.client_order_id, closing_order_id |-> None,
           entry |-> fill.order_side, side |-> "Flat", signed_qty |-> 0,
           quantity |-> fill.last_qty, peak_qty |-> fill.last_qty, ts_closed |-> FALSE,
           avg_px_open |-> <<fill.last_px, 1>>, avg_px_close |-> None,
           realized_pnl |-> <<0, 1>>], fill)

PositionTradeIds(p) == {p.events[i].trade_id : i \in DOMAIN p.events}

PositionOpen(p)   == p.side # "Flat" /\ ~p.ts_closed
PositionClosed(p) == p.side = "Flat" /\ p.ts_closed

is_opposite_side(p, order_side) == p.entry # order_side

-----------------------------------------------------------------------------
\* Mutant: the commission adjustments are kept, and the replay creates them again.
AllAdjustments(p) == DOMAIN p.adjustments

\* The adjustments a purge keeps: a replayed fill recreates its commission adjustment.
Preserved(p) == {n \in DOMAIN p.adjustments : p.adjustments[n].type # "Commission"}

\* Mutant: the bought and sold totals survive the reset.
BlankKeepsTotals(p) ==
    [p EXCEPT !.events = << >>, !.adjustments = << >>, !.signed_qty = 0,
              !.quantity = 0, !.side = "Flat",
              !.avg_px_close = None, !.realized_pnl = <<0, 1>>]

\* The reset before the replay.
Blank(p) ==
    [p EXCEPT !.events = << >>, !.adjustments = << >>,
              !.buy_qty = 0, !.sell_qty = 0, !.signed_qty = 0,
              !.quantity = 0, !.side = "Flat",
              !.avg_px_close = None, !.realized_pnl = <<0, 1>>]

\* Mutant: a position without fills is not marked closed.
EmptiedStaysOpen(p) == Blank(p)

\* A position all of whose fills are purged is flat and closed.
Emptied(p) == [Blank(p) EXCEPT !.ts_closed = TRUE]

\* The fills that stay when an order is purged.
Remaining(events, client_order_id) ==
    {n \in DOMAIN events : events[n].client_order_id # client_order_id}

\* The position that the fills which stay are replayed on.
Restarted(p, first_event) ==
    [Blank(p) EXCEPT !.peak_qty = 0, !.avg_px_open = <<0, 1>>,
                     !.entry = first_event.order_side,
                     !.opening_order_id = first_event.client_order_id,
                     !.closing_order_id = None, !.ts_closed = FALSE]

\* Some of the fills, and some of the adjustments, of a log are applied in its order: the
\* position after each step.
Replayed(p, events, kept) ==
    LET after[n \in 0 .. Len(events)] ==
            IF n = 0 THEN p
            ELSE IF n \in kept THEN ApplyFill(after[n - 1], events[n]) ELSE after[n - 1]
    IN after

Readjusted(p, adjustments, kept) ==
    LET after[n \in 0 .. Len(adjustments)] ==
            IF n = 0 THEN p
            ELSE IF n \in kept THEN apply_adjustment(after[n - 1], adjustments[n])
            ELSE after[n - 1]
    IN after

\* purge_events_for_order: the position without the fills of one order.  The remaining
\* fills are replayed, and the adjustments kept are applied after them.
purge_events_for_order(p, client_order_id) ==
    LET kept     == Remaining(p.events, client_order_id)
        blank    == Restarted(p, p.events[Min(kept)])
        replayed == Replayed(blank, p.events, kept)[Len(p.events)]
    IN IF kept = {}
       THEN Emptied(p)
       ELSE Readjusted(replayed, p.adjustments, Preserved(p))[Len(p.adjustments)]
=============================================================================
