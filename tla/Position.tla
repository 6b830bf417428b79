------------------------------ MODULE Position ------------------------------
(***************************************************************************)
(* One position that receives fills of several orders, on either side and  *)
(* of any size, and funding payments.  The execution engine hands it each  *)
(* trade id at most once per cycle (see ExecEngine), which is the guard of *)
(* the action Fill; a fill larger than the position reverses it.           *)
(***************************************************************************)
EXTENDS PositionCore, FiniteSets, Functions

CONSTANTS
    ClientOrderIds,  \* orders that trade the position
    TradeIds,        \* trade ids the venue assigns
    FillQtys,        \* quantities of a fill
    Prices,          \* prices of a fill
    Commissions,     \* commissions of a fill
    Currencies,      \* currencies of a commission
    Fundings,        \* funding payments
    MaxAdjustments   \* bound on the adjustments of a cycle

ASSUME PositionAssumption ==
    /\ FillQtys \subseteq Nat \ {0}
    /\ Prices \subseteq Int
    /\ Commissions \subseteq Nat
    /\ Currencies \subseteq {"Base", "Settlement"}
    /\ Fundings \subseteq Int
    /\ MaxAdjustments \in Nat
    /\ None \notin ClientOrderIds
    /\ None \notin Int \X Int

VARIABLE position

FillEvents ==
    [trade_id : TradeIds, client_order_id : ClientOrderIds, order_side : OrderSide,
     last_qty : FillQtys, last_px : Prices, commission : Commissions, currency : Currencies]

Init == \E fill \in FillEvents : position = NewPosition(fill)

Fill(fill) ==
    /\ fill.trade_id \notin PositionTradeIds(position)
    /\ position' = ApplyFill(position, fill)

\* SimulatedExchange settles funding for its open positions.
Fund(amount) ==
    /\ PositionOpen(position)
    /\ Len(position.adjustments) < MaxAdjustments
    /\ position' = apply_adjustment(position,
                      [type |-> "Funding", quantity_change |-> 0, pnl_change |-> amount])

Next ==
    \/ \E fill \in FillEvents : Fill(fill)
    \/ \E amount \in Fundings : Fund(amount)

Spec == Init /\ [][Next]_position

-----------------------------------------------------------------------------
\* The side, the quantity, the peak, the entry side that is_opposite_side (and with it
\* the engine's flip decision) reads, and the close timestamp all tell the same story
\* as the signed quantity; the first two are assertions at the end of Position::apply.
\* So a position is always either open or closed.
SideFollowsQuantity ==
    /\ position.side = SideOf(position.signed_qty)
    /\ position.quantity = abs(position.signed_qty)
    /\ position.peak_qty >= position.quantity
    /\ position.side = "Long" => position.entry = "Buy"
    /\ position.side = "Short" => position.entry = "Sell"
    /\ position.ts_closed <=> position.side = "Flat"

\* What is held is what was bought less what was sold since the position was opened,
\* corrected by the adjustments logged for it.
BooksBalance ==
    position.signed_qty = position.buy_qty - position.sell_qty
        + SumFunction([n \in DOMAIN position.adjustments |->
                           position.adjustments[n].quantity_change])

\* The profit realized fill by fill against a moving average price is what the cash
\* flows of the cycle say: the value of what is held at the average price, plus what
\* was received, less what was paid, commission and funding included.  (Commission in
\* the base currency changes the quantity at no price, so cycles with it are exempt.)
ProfitIsCashFlow ==
    LET flow(f)  == -(Signed(f) * f.last_px) - SettlementCommission(f)
        received == SumFunction([n \in DOMAIN position.events |-> flow(position.events[n])])
        funding  == SumFunction([n \in DOMAIN position.adjustments |->
                                     position.adjustments[n].pnl_change])
    IN (\A i \in DOMAIN position.events : BaseCommission(position.events[i]) = 0) =>
          position.realized_pnl =
             Plus(Times(position.signed_qty, position.avg_px_open), <<received + funding, 1>>)

\* While a cycle has not reversed, the average close price is the average price of the
\* fills against the opening side, each weighed with its quantity: the running average
\* of calculate_avg_px_close_px takes its weight from the bought or sold total, which
\* the current fill has not reached yet.
AverageCloseIsOfClosings ==
    LET events     == position.events
        closing(n) == events[n].order_side # events[1].order_side
        value      == SumFunction([n \in DOMAIN events |->
                                      IF closing(n) THEN events[n].last_qty * events[n].last_px
                                      ELSE 0])
        weight     == SumFunction([n \in DOMAIN events |->
                                      IF closing(n) THEN events[n].last_qty ELSE 0])
        held(k)    == SumFunction([n \in 1 .. k |-> Signed(events[n])])
    IN /\ \A i \in DOMAIN events :
             /\ BaseCommission(events[i]) = 0
             /\ held(i) = 0 \/ SideOf(held(i)) = SideOf(Signed(events[1]))
       /\ \E n \in DOMAIN events : closing(n)
       => position.avg_px_close = Fraction(value, weight)
=============================================================================
