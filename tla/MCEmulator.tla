----------------------------- MODULE MCEmulator -----------------------------
EXTENDS OrderEmulator

CONSTANTS entry, tp, sl

Attr(order_type, buy, emulated, feed, contingency, linked, parent) ==
    [order_type |-> order_type, buy |-> buy, emulated |-> emulated, feed |-> feed,
     gtd |-> FALSE, display_qty |-> 0, supported |-> TRUE, contingency |-> contingency,
     linked |-> linked, parent |-> parent]

\* A bracket: an entry that triggers two exits, which are linked with each other.
Bracket(entry_emulated, exits, tp_type, display_qty, max_updates, max_restarts) ==
    [ids |-> <<entry, tp, sl>>, max_updates |-> max_updates, max_restarts |-> max_restarts,
     attributes |->
       (entry :> Attr("StopLimit", TRUE, entry_emulated, "Quotes", "Oto", <<tp, sl>>, None)
        @@ tp :> [Attr(tp_type, FALSE, TRUE, "Quotes", exits, <<sl>>, entry)
                 EXCEPT !.display_qty = display_qty]
        @@ sl :> Attr("StopMarket", FALSE, TRUE, "Trades", exits, <<tp>>, entry))]

\* A pair of orders on both sides of the market, of which one cancels the other.
Pair(gtd, supported) ==
    [ids |-> <<entry, tp>>, max_updates |-> 1, max_restarts |-> 1,
     attributes |->
       (entry :> [Attr("StopMarket", TRUE, TRUE, "Quotes", "Oco", <<tp>>, None)
                    EXCEPT !.gtd = gtd]
        @@ tp :> [Attr("LimitIfTouched", FALSE, TRUE, "Trades", "Oco", <<entry>>, None)
                    EXCEPT !.supported = supported])]

MCOrderLists ==
    {Bracket(TRUE, "Oco", "Limit", 0, 0, 1), Bracket(FALSE, "Ouo", "Limit", 0, 1, 0),
     Bracket(FALSE, "Ouo", "LimitIfTouched", OrderQty, 0, 1),
     Pair(FALSE, TRUE), Pair(TRUE, FALSE)}
=============================================================================
