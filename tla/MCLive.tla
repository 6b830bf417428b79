------------------------------- MODULE MCLive -------------------------------
EXTENDS LiveNode

\* A modify and the trades that complete the larger order; the same for a smaller one;
\* fills that arrive twice; three requests; two requests and the open-order check.
MCBounds ==
    {[quantities |-> {3}, requests |-> 2, trades |-> 3, reports |-> 1,
      report_kinds |-> {"Order"}, open_checks |-> 0],
     [quantities |-> {1}, requests |-> 2, trades |-> 1, reports |-> 1,
      report_kinds |-> {"Order"}, open_checks |-> 0],
     [quantities |-> {}, requests |-> 2, trades |-> 2, reports |-> 1,
      report_kinds |-> {"Fill", "OrderWithFills"}, open_checks |-> 0],
     [quantities |-> {3}, requests |-> 3, trades |-> 0, reports |-> 1,
      report_kinds |-> {"Order"}, open_checks |-> 0],
     [quantities |-> {}, requests |-> 2, trades |-> 1, reports |-> 0,
      report_kinds |-> {}, open_checks |-> 2]}
=============================================================================
