----------------------------- MODULE MCPosition -----------------------------
(***************************************************************************)
(* Instances of PositionPurge, hence of Position, for TLC.                 *)
(***************************************************************************)
EXTENDS PositionPurge, TLC

\* Trade ids and order ids are only compared for equality.
Symmetry == Permutations(TradeIds) \cup Permutations(ClientOrderIds)

\* A commission in the base currency changes quantities only, and the properties about
\* prices except cycles that have one: in such a cycle one price is enough.
OnePriceWithBase ==
    (\E i \in DOMAIN position.events : BaseCommission(position.events[i]) > 0) =>
        \A i, j \in DOMAIN position.events :
            position.events[i].last_px = position.events[j].last_px
=============================================================================
