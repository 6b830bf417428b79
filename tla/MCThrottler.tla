---------------------------- MODULE MCThrottler ----------------------------
EXTENDS Throttler

\* The RiskEngine's embedded throttlers, a registered one that drops, and buffering
\* throttlers on the test clock and on the live clock.
MCModes ==
    {m \in [drop : BOOLEAN, registered : BOOLEAN, large : BOOLEAN, early : {0, 1}] :
        m.drop \/ m.registered}
=============================================================================
