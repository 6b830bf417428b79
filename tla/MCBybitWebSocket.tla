-------------------------- MODULE MCBybitWebSocket --------------------------
(***************************************************************************)
(* Instances of BybitWebSocket for TLC.                                    *)
(***************************************************************************)
EXTENDS BybitWebSocket

CONSTANTS t1

Environment(c, n, d, b) == [calls |-> c, at_once |-> n, drops |-> d, closes |-> b]

\* Calls one after the other, and two at once, over a reconnection; the client closed over a
\* reconnection; and all calls at once on one connection.
Environments ==
    {Environment(3, 1, 1, FALSE), Environment(2, 2, 1, FALSE), Environment(1, 1, 1, TRUE),
     Environment(3, 3, 0, TRUE)}

AtOnce == {Environment(3, 3, 0, FALSE)}
=============================================================================
