-------------------------- MODULE WebSocketSession --------------------------
(***************************************************************************)
(* What a WebSocketClient promises to the code that uses it, whatever its  *)
(* tasks are doing (crates/network/src/websocket/client.rs, mode.rs).      *)
(*                                                                         *)
(* A client works on one session after the other.  A dropped session is    *)
(* followed by a new one, until the client disconnects or gives up, and    *)
(* there is no way back from either.  A message that was accepted stays    *)
(* with the client, over as many sessions as it takes, until the transport *)
(* has taken it; only a client that ends, or whose login the venue has     *)
(* refused, discards messages.                                             *)
(***************************************************************************)
EXTENDS Integers

VARIABLES
    mode,       \* ConnectionMode
    auth,       \* AuthState
    session,    \* the number of the connection that messages are read from
    unsent,     \* how many messages are accepted and not taken by the transport
    taken,      \* flips as the transport takes a message
    ended       \* whether the client's tasks have ended

vars == <<mode, auth, session, unsent, taken, ended>>

Init ==
    /\ mode = "Active"
    /\ auth = "Unauthenticated"
    /\ session = 1
    /\ unsent = 0
    /\ taken = FALSE
    /\ ended = FALSE

Accept ==
    /\ mode = "Active"
    /\ unsent' = unsent + 1
    /\ UNCHANGED <<mode, auth, session, taken>>

Take ==
    /\ unsent > 0
    /\ unsent' = unsent - 1
    /\ taken' = ~taken
    /\ UNCHANGED <<mode, auth, session>>

Drop ==
    /\ mode = "Active"
    /\ mode' = "Reconnect"
    /\ auth' = "Unauthenticated"
    /\ UNCHANGED <<session, unsent, taken>>

Restore ==
    /\ mode = "Reconnect"
    /\ mode' = "Active"
    /\ session' > session
    /\ UNCHANGED <<auth, unsent, taken>>

Disconnect ==
    /\ mode \in {"Active", "Reconnect"}
    /\ mode' = "Disconnect"
    /\ auth' = "Failed"
    /\ UNCHANGED <<session, unsent, taken>>

Discard ==
    /\ auth = "Failed" \/ mode = "Disconnect"
    /\ unsent' \in 0 .. unsent
    /\ UNCHANGED <<mode, auth, session, taken>>

\* The owner hears from the venue about its login.
Answer ==
    /\ auth' \in {"Unauthenticated", "Authenticated", "Failed"}
    /\ UNCHANGED <<mode, session, unsent, taken, ended>>

\* After a disconnect, when the attempts to reconnect are used up, or because the owner
\* lets go of the client, which leaves the mode as it is.
End ==
    /\ ended' = TRUE
    /\ unsent' = 0
    /\ \/ mode \in {"Reconnect", "Disconnect"} /\ mode' = "Closed"
       \/ UNCHANGED mode
    /\ auth' \in {auth, "Failed"}
    /\ UNCHANGED <<session, taken>>

Next ==
    \/ Answer
    \/ /\ ~ended
       /\ \/ /\ Accept \/ Take \/ Drop \/ Restore \/ Disconnect \/ Discard
             /\ UNCHANGED ended
          \/ End

Spec == Init /\ [][Next]_vars
=============================================================================
