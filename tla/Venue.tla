-------------------------------- MODULE Venue --------------------------------
(***************************************************************************)
(* External: the venue at the other end of a WebSocket connection, as the  *)
(* Bybit adapter (crates/adapters/bybit/src/websocket) relies on it.  It   *)
(* answers the messages of a connection in turn: a login, and requests to  *)
(* subscribe to a topic and to unsubscribe from it, which on a private     *)
(* connection must come after the login.                                   *)
(***************************************************************************)
EXTENDS Sequences

CONSTANTS None, Topics

VARIABLES
    requires_auth,      \* whether the connections are private
    credentials         \* whether the venue accepts the login

fixed == <<requires_auth, credentials>>

VenueInit ==
    /\ requires_auth \in BOOLEAN
    /\ credentials \in BOOLEAN
    /\ ~requires_auth => credentials

Auth == [op |-> "Auth", topic |-> None]
Subscribe(t) == [op |-> "Subscribe", topic |-> t]
Unsubscribe(t) == [op |-> "Unsubscribe", topic |-> t]
Messages == {Auth} \cup {Subscribe(t) : t \in Topics} \cup {Unsubscribe(t) : t \in Topics}

Frame(type, t) == [type |-> type, topic |-> t]
Frames ==
    {Frame(type, None) : type \in {"Authenticated", "AuthFailed"}}
    \cup {Frame(type, t) : type \in {"Subscribed", "AlreadySubscribed", "SubscribeFailed",
                                     "Unsubscribed"}, t \in Topics}

\* A connection: whether it is up, what the venue knows of it, and the answers under way.
ConnectionStates == [up : BOOLEAN, authenticated : BOOLEAN, topics : SUBSET Topics,
                     outbox : Seq(Frames)]
Up == [up |-> TRUE, authenticated |-> FALSE, topics |-> {}, outbox |-> <<>>]
Down == [up |-> FALSE, authenticated |-> FALSE, topics |-> {}, outbox |-> <<>>]

answer(connection, m) ==
    CASE m.op = "Auth" -> IF credentials THEN "Authenticated" ELSE "AuthFailed"
      [] m.op = "Unsubscribe" -> "Unsubscribed"
      [] m.op = "Subscribe" /\ requires_auth /\ ~connection.authenticated -> "SubscribeFailed"
      [] m.op = "Subscribe" /\ (requires_auth => connection.authenticated) ->
           IF m.topic \in connection.topics THEN "AlreadySubscribed" ELSE "Subscribed"

receive(connection, m) ==
    LET type == answer(connection, m)
    IN [up |-> connection.up,
        authenticated |-> IF type = "Authenticated" THEN TRUE ELSE connection.authenticated,
        topics |-> CASE type = "Subscribed" -> connection.topics \cup {m.topic}
                     [] type = "Unsubscribed" -> connection.topics \ {m.topic}
                     [] OTHER -> connection.topics,
        outbox |-> Append(connection.outbox, Frame(type, m.topic))]
=============================================================================
