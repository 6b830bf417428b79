--------------------------- MODULE BybitWebSocket ---------------------------
(***************************************************************************)
(* The WebSocket client of a venue adapter, on top of WebSocketClient:     *)
(* BybitWebSocketClient and BybitWsFeedHandler                             *)
(* (crates/adapters/bybit/src/websocket/client.rs and handler.rs).         *)
(*                                                                         *)
(* A call of subscribe or unsubscribe is a task of its own (spawn_ws in    *)
(* the data client): it counts the reference, marks the topic, and sends a *)
(* command to the feed handler, and the steps of other tasks come between. *)
(* An operation of the tracker is one step, though it is several accesses  *)
(* to maps that have no lock in common.  The feed handler, one task, takes *)
(* either the next command or the next message from the venue, and is      *)
(* blocked while it sends.  After a reconnection it logs in again, if this *)
(* is a private connection, and subscribes again to all the topics of the  *)
(* tracker.  The venue is external.                                        *)
(***************************************************************************)
EXTENDS WebSocketClient, SubscriptionState, FiniteSets, Functions

CONSTANTS
    Bounds          \* how many calls are made at most, how many of them for one topic at
                    \* once, how often a connection goes down, or is idle, and whether the
                    \* client is ever closed

ASSUME BoundsAssumption ==
    Bounds \subseteq [calls : Nat, at_once : Nat, drops : Nat, closes : BOOLEAN]

\* There are finitely many topics.
ASSUME TopicsAssumption == \A S \in SUBSET Topics : Cardinality(S) \in Nat

VARIABLES
    bounds,                 \* the member of Bounds this behaviour keeps to
    subscriptions,          \* see SubscriptionState
    cmd_rx,                 \* the commands to the feed handler
    handler,                \* what the feed handler is doing
    signal,                 \* close was called
    calls,
    callers,                \* how many calls for a topic are before which of their steps
    overtaken,              \* history: topics given up when wanted again, see below
    crossed,                \* history: topics with calls or requests that crossed
    stale_login             \* history: whether a login of an earlier connection was trusted

adapter == <<subscriptions, cmd_rx, handler, signal, calls, callers>>
history == <<bounds, overtaken, crossed, stale_login>>
vars == <<client, fixed, adapter, history>>

Payloads(msgs) == [type |-> "Payloads", msgs |-> msgs]
Disconnect == [type |-> "Disconnect"]

\* The steps of a call after it has counted the reference.
CallSteps == {"mark_subscribe", "send_subscribe", "mark_unsubscribe", "send_unsubscribe"}

Idle == [at |-> "idle", msgs |-> <<>>, topics |-> {}]

\* connect: the first connection is made, and the login of a private one is on its way.
Init ==
    /\ ClientInit
    /\ bounds \in Bounds
    /\ subscriptions = NoSubscriptions(Topics)
    /\ cmd_rx = IF requires_auth THEN <<Payloads(<<Auth>>)>> ELSE <<>>
    /\ handler = Idle
    /\ signal = FALSE
    /\ calls = 0
    /\ callers = [t \in Topics |-> [step \in CallSteps |-> 0]]
    /\ overtaken = {}
    /\ crossed = {}
    /\ stale_login = FALSE

-----------------------------------------------------------------------------
\* The messages for a topic that are on the way to the venue, and the answers to them.
Requests ==
    UNION {Range(cmd_rx[i].msgs) : i \in {j \in DOMAIN cmd_rx : cmd_rx[j].type = "Payloads"}}
    \cup Range(handler.msgs)
    \cup {writer_rx[i].msg : i \in {j \in DOMAIN writer_rx : writer_rx[j].type = "Send"}}
    \cup (IF writer.at = "send" THEN {writer.msg} ELSE {})
    \cup Range(reconnect_buffer)
Answers == Range(raw_rx) \cup UNION {Range(connections[c].outbox) : c \in Connections}

IsBeingUnsubscribed(t) ==
    \/ Unsubscribe(t) \in Requests
    \/ \E f \in Answers : f.type = "Unsubscribed" /\ f.topic = t

-----------------------------------------------------------------------------
\* The subscribers.

InProgress(t) == \E step \in CallSteps : callers[t][step] > 0

CanCall(t) ==
    /\ calls < bounds.calls
    /\ SumFunction(callers[t]) < bounds.at_once

\* A call goes on if it counted the first reference or the last.
GoesOn(t, changes, step) ==
    /\ callers' = IF changes THEN [callers EXCEPT ![t][step] = @ + 1] ELSE callers
    /\ crossed' = IF changes /\ InProgress(t) THEN crossed \cup {t} ELSE crossed

subscribe(t) ==
    /\ CanCall(t)
    /\ calls' = calls + 1
    /\ subscriptions' = add_reference(subscriptions, t)
    /\ GoesOn(t, is_first_reference(subscriptions, t), "mark_subscribe")
    /\ UNCHANGED <<client, fixed, cmd_rx, handler, signal, bounds, overtaken, stale_login>>

\* Of a topic without a reference, remove_reference changes nothing.
unsubscribe(t) ==
    /\ CanCall(t)
    /\ ~signal
    /\ subscriptions.reference_counts[t] > 0
    /\ calls' = calls + 1
    /\ subscriptions' = remove_reference(subscriptions, t)
    /\ GoesOn(t, is_last_reference(subscriptions, t), "mark_unsubscribe")
    /\ UNCHANGED <<client, fixed, cmd_rx, handler, signal, bounds, overtaken, stale_login>>

MarkSubscribe(t) ==
    /\ callers[t]["mark_subscribe"] > 0
    /\ callers' = [callers EXCEPT ![t]["mark_subscribe"] = @ - 1, ![t]["send_subscribe"] = @ + 1]
    /\ subscriptions' = mark_subscribe(subscriptions, t)
    /\ UNCHANGED <<client, fixed, cmd_rx, handler, signal, calls, history>>

\* The topic may have a subscriber again, or be in the hands of resubscribe_all.
MarkUnsubscribe(t) ==
    /\ callers[t]["mark_unsubscribe"] > 0
    /\ callers' = [callers EXCEPT ![t]["mark_unsubscribe"] = @ - 1,
                                  ![t]["send_unsubscribe"] = @ + 1]
    /\ subscriptions' = mark_unsubscribe(subscriptions, t)
    /\ overtaken' = IF subscriptions.reference_counts[t] > 0
                    THEN overtaken \cup {t} ELSE overtaken
    /\ crossed' = IF t \in handler.topics \/ IsBeingUnsubscribed(t)
                  THEN crossed \cup {t} ELSE crossed
    /\ UNCHANGED <<client, fixed, cmd_rx, handler, signal, calls, bounds, stale_login>>

\* The command is sent once the lock of the channel is free.
SendCommand(t, step, msg) ==
    /\ callers[t][step] > 0
    /\ callers' = [callers EXCEPT ![t][step] = @ - 1]
    /\ cmd_rx' = Append(cmd_rx, Payloads(<<msg>>))
    /\ UNCHANGED <<client, fixed, subscriptions, handler, signal, calls, history>>

Caller(t) ==
    \/ MarkSubscribe(t) \/ SendCommand(t, "send_subscribe", Subscribe(t))
    \/ MarkUnsubscribe(t) \/ SendCommand(t, "send_unsubscribe", Unsubscribe(t))

close ==
    /\ bounds.closes
    /\ ~signal
    /\ signal' = TRUE
    /\ cmd_rx' = Append(cmd_rx, Disconnect)
    /\ UNCHANGED <<client, fixed, subscriptions, handler, calls, callers, history>>

\* close aborts the handler, and drops its client, if others have a reference to its task.
close_aborts ==
    /\ signal
    /\ handler.at # "stopped"
    /\ handler' = [handler EXCEPT !.at = "stopped"]
    /\ TasksEnd
    /\ UNCHANGED <<connection_mode, auth_state, raw_rx, drops, taken, fixed, subscriptions,
                   cmd_rx, signal, calls, callers, history>>

\* close has waited for the handler, or for two seconds.
close_returns ==
    /\ signal
    /\ auth_state' = "Unauthenticated"
    /\ UNCHANGED <<connection_mode, tasks, writer_rx, raw_rx, fixed, adapter, history>>

-----------------------------------------------------------------------------
\* The feed handler.

Rest(msgs) ==
    IF Len(msgs) > 1 THEN [handler EXCEPT !.at = "sending", !.msgs = Tail(msgs)] ELSE Idle

\* The next command; a message is sent at once if the client is active.
HandleCommand ==
    /\ handler.at = "idle"
    /\ cmd_rx # <<>>
    /\ cmd_rx' = Tail(cmd_rx)
    /\ LET command == Head(cmd_rx)
       IN \/ /\ command.type = "Payloads"
             /\ IF connection_mode = "Active"
                THEN send_text(Head(command.msgs)) /\ handler' = Rest(command.msgs)
                ELSE /\ handler' = [handler EXCEPT !.at = "sending", !.msgs = command.msgs]
                     /\ UNCHANGED writer_rx
             /\ UNCHANGED <<connection_mode, auth_state>>
          \/ /\ command.type = "Disconnect"
             /\ handler' = [handler EXCEPT !.at = "disconnecting"]
             /\ request_disconnect
             /\ UNCHANGED writer_rx
    /\ UNCHANGED <<tasks, raw_rx, subscriptions>>

\* send_with_retry, which has to wait for the mode Active.
SendNext ==
    /\ handler.at = "sending"
    /\ send_text(Head(handler.msgs))
    /\ handler' = Rest(handler.msgs)
    /\ UNCHANGED <<connection_mode, auth_state, tasks, raw_rx, subscriptions, cmd_rx>>

\* The retries are used up, or the client is closed.
SendFails ==
    /\ handler.at = "sending"
    /\ connection_mode # "Active"
    /\ handler' = Rest(handler.msgs)
    /\ UNCHANGED <<client, subscriptions, cmd_rx>>

\* disconnect waits for the controller to finish, or aborts it after a timeout; the owner
\* then drops the client and ends, as close has set the signal.
Disconnected ==
    /\ handler.at = "disconnecting"
    /\ handler' = [handler EXCEPT !.at = "stopped"]
    /\ \/ controller.at = "done" /\ UNCHANGED client
       \/ /\ controller.at # "done"
          /\ connection_mode' = "Closed"
          /\ TasksEnd
          /\ UNCHANGED <<auth_state, raw_rx, drops, taken>>
    /\ UNCHANGED <<subscriptions, cmd_rx>>

\* mark_failure of all that was confirmed.
mark_reconnected(s) ==
    LET lost == s.confirmed \ s.pending_unsubscribe
    IN [s EXCEPT !.confirmed = @ \ lost, !.pending_subscribe = @ \cup lost]

\* Mutant: the topics to subscribe to again are those that were acknowledged.
topics_to_restore_confirmed(s) == s.confirmed

\* resubscribe_all, up to the topics it then works through.
topics_to_restore(s) == all_topics(s)

\* What a message from the venue does to the tracker of subscriptions.  Every request names
\* its topic as its req_id, and so does its answer: what the code does with an answer that
\* has none is left out, as is the refusal of an unsubscription, which changes nothing.
handle_subscription_ack(s, f) ==
    CASE f.type \in {"Subscribed", "AlreadySubscribed"} -> confirm_subscribe(s, f.topic)
      [] f.type = "SubscribeFailed" -> mark_failure(s, f.topic)
      [] f.type = "Unsubscribed" -> confirm_unsubscribe(s, f.topic)

HandleReconnected ==
    LET marked == mark_reconnected(subscriptions)
    IN /\ subscriptions' = marked
       /\ auth_state' = "Unauthenticated"
       /\ IF requires_auth
          THEN /\ cmd_rx' = Append(cmd_rx, Payloads(<<Auth>>))
               /\ UNCHANGED handler
          ELSE /\ handler' = [handler EXCEPT !.at = "resubscribing",
                                             !.topics = topics_to_restore(marked)]
               /\ UNCHANGED cmd_rx

HandleAuth(f) ==
    /\ auth_state' = IF f.type = "Authenticated" THEN "Authenticated" ELSE "Failed"
    /\ handler' = IF f.type = "Authenticated"
                  THEN [handler EXCEPT !.at = "resubscribing",
                                       !.topics = topics_to_restore(subscriptions)]
                  ELSE handler
    /\ UNCHANGED <<subscriptions, cmd_rx>>

HandleMessage ==
    /\ handler.at = "idle"
    /\ raw_rx # <<>>
    /\ ~signal
    /\ raw_rx' = Tail(raw_rx)
    /\ LET f == Head(raw_rx)
       IN \/ f.type = "Reconnected" /\ HandleReconnected
          \/ f.type \in {"Authenticated", "AuthFailed"} /\ HandleAuth(f)
          \/ /\ f.type \notin {"Reconnected", "Authenticated", "AuthFailed"}
             /\ subscriptions' = handle_subscription_ack(subscriptions, f)
             /\ UNCHANGED <<auth_state, cmd_rx, handler>>
    /\ UNCHANGED <<connection_mode, tasks, writer_rx>>

\* The loop of mark_subscribe over the topics.
mark_all(s, topics) ==
    LET marked == topics \ s.confirmed
    IN [s EXCEPT !.pending_unsubscribe = @ \ marked, !.pending_subscribe = @ \cup marked]

\* The topics in one of the orders the iteration over a hash set may take.
orders(topics) == {s \in [1 .. Cardinality(topics) -> topics] : Range(s) = topics}

\* The rest of resubscribe_all.
Resubscribe ==
    /\ handler.at = "resubscribing"
    /\ handler' = Idle
    /\ subscriptions' = mark_all(subscriptions, handler.topics)
    /\ \E topics \in orders(handler.topics) :
         cmd_rx' = IF topics = <<>> THEN cmd_rx
                   ELSE Append(cmd_rx, Payloads([i \in DOMAIN topics |-> Subscribe(topics[i])]))
    /\ UNCHANGED client

\* The signal is seen before the Disconnect command: the handler is dropped with the client,
\* whose controller is aborted and leaves the mode as it is.
HandlerStops ==
    /\ handler.at = "idle"
    /\ signal
    /\ handler' = [handler EXCEPT !.at = "stopped"]
    /\ TasksEnd
    /\ UNCHANGED <<connection_mode, auth_state, raw_rx, drops, taken, subscriptions, cmd_rx>>

\* The answer to a login on an earlier connection arrives after that has been given up.
TrustsStaleLogin ==
    /\ auth_state' = "Authenticated"
    /\ \/ connection_mode # "Active"
       \/ controller.at = "announce"
       \/ Reconnected \in Range(raw_rx)

Handler ==
    /\ \/ HandleCommand \/ SendNext \/ SendFails \/ Disconnected \/ HandleMessage
       \/ Resubscribe \/ HandlerStops
    /\ stale_login' = (stale_login \/ TrustsStaleLogin)
    /\ UNCHANGED <<fixed, signal, calls, callers, bounds, overtaken, crossed>>

-----------------------------------------------------------------------------
\* The tasks of the client.  A message that is sent while others wait in the buffer is
\* ahead of them.
ClientTasks ==
    /\ Writer \/ ReaderReceives \/ ReaderEnds \/ ReaderIdles \/ Controller
       \/ \E c \in Connections : GoesDown(c)
    /\ drops' <= bounds.drops
    /\ crossed' = IF writer.at # "send" /\ writer'.at = "send"
                  THEN crossed \cup {m.topic : m \in {n \in Range(reconnect_buffer) :
                                                        n.topic = writer'.msg.topic}}
                  ELSE crossed
    /\ UNCHANGED <<adapter, fixed, bounds, overtaken, stale_login>>

Next ==
    \/ \E t \in Topics : subscribe(t) \/ unsubscribe(t) \/ Caller(t)
    \/ close \/ close_aborts \/ close_returns
    \/ Handler
    \/ ClientTasks

Fairness ==
    /\ \A t \in Topics : WF_vars(Caller(t))
    /\ WF_vars(Handler)
    /\ WF_vars(ClientTasks /\ Writer)
    /\ WF_vars(ClientTasks /\ (ReaderReceives \/ ReaderEnds))
    /\ WF_vars(ClientTasks /\ Controller)

Spec == Init /\ [][Next]_vars /\ Fairness

-----------------------------------------------------------------------------
Commands == {Send(m) : m \in Messages} \cup {Update(c) : c \in Connections}

\* Every task is at one of its awaits, the controller makes no more than
\* reconnect_max_attempts in a row, and a topic is in at most one of the tracker's sets.
TypeOK ==
    /\ connection_mode \in ConnectionMode
    /\ auth_state \in AuthState
    /\ controller \in [at : {"select", "connect", "await_writer", "announce", "done"},
                       attempts : 0 .. reconnect_max_attempts, conn : Connections]
    /\ reader \in [running : BOOLEAN, conn : Connections]
    /\ writer \in [at : {"top", "recv", "drain", "send", "exited"}, conn : Connections,
                   msg : Messages \cup {None}]
    /\ writer_rx \in Seq(Commands)
    /\ reconnect_buffer \in Seq(Messages)
    /\ raw_rx \in Seq(Frames \cup {Reconnected})
    /\ connections \in [Connections -> ConnectionStates]
    /\ drops \in Nat
    /\ taken \in BOOLEAN /\ requires_auth \in BOOLEAN /\ credentials \in BOOLEAN
    /\ subscriptions \in [confirmed : SUBSET Topics, pending_subscribe : SUBSET Topics,
                          pending_unsubscribe : SUBSET Topics,
                          reference_counts : [Topics -> Nat]]
    /\ subscriptions.confirmed \cap subscriptions.pending_subscribe = {}
    /\ all_topics(subscriptions) \cap subscriptions.pending_unsubscribe = {}
    /\ cmd_rx \in Seq({Disconnect} \cup [type : {"Payloads"}, msgs : Seq(Messages) \ {<<>>}])
    /\ handler \in [at : {"idle", "sending", "resubscribing", "disconnecting", "stopped"},
                    msgs : Seq(Messages), topics : SUBSET Topics]
    /\ signal \in BOOLEAN
    /\ calls \in Nat
    /\ callers \in [Topics -> [CallSteps -> Nat]]
    /\ overtaken \subseteq Topics
    /\ crossed \subseteq Topics \cup {None}
    /\ stale_login \in BOOLEAN

\* The messages that the client has accepted and the transport has not taken: in the channel
\* to the write task, but for the new writer on its way there, in the buffer and in hand.
Unsent ==
    IF writer.at = "exited" THEN 0
    ELSE Len(writer_rx) - (IF controller.conn # writer.conn THEN 1 ELSE 0)
         + Len(reconnect_buffer) + (IF writer.at = "send" THEN 1 ELSE 0)

Session == INSTANCE WebSocketSession
    WITH mode <- connection_mode, auth <- auth_state, session <- reader.conn,
         unsent <- Unsent, ended <- controller.at = "done"

\* The three tasks of WebSocketClient, with the feed handler as their owner, implement the
\* promise of WebSocketSession: no message that send_text accepted is lost or taken twice over
\* a reconnection, and no task revives a client that another has disconnected.
ImplementsSession == Session!Spec

\* While the client is active the write task and the read task work on the same connection:
\* the oneshot channel makes the controller wait for the writer before the mode is Active.
OneConnection == connection_mode = "Active" => writer.conn = reader.conn

Wanted == {t \in Topics : subscriptions.reference_counts[t] > 0}

\* A topic with a subscriber is in the tracker, from where resubscribe_all would restore it,
\* whatever acknowledgements of earlier requests are still to come, and however the calls for
\* it interleave: unless a call of subscribe is still to mark it, or one of unsubscribe marked
\* it late, after it had got a subscriber again.
WantedIsTracked ==
    \A t \in Wanted : \/ t \in all_topics(subscriptions)
                     \/ callers[t]["mark_subscribe"] > 0
                     \/ t \in overtaken

\* The claim of the tracker that its operations can be called concurrently, and that
\* all_topics has the topics to restore: a topic with a subscriber is among them when all
\* calls for it have returned.
WantedIsRestored ==
    \A t \in Wanted : ~InProgress(t) => t \in all_topics(subscriptions)

AtRest ==
    /\ Requests = {} /\ Answers = {} /\ cmd_rx = <<>>
    /\ handler.at = "idle"
    /\ controller.at \in {"select", "done"}
    /\ \A t \in Topics : ~InProgress(t)

\* When all calls have returned and all requests are answered, the tracker has no topic
\* without a subscriber, which the next reconnection would subscribe to again.  Three orders
\* of events are excepted, see `crossed`, as each can leave one: calls for the topic overlap;
\* it is given up for the second time before the first is acknowledged, or while
\* resubscribe_all is at work; and a message overtakes the buffer.
UnwantedIsForgotten == AtRest => all_topics(subscriptions) \subseteq Wanted \cup crossed

\* can_drain_reconnect_buffer: on a private connection, what was buffered is replayed only
\* after the login on that connection, unless the tracker was told of an earlier login late.
ReplayWaitsForLogin ==
    writer.at = "drain" /\ requires_auth /\ connections[writer.conn].up
      => connections[writer.conn].authenticated \/ stale_login

Served(t) == connections[reader.conn].up /\ t \in connections[reader.conn].topics

\* A topic with a subscriber comes to be served by the venue on the current connection, over
\* drops and reconnections, unless the client gives up or is closed, the venue refuses the
\* login, or the calls or the requests for it crossed: calls that overlap can send their
\* commands, or mark the topic, in the other order than they counted, and the topic is then
\* not served.
WantedIsServed ==
    \A t \in Topics :
      t \in Wanted ~> \/ Served(t) \/ t \notin Wanted
                     \/ connection_mode = "Closed" \/ signal \/ ~credentials \/ t \in crossed
=============================================================================
