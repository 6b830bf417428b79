--------------------------- MODULE WebSocketClient ---------------------------
(***************************************************************************)
(* The WebSocket client with automatic reconnection                        *)
(* (crates/network/src/websocket/client.rs): the controller task, the read *)
(* task and the write task, which share the connection mode, and the       *)
(* tracker of the login (auth.rs).                                         *)
(*                                                                         *)
(* A step of a task ends where it awaits, or where another task could see  *)
(* that it has stored the mode.  All the waits of the tasks are bounded,   *)
(* or are woken by the change that they wait for, so that the wake-ups     *)
(* (state_notify) are left out.  Left out, too: connect_stream, heartbeats *)
(* and the rate limiter.  A connection is numbered as it is made; what     *)
(* happens to the bytes on it is external: it goes down, without either    *)
(* side being told at once, and all that was on its way is lost.  The      *)
(* venue deals with a message as the transport takes it, and its answer is *)
(* on the way for any time.                                                *)
(***************************************************************************)
EXTENDS Integers, Venue

CONSTANTS
    reconnect_max_attempts,
    MaxConnections      \* bounds the number of connections made

ASSUME ClientAssumption ==
    /\ reconnect_max_attempts \in Nat
    /\ MaxConnections \in Nat \ {0}

VARIABLES
    connection_mode,
    auth_state,             \* AuthTracker.state
    controller,             \* at which await, attempts made, the new connection
    reader, writer,         \* their connections and where they are
    writer_rx,              \* the commands to the write task
    reconnect_buffer,
    raw_rx,                 \* what the message handler was called with
    connections,            \* see Venue
    drops,                  \* how often a connection went down, or was idle
    taken                   \* flips as the transport takes a message

tasks == <<controller, reader, writer, reconnect_buffer, connections, drops, taken>>
client == <<connection_mode, auth_state, tasks, writer_rx, raw_rx>>

ConnectionMode == {"Active", "Reconnect", "Disconnect", "Closed"}
AuthState == {"Unauthenticated", "Authenticated", "Failed"}
Connections == 1 .. MaxConnections

Send(m) == [type |-> "Send", msg |-> m]
Update(c) == [type |-> "Update", conn |-> c]
Reconnected == [type |-> "Reconnected"]

ClientInit ==
    /\ connection_mode = "Active"
    /\ auth_state = "Unauthenticated"
    /\ controller = [at |-> "select", attempts |-> 0, conn |-> 1]
    /\ reader = [running |-> TRUE, conn |-> 1]
    /\ writer = [at |-> "top", conn |-> 1, msg |-> None]
    /\ writer_rx = <<>>
    /\ reconnect_buffer = <<>>
    /\ raw_rx = <<>>
    /\ connections = [c \in Connections |-> IF c = 1 THEN Up ELSE Down]
    /\ drops = 0
    /\ taken = FALSE
    /\ VenueInit

-----------------------------------------------------------------------------
\* The end of the controller drops WebSocketClientInner, and with it the other tasks, the
\* messages they hold and the connection.
TasksEnd ==
    /\ controller' = [controller EXCEPT !.at = "done"]
    /\ reader' = [reader EXCEPT !.running = FALSE]
    /\ writer' = [writer EXCEPT !.at = "exited", !.msg = None]
    /\ writer_rx' = <<>>
    /\ reconnect_buffer' = <<>>
    /\ connections' = [c \in Connections |-> Down]

\* ConnectionMode::request_reconnect, with the tracker invalidated if it succeeds.
request_reconnect ==
    /\ connection_mode' = IF connection_mode = "Active" THEN "Reconnect" ELSE connection_mode
    /\ auth_state' = IF connection_mode = "Active" THEN "Unauthenticated" ELSE auth_state

\* ConnectionMode::request_disconnect, with the tracker failed if it succeeds.
request_disconnect ==
    /\ connection_mode' = IF connection_mode = "Closed" THEN "Closed" ELSE "Disconnect"
    /\ auth_state' = IF connection_mode = "Closed" THEN auth_state ELSE "Failed"

\* send_text: waits for the mode Active (wait_for_active).
send_text(m) ==
    /\ connection_mode = "Active"
    /\ writer_rx' = Append(writer_rx, Send(m))

-----------------------------------------------------------------------------
\* The write task.

\* set_auth_tracker: set if the connections are private.
reconnect_buffer_waits_for_auth == requires_auth

\* Mutant: only a refused login keeps the buffer back.
can_drain_early == reconnect_buffer_waits_for_auth => auth_state # "Failed"

can_drain_reconnect_buffer == reconnect_buffer_waits_for_auth => auth_state = "Authenticated"
discards_reconnect_buffer == reconnect_buffer_waits_for_auth /\ auth_state = "Failed"
replays == connection_mode = "Active" /\ reconnect_buffer # <<>>

WriterExit ==
    /\ writer' = [writer EXCEPT !.at = "exited"]
    /\ reconnect_buffer' = <<>>
    /\ writer_rx' = <<>>
    /\ connections' = [connections EXCEPT ![writer.conn] = Down]
    /\ UNCHANGED <<connection_mode, auth_state, controller, reader, raw_rx, drops, taken>>

WriterDiscard ==
    /\ reconnect_buffer' = <<>>
    /\ UNCHANGED <<connection_mode, auth_state, controller, reader, writer,
                   writer_rx, raw_rx, connections, drops, taken>>

WriterGoes(at) ==
    /\ writer' = [writer EXCEPT !.at = at]
    /\ UNCHANGED <<connection_mode, auth_state, controller, reader, writer_rx,
                   reconnect_buffer, raw_rx, connections, drops, taken>>

\* The top of the loop.  With nothing in the buffer there is nothing to decide before the
\* next command is received.
WriterTop ==
    /\ writer.at = "top"
    /\ \/ connection_mode \in {"Disconnect", "Closed"} /\ WriterExit
       \/ replays /\ can_drain_reconnect_buffer /\ WriterGoes("drain")
       \/ replays /\ discards_reconnect_buffer /\ WriterDiscard
       \/ /\ connection_mode \in {"Active", "Reconnect"}
          /\ reconnect_buffer # <<>>
          /\ ~(replays /\ (can_drain_reconnect_buffer \/ discards_reconnect_buffer))
          /\ WriterGoes("recv")

\* The new writer replaces the old one, which is closed.
WriterUpdate(c) ==
    /\ writer' = [writer EXCEPT !.at = "top", !.conn = c]
    /\ connections' = [connections EXCEPT ![writer.conn] = Down]
    /\ UNCHANGED reconnect_buffer

WriterBuffers(m) ==
    /\ reconnect_buffer' = Append(reconnect_buffer, m)
    /\ writer' = [writer EXCEPT !.at = "top"]
    /\ UNCHANGED connections

WriterStartsSend(m) ==
    /\ writer' = [writer EXCEPT !.at = "send", !.msg = m]
    /\ UNCHANGED <<reconnect_buffer, connections>>

\* A command is received, and the mode read again; or none within the interval.
WriterRecv ==
    /\ writer.at = "recv" \/ (writer.at = "top" /\ reconnect_buffer = <<>>)
    /\ \/ writer.at = "recv" /\ writer_rx = <<>> /\ WriterGoes("top")
       \/ /\ writer_rx # <<>>
          /\ connection_mode \in {"Disconnect", "Closed"}
          /\ WriterExit
       \/ /\ writer_rx # <<>>
          /\ connection_mode \in {"Active", "Reconnect"}
          /\ writer_rx' = Tail(writer_rx)
          /\ LET command == Head(writer_rx)
             IN CASE command.type = "Update" -> WriterUpdate(command.conn)
                  [] command.type = "Send" /\ connection_mode = "Reconnect" ->
                       WriterBuffers(command.msg)
                  [] command.type = "Send" /\ connection_mode = "Active" ->
                       WriterStartsSend(command.msg)
          /\ UNCHANGED <<connection_mode, auth_state, controller, reader,
                         raw_rx, drops, taken>>

InHand == IF writer.at = "send" THEN writer.msg ELSE Head(reconnect_buffer)

\* The transport takes the message; on a connection that is down it goes nowhere.
WriterSent ==
    /\ writer.at \in {"send", "drain"}
    /\ connections' = [connections EXCEPT ![writer.conn] =
                         IF @.up THEN receive(@, InHand) ELSE @]
    /\ reconnect_buffer' = IF writer.at = "drain" THEN Tail(reconnect_buffer)
                           ELSE reconnect_buffer
    /\ writer' = [writer EXCEPT !.msg = None,
                    !.at = IF @ = "drain" /\ Len(reconnect_buffer) > 1 THEN "drain" ELSE "top"]
    /\ taken' = ~taken
    /\ UNCHANGED <<connection_mode, auth_state, controller, reader, writer_rx,
                   raw_rx, drops>>

\* Mutant: a message that could not be sent is not kept.
WriterForgets ==
    /\ writer.at \in {"send", "drain"}
    /\ ~connections[writer.conn].up
    /\ writer' = [writer EXCEPT !.at = "top", !.msg = None]
    /\ request_reconnect
    /\ UNCHANGED <<controller, reader, writer_rx, reconnect_buffer, raw_rx, connections,
                   drops, taken>>

\* The transport reports an error; the message is kept for the next connection.
WriterFails ==
    /\ writer.at \in {"send", "drain"}
    /\ ~connections[writer.conn].up
    /\ reconnect_buffer' = IF writer.at = "send" THEN Append(reconnect_buffer, writer.msg)
                           ELSE reconnect_buffer
    /\ writer' = [writer EXCEPT !.at = "top", !.msg = None]
    /\ request_reconnect
    /\ UNCHANGED <<controller, reader, writer_rx, raw_rx, connections, drops, taken>>

Writer == WriterTop \/ WriterRecv \/ WriterSent \/ WriterFails

-----------------------------------------------------------------------------
\* The read task.

\* A message is handled; the task looks at the mode before it waits for the next.
ReaderReceives ==
    /\ reader.running
    /\ connections[reader.conn].outbox # <<>>
    /\ raw_rx' = Append(raw_rx, Head(connections[reader.conn].outbox))
    /\ connections' = [connections EXCEPT ![reader.conn].outbox = Tail(@)]
    /\ reader' = [reader EXCEPT !.running = connection_mode = "Active"]
    /\ UNCHANGED <<connection_mode, auth_state, controller, writer, writer_rx,
                   reconnect_buffer, drops, taken>>

\* The mode is not Active any more, or the connection reports its end.
ReaderEnds ==
    /\ reader.running
    /\ connection_mode # "Active" \/ ~connections[reader.conn].up
    /\ reader' = [reader EXCEPT !.running = FALSE]
    /\ UNCHANGED <<connection_mode, auth_state, controller, writer, writer_rx,
                   reconnect_buffer, raw_rx, connections, drops, taken>>

\* idle_timeout_exceeded: nothing came for the idle timeout, on a connection that is up.
ReaderIdles ==
    /\ reader.running
    /\ drops' = drops + 1
    /\ reader' = [reader EXCEPT !.running = FALSE]
    /\ UNCHANGED <<connection_mode, auth_state, controller, writer, writer_rx,
                   reconnect_buffer, raw_rx, connections, taken>>

-----------------------------------------------------------------------------
\* The controller task.

ControllerGoes(at) ==
    /\ controller' = [controller EXCEPT !.at = at]
    /\ UNCHANGED <<reader, writer, writer_rx, reconnect_buffer, raw_rx, connections>>

ControllerCloses ==
    /\ connection_mode \in {"Disconnect", "Closed"}
    /\ connection_mode' = "Closed"
    /\ TasksEnd
    /\ UNCHANGED <<auth_state, raw_rx>>

\* is_alive does not hold.
ControllerDetects ==
    /\ connection_mode = "Active"
    /\ ~reader.running \/ writer.at = "exited"
    /\ request_reconnect
    /\ ControllerGoes("select")

\* Mutant: one attempt more than the maximum is made.
attempts_exhausted_late == controller.attempts > reconnect_max_attempts

attempts_exhausted == controller.attempts >= reconnect_max_attempts

ControllerGivesUp ==
    /\ connection_mode = "Reconnect"
    /\ attempts_exhausted
    /\ connection_mode' = "Closed"
    /\ auth_state' = "Failed"
    /\ TasksEnd
    /\ UNCHANGED raw_rx

ControllerTries ==
    /\ connection_mode = "Reconnect"
    /\ ~attempts_exhausted
    /\ controller' = [controller EXCEPT !.at = "connect", !.attempts = @ + 1]
    /\ UNCHANGED <<connection_mode, auth_state, reader, writer, writer_rx, reconnect_buffer,
                   raw_rx, connections>>

\* connect_with_server fails or times out: back to the select after the backoff.
ConnectFails ==
    /\ ControllerGoes("select")
    /\ UNCHANGED <<connection_mode, auth_state>>

ConnectSucceeds ==
    LET c == controller.conn + 1
    IN /\ connection_mode # "Disconnect"
       /\ c \in Connections
       /\ controller' = [controller EXCEPT !.at = "await_writer", !.conn = c]
       /\ connections' = [connections EXCEPT ![c] = Up]
       /\ writer_rx' = Append(writer_rx, Update(c))
       /\ UNCHANGED <<connection_mode, auth_state, reader, writer, reconnect_buffer, raw_rx>>

\* Mutant: the controller does not wait for the write task to have the new connection.
writer_confirmed_unasked == TRUE

\* The answer of the write task on the oneshot channel.
writer_confirmed == writer.conn = controller.conn

\* The mode becomes Active if it is still Reconnect, with a read task for the new connection.
SwapReader ==
    /\ writer_confirmed
    /\ connection_mode = "Reconnect"
    /\ connection_mode' = "Active"
    /\ reader' = [running |-> TRUE, conn |-> controller.conn]
    /\ controller' = [controller EXCEPT !.at = "announce", !.attempts = 0]
    /\ UNCHANGED <<auth_state, writer, writer_rx, reconnect_buffer, raw_rx, connections>>

\* The RECONNECTED message, unless the mode has already changed again.
Announce ==
    /\ raw_rx' = IF connection_mode = "Active" THEN Append(raw_rx, Reconnected) ELSE raw_rx
    /\ controller' = [controller EXCEPT !.at = "select"]
    /\ UNCHANGED <<connection_mode, auth_state, reader, writer, writer_rx, reconnect_buffer,
                   connections>>

\* A reconnection under way is given up on a disconnect.
Interrupted ==
    /\ connection_mode = "Disconnect"
    /\ ControllerGoes("select")
    /\ UNCHANGED <<connection_mode, auth_state>>

Controller ==
    /\ \/ /\ controller.at = "select"
          /\ ControllerCloses \/ ControllerDetects \/ ControllerGivesUp \/ ControllerTries
       \/ controller.at = "connect" /\ (ConnectFails \/ ConnectSucceeds \/ Interrupted)
       \/ /\ controller.at = "await_writer"
          /\ SwapReader \/ Interrupted
       \/ controller.at = "announce" /\ Announce
    /\ UNCHANGED <<drops, taken>>

-----------------------------------------------------------------------------
\* External: a connection goes down.
GoesDown(c) ==
    /\ connections[c].up
    /\ connections' = [connections EXCEPT ![c] = Down]
    /\ drops' = drops + 1
    /\ UNCHANGED <<connection_mode, auth_state, controller, reader, writer,
                   writer_rx, reconnect_buffer, raw_rx, taken>>
=============================================================================
