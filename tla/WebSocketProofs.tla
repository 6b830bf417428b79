--------------------------- MODULE WebSocketProofs ---------------------------
(***************************************************************************)
(* The client of BybitWebSocket implements the promise of                  *)
(* WebSocketSession, its tasks agree on the connection while it is active, *)
(* the topics with subscribers stay tracked, and buffered messages wait    *)
(* for the login, for any number of topics, calls, connections, drops and  *)
(* attempts.                                                               *)
(***************************************************************************)
EXTENDS BybitWebSocket, TLAPS

\* A step that names no prover is Zenon's.
USE Zenon

-----------------------------------------------------------------------------
\* The tracker of subscriptions: its sets are disjoint.
Typed(s) ==
    /\ s \in [confirmed : SUBSET Topics, pending_subscribe : SUBSET Topics,
              pending_unsubscribe : SUBSET Topics, reference_counts : [Topics -> Nat]]
    /\ s.confirmed \cap s.pending_subscribe = {}
    /\ all_topics(s) \cap s.pending_unsubscribe = {}

\* No topic is lost between two states of the tracker, and no reference.
Keeps(s, r) ==
    /\ Typed(r)
    /\ r.reference_counts = s.reference_counts
    /\ all_topics(s) \subseteq all_topics(r)

\* The answers of the venue to requests lose nothing.
LEMMA AnswersKeep ==
    ASSUME NEW s, Typed(s), NEW t \in Topics
    PROVE  /\ Keeps(s, confirm_subscribe(s, t))
           /\ Keeps(s, confirm_unsubscribe(s, t))
           /\ Keeps(s, mark_failure(s, t))
<1>1. Keeps(s, confirm_subscribe(s, t))
  BY Zenon DEF Keeps, Typed, all_topics, confirm_subscribe
<1>2. Keeps(s, confirm_unsubscribe(s, t))
  BY Zenon DEF Keeps, Typed, all_topics, confirm_unsubscribe
<1>3. Keeps(s, mark_failure(s, t))
  BY Zenon DEF Keeps, Typed, all_topics, mark_failure
<1> QED
  BY <1>1, <1>2, <1>3

\* Nor do a reconnection and the subscriptions made again after it.
LEMMA RestoreKeeps ==
    ASSUME NEW s, Typed(s)
    PROVE  /\ Keeps(s, mark_reconnected(s))
           /\ \A topics \in SUBSET Topics : Keeps(s, mark_all(s, topics))
<1>1. Keeps(s, mark_reconnected(s))
  BY Zenon DEF Keeps, Typed, all_topics, mark_reconnected
<1>2. ASSUME NEW topics \in SUBSET Topics
      PROVE  Keeps(s, mark_all(s, topics))
  BY Zenon DEF Keeps, Typed, all_topics, mark_all
<1> QED
  BY <1>1, <1>2

\* The reference counts of the subscribers.
LEMMA ReferencesTyped ==
    ASSUME NEW s, Typed(s), NEW t \in Topics
    PROVE  /\ Typed(add_reference(s, t)) /\ Typed(remove_reference(s, t))
           /\ all_topics(add_reference(s, t)) = all_topics(s)
           /\ all_topics(remove_reference(s, t)) = all_topics(s)
           /\ \A u \in Topics :
                /\ add_reference(s, t).reference_counts[u] > 0 =>
                     s.reference_counts[u] > 0 \/ (u = t /\ is_first_reference(s, t))
                /\ remove_reference(s, t).reference_counts[u] > 0 => s.reference_counts[u] > 0
<1>1. s.reference_counts \in [Topics -> Nat]
  BY DEF Typed
<1>2. /\ [s.reference_counts EXCEPT ![t] = @ + 1] \in [Topics -> Nat]
      /\ s.reference_counts[t] # 0 => [s.reference_counts EXCEPT ![t] = @ - 1] \in [Topics -> Nat]
  BY <1>1, SMT
<1>3. Typed(add_reference(s, t)) /\ all_topics(add_reference(s, t)) = all_topics(s)
  BY <1>2, Zenon DEF Typed, all_topics, add_reference
<1>4. Typed(remove_reference(s, t)) /\ all_topics(remove_reference(s, t)) = all_topics(s)
  BY <1>2, Zenon DEF Typed, all_topics, remove_reference
<1>5. ASSUME NEW u \in Topics
      PROVE  /\ add_reference(s, t).reference_counts[u] > 0 =>
                  s.reference_counts[u] > 0 \/ (u = t /\ is_first_reference(s, t))
             /\ remove_reference(s, t).reference_counts[u] > 0 => s.reference_counts[u] > 0
  BY <1>1, SMT DEF Typed, is_first_reference, add_reference, remove_reference
<1> QED
  BY <1>3, <1>4, <1>5

\* The marks of the subscribers.
LEMMA MarksTyped ==
    ASSUME NEW s, Typed(s), NEW t \in Topics
    PROVE  /\ Keeps(s, mark_subscribe(s, t)) /\ t \in all_topics(mark_subscribe(s, t))
           /\ Typed(mark_unsubscribe(s, t))
           /\ mark_unsubscribe(s, t).reference_counts = s.reference_counts
           /\ all_topics(s) \ {t} \subseteq all_topics(mark_unsubscribe(s, t))
<1>1. Keeps(s, mark_subscribe(s, t)) /\ t \in all_topics(mark_subscribe(s, t))
  BY Zenon DEF Keeps, Typed, all_topics, mark_subscribe
<1>2. /\ Typed(mark_unsubscribe(s, t))
      /\ mark_unsubscribe(s, t).reference_counts = s.reference_counts
      /\ all_topics(s) \ {t} \subseteq all_topics(mark_unsubscribe(s, t))
  BY Zenon DEF Typed, all_topics, mark_unsubscribe
<1> QED
  BY <1>1, <1>2

-----------------------------------------------------------------------------
\* The channel to the write task: it holds one new writer, the controller's, as long as the
\* write task works with another.
OneUpdate(q, from, to) ==
    /\ \A i \in 1 .. Len(q) : q[i].type = "Update" => from # to /\ q[i].conn = to
    /\ \A i, j \in 1 .. Len(q) : q[i].type = "Update" /\ q[j].type = "Update" => i = j
    /\ from # to => \E i \in 1 .. Len(q) : q[i].type = "Update"

\* A command has one of two forms.
LEMMA CommandForms ==
    ASSUME NEW c \in Commands
    PROVE  \/ c.type = "Send" /\ c.msg \in Messages
           \/ c.type = "Update" /\ c.conn \in Connections
BY SMT DEF Commands, Send, Update

\* The channel when a command is added to it.
LEMMA CommandAdded ==
    ASSUME NEW q \in Seq(Commands), NEW from, NEW to, OneUpdate(q, from, to)
    PROVE  /\ \A m \in Messages : /\ Append(q, Send(m)) \in Seq(Commands)
                                  /\ OneUpdate(Append(q, Send(m)), from, to)
           /\ \A c \in Connections : from = to /\ c # from =>
                /\ Append(q, Update(c)) \in Seq(Commands)
                /\ OneUpdate(Append(q, Update(c)), from, c)
<1>1. ASSUME NEW m \in Messages
      PROVE  /\ Append(q, Send(m)) \in Seq(Commands)
             /\ OneUpdate(Append(q, Send(m)), from, to)
  <2>1. Send(m) \in Commands /\ Send(m).type = "Send"
    BY DEF Commands, Send
  <2> DEFINE a == Send(m)
  <2> HIDE DEF a
  <2> QED
    BY <2>1, SMT DEF OneUpdate, a
<1>2. ASSUME NEW c \in Connections, from = to, c # from
      PROVE  /\ Append(q, Update(c)) \in Seq(Commands)
             /\ OneUpdate(Append(q, Update(c)), from, c)
  <2>1. Update(c) \in Commands /\ Update(c).type = "Update" /\ Update(c).conn = c
    BY DEF Commands, Update
  <2> DEFINE a == Update(c)
             r == Append(q, a)
  <2> HIDE DEF a
  <2>2. /\ r \in Seq(Commands) /\ Len(r) = Len(q) + 1 /\ r[Len(r)] = a /\ Len(q) \in Nat
        /\ \A i \in 1 .. Len(q) : r[i] = q[i]
    BY <2>1, SMT DEF a
  <2> HIDE DEF r
  <2>3. \A i \in 1 .. Len(r) : r[i].type = "Update" => i = Len(r)
    BY <1>2, <2>2, SMT DEF OneUpdate
  <2>4. OneUpdate(r, from, c)
    BY <1>2, <2>1, <2>2, <2>3, SMT DEF OneUpdate, a
  <2> QED
    BY <2>2, <2>4 DEF r, a
<1> QED
  BY <1>1, <1>2

\* The channel when a command is received from it.
LEMMA CommandReceived ==
    ASSUME NEW q \in Seq(Commands), q # <<>>, NEW from, NEW to, OneUpdate(q, from, to)
    PROVE  /\ Head(q) \in Commands
           /\ Tail(q) \in Seq(Commands)
           /\ Len(Tail(q)) = Len(q) - 1
           /\ Head(q).type = "Send" => OneUpdate(Tail(q), from, to)
           /\ Head(q).type = "Update" => /\ from # to
                                         /\ Head(q).conn = to
                                         /\ OneUpdate(Tail(q), to, to)
<1>1. /\ Head(q) = q[1] /\ q[1] \in Commands /\ Len(q) \in Nat /\ Len(q) > 0
      /\ Tail(q) \in Seq(Commands) /\ Len(Tail(q)) = Len(q) - 1
      /\ \A i \in 1 .. Len(Tail(q)) : Tail(q)[i] = q[i + 1]
  BY SMT
<1>2. \A i \in 1 .. Len(Tail(q)) : i + 1 \in 1 .. Len(q) /\ i + 1 # 1
  BY <1>1, SMT
<1>3. ASSUME Head(q).type = "Send"
      PROVE  OneUpdate(Tail(q), from, to)
  <2>1. \A i \in 1 .. Len(q) : q[i].type = "Update" => i - 1 \in 1 .. Len(Tail(q))
    BY <1>1, <1>3, SMT
  <2>2. from # to => \E i \in 1 .. Len(Tail(q)) : Tail(q)[i].type = "Update"
    <3> SUFFICES ASSUME from # to
                 PROVE  \E i \in 1 .. Len(Tail(q)) : Tail(q)[i].type = "Update"
      OBVIOUS
    <3>1. PICK i \in 1 .. Len(q) : q[i].type = "Update"
      BY DEF OneUpdate
    <3>2. i - 1 \in 1 .. Len(Tail(q)) /\ (i - 1) + 1 = i
      BY <2>1, <3>1, SMT
    <3>3. Tail(q)[i - 1] = q[(i - 1) + 1]
      BY <1>1, <3>2
    <3> QED
      BY <3>1, <3>2, <3>3
  <2> QED
    BY <1>1, <1>2, <2>2, SMT DEF OneUpdate
<1>4. ASSUME Head(q).type = "Update"
      PROVE  from # to /\ Head(q).conn = to /\ OneUpdate(Tail(q), to, to)
  <2>1. from # to /\ Head(q).conn = to
    BY <1>1, <1>4, SMT DEF OneUpdate
  <2>2. \A i \in 1 .. Len(Tail(q)) : Tail(q)[i].type # "Update"
    BY <1>1, <1>2, <1>4, SMT DEF OneUpdate
  <2> QED
    BY <2>1, <2>2 DEF OneUpdate
<1> QED
  BY <1>1, <1>3, <1>4

-----------------------------------------------------------------------------
\* How the modes of the tasks hang together.
Linked ==
    /\ connection_mode = "Closed" => controller.at = "done"
    /\ controller.at = "done" =>
          /\ writer.at = "exited"
          /\ connection_mode = "Closed" \/ handler.at = "stopped"
    /\ writer.at = "exited" =>
          \/ connection_mode \in {"Disconnect", "Closed"}
          \/ controller.at = "done"
    /\ writer.at = "drain" => reconnect_buffer # <<>>
    /\ writer.at = "send" => writer.msg \in Messages
    /\ handler.at = "sending" => handler.msgs # <<>>
    /\ handler.at = "disconnecting" => connection_mode \in {"Disconnect", "Closed"}
    /\ controller.at \in {"connect", "await_writer"} =>
          connection_mode \in {"Reconnect", "Disconnect"}
    /\ controller.at = "await_writer" => reader.conn < controller.conn
    /\ reader.conn <= controller.conn
    /\ controller.conn # writer.conn =>
          \/ controller.at \in {"await_writer", "done"}
          \/ connection_mode \in {"Disconnect", "Closed"}
    /\ OneConnection
    /\ writer.at # "exited" => OneUpdate(writer_rx, writer.conn, controller.conn)

Inv == TypeOK /\ Linked

\* What the venue does with a message leaves a connection well formed.
LEMMA ReceiveTyped ==
    ASSUME NEW c \in ConnectionStates, NEW m \in Messages
    PROVE  receive(c, m) \in ConnectionStates
<1> DEFINE type == answer(c, m)
<1>1. /\ Frame(type, m.topic) \in Frames
      /\ type \in {"Subscribed", "Unsubscribed"} => m.topic \in Topics
  <2>1. CASE m = Auth
    BY <2>1, SMT DEF Auth, answer, Frame, Frames
  <2>2. ASSUME NEW t \in Topics, m = Subscribe(t)
        PROVE  /\ Frame(type, m.topic) \in Frames
               /\ type \in {"Subscribed", "Unsubscribed"} => m.topic \in Topics
    BY <2>2, SMT DEF Subscribe, answer, Frame, Frames
  <2>3. ASSUME NEW t \in Topics, m = Unsubscribe(t)
        PROVE  /\ Frame(type, m.topic) \in Frames
               /\ type \in {"Subscribed", "Unsubscribed"} => m.topic \in Topics
    BY <2>3, SMT DEF Unsubscribe, answer, Frame, Frames
  <2> QED
    BY <2>1, <2>2, <2>3 DEF Messages
<1>2. /\ c.up \in BOOLEAN /\ c.authenticated \in BOOLEAN
      /\ c.topics \in SUBSET Topics /\ c.outbox \in Seq(Frames)
  BY DEF ConnectionStates
<1> HIDE DEF type
<1>3. Append(c.outbox, Frame(type, m.topic)) \in Seq(Frames)
  BY <1>1, <1>2, SMT
<1>4. CASE type = "Subscribed"
  <2>1. c.topics \cup {m.topic} \in SUBSET Topics
    BY <1>1, <1>2, <1>4
  <2> QED
    BY <1>2, <1>3, <1>4, <2>1 DEF receive, ConnectionStates, type
<1>5. CASE type = "Unsubscribed"
  BY <1>2, <1>3, <1>5 DEF receive, ConnectionStates, type
<1>6. CASE type \notin {"Subscribed", "Unsubscribed"}
  BY <1>2, <1>3, <1>6, Zenon DEF receive, ConnectionStates, type
<1> QED
  BY <1>4, <1>5, <1>6

\* A connection is well formed when it is made and when it is down.
LEMMA UpAndDownTyped == Up \in ConnectionStates /\ Down \in ConnectionStates
<1>1. <<>> \in Seq(Frames)
  BY SMT
<1> QED
  BY <1>1, Zenon DEF Up, Down, ConnectionStates

\* The steps, with what each leaves of the history variables.
HandlerFrame == /\ stale_login' \in BOOLEAN
                /\ UNCHANGED <<fixed, signal, calls, callers, overtaken, crossed>>
ClientFrame == /\ crossed' \subseteq Topics \cup {None}
               /\ UNCHANGED <<adapter, fixed, overtaken, stale_login>>

\* What a step of Next is.
LEMMA Steps ==
    ASSUME TypeOK, Next
    PROVE  \/ \E t \in Topics : subscribe(t) \/ unsubscribe(t) \/ Caller(t)
           \/ close
           \/ close_returns
           \/ /\ HandlerFrame
              /\ \/ HandleCommand \/ SendNext \/ SendFails \/ Disconnected
                 \/ HandleMessage \/ Resubscribe \/ HandlerStops \/ close_aborts
           \/ /\ ClientFrame
              /\ \/ WriterTop \/ WriterRecv \/ WriterSent \/ WriterFails
                 \/ ReaderReceives \/ ReaderEnds \/ ReaderIdles \/ Controller
                 \/ \E c \in Connections : GoesDown(c)
<1>1. ASSUME Handler \/ close_aborts
      PROVE  HandlerFrame
  BY <1>1, Zenon DEF Handler, close_aborts, HandlerFrame, history, TypeOK
<1>2. ASSUME ClientTasks
      PROVE  ClientFrame
  <2>1. \A m \in Messages : m.topic \in Topics \cup {None}
    BY SMT DEF Messages, Auth, Subscribe, Unsubscribe
  <2>2. Range(reconnect_buffer) \subseteq Messages
    BY SMT DEF TypeOK, Range
  <2> QED
    BY <1>2, <2>1, <2>2, SMT DEF ClientTasks, ClientFrame, TypeOK
<1> QED
  BY <1>1, <1>2 DEF Next, Handler, ClientTasks, Writer

\* The initial states.
LEMMA InitInv == Init => Inv
<1> SUFFICES ASSUME Init
             PROVE  Inv
  OBVIOUS
<1>1. Auth \in Messages /\ <<Auth>> # <<>> /\ <<Auth>> \in Seq(Messages)
  BY SMT DEF Messages
<1>2. cmd_rx \in Seq({Disconnect} \cup [type : {"Payloads"}, msgs : Seq(Messages) \ {<<>>}])
  <2>1. Payloads(<<Auth>>) \in [type : {"Payloads"}, msgs : Seq(Messages) \ {<<>>}]
    BY <1>1 DEF Payloads
  <2>2. cmd_rx = <<Payloads(<<Auth>>)>> \/ cmd_rx = <<>>
    BY Zenon DEF Init
  <2>3. \A S : \A x \in S : <<x>> \in Seq(S) /\ <<>> \in Seq(S)
    BY SMT
  <2> QED
    BY <2>1, <2>2, <2>3, Zenon
<1>3. Typed(subscriptions) /\ callers \in [Topics -> [CallSteps -> Nat]]
  BY SMT DEF Init, NoSubscriptions, Typed, all_topics
<1>4. 1 \in Connections /\ connections \in [Connections -> ConnectionStates]
  BY UpAndDownTyped, ClientAssumption, SMT DEF Init, ClientInit, Connections
<1>5. TypeOK
  <2>1. handler \in [at : {"idle", "sending", "resubscribing", "disconnecting", "stopped"},
                     msgs : Seq(Messages), topics : SUBSET Topics]
    BY SMT DEF Init, Idle
  <2>2. reader \in [running : BOOLEAN, conn : Connections]
    BY <1>4, Zenon DEF Init, ClientInit
  <2>3. writer \in [at : {"top", "recv", "drain", "send", "exited"}, conn : Connections,
                    msg : Messages \cup {None}]
    BY <1>4 DEF Init, ClientInit
  <2>4. controller \in [at : {"select", "connect", "await_writer", "announce", "done"},
                        attempts : 0 .. reconnect_max_attempts, conn : Connections]
    BY <1>4, ClientAssumption, SMT DEF Init, ClientInit
  <2>5. /\ taken \in BOOLEAN /\ requires_auth \in BOOLEAN /\ credentials \in BOOLEAN
        /\ signal \in BOOLEAN /\ stale_login \in BOOLEAN
    BY Zenon DEF Init, ClientInit, VenueInit
  <2>6. /\ writer_rx \in Seq(Commands) /\ reconnect_buffer \in Seq(Messages)
        /\ raw_rx \in Seq(Frames \cup {Reconnected})
        /\ drops \in Nat /\ calls \in Nat
        /\ overtaken \subseteq Topics /\ crossed \subseteq Topics \cup {None}
        /\ connection_mode \in ConnectionMode /\ auth_state \in AuthState
    BY SMT DEF Init, ClientInit, ConnectionMode, AuthState
  <2> QED
    BY <1>2, <1>3, <1>4, <2>1, <2>2, <2>3, <2>4, <2>5, <2>6 DEF TypeOK, Typed
<1>6. Linked
  BY SMT DEF Init, ClientInit, Idle, Linked, OneConnection, OneUpdate
<1> QED
  BY <1>5, <1>6 DEF Inv

-----------------------------------------------------------------------------
\* The parts of the invariant.
HandlerCommands == {Disconnect} \cup [type : {"Payloads"}, msgs : Seq(Messages) \ {<<>>}]

ModeTyped == connection_mode \in ConnectionMode /\ auth_state \in AuthState
TasksTyped ==
    /\ controller \in [at : {"select", "connect", "await_writer", "announce", "done"},
                       attempts : 0 .. reconnect_max_attempts, conn : Connections]
    /\ reader \in [running : BOOLEAN, conn : Connections]
    /\ writer \in [at : {"top", "recv", "drain", "send", "exited"}, conn : Connections,
                   msg : Messages \cup {None}]
    /\ reconnect_buffer \in Seq(Messages)
    /\ connections \in [Connections -> ConnectionStates]
    /\ drops \in Nat
    /\ taken \in BOOLEAN
QueuesTyped == writer_rx \in Seq(Commands) /\ raw_rx \in Seq(Frames \cup {Reconnected})
AdapterTyped ==
    /\ Typed(subscriptions)
    /\ cmd_rx \in Seq(HandlerCommands)
    /\ handler \in [at : {"idle", "sending", "resubscribing", "disconnecting", "stopped"},
                    msgs : Seq(Messages), topics : SUBSET Topics]
HistoryTyped ==
    /\ requires_auth \in BOOLEAN /\ credentials \in BOOLEAN /\ signal \in BOOLEAN
    /\ calls \in Nat
    /\ callers \in [Topics -> [CallSteps -> Nat]]
    /\ overtaken \subseteq Topics
    /\ crossed \subseteq Topics \cup {None}
    /\ stale_login \in BOOLEAN

\* The invariant is the conjunction of its parts.
LEMMA Parts ==
    /\ Inv <=> /\ ModeTyped /\ TasksTyped /\ QueuesTyped /\ AdapterTyped /\ HistoryTyped
               /\ Linked
    /\ Inv' <=> /\ ModeTyped' /\ TasksTyped' /\ QueuesTyped' /\ AdapterTyped'
                /\ HistoryTyped' /\ Linked'
BY Zenon DEF Inv, TypeOK, Typed, ModeTyped, TasksTyped, QueuesTyped, AdapterTyped,
   HistoryTyped, HandlerCommands

\* Parts that a step leaves alone.
LEMMA PartsKept ==
    /\ UNCHANGED tasks /\ TasksTyped => TasksTyped'
    /\ UNCHANGED client /\ ModeTyped => ModeTyped'
    /\ UNCHANGED client /\ QueuesTyped => QueuesTyped'
    /\ UNCHANGED client /\ UNCHANGED handler /\ Linked => Linked'
    /\ UNCHANGED <<fixed, adapter, history>> /\ HistoryTyped => HistoryTyped'
BY Zenon DEF tasks, client, fixed, adapter, history, ModeTyped, TasksTyped, QueuesTyped,
   HistoryTyped, Linked, OneConnection, OneUpdate

\* A queue of commands, when one is added.
LEMMA QueueAppended ==
    ASSUME NEW S, NEW q \in Seq(S), NEW x \in S
    PROVE  Append(q, x) \in Seq(S)
BY SMT

\* A call counts a reference, marks a topic, or sends a command.
LEMMA CallStep ==
    ASSUME Inv, \E t \in Topics : subscribe(t) \/ unsubscribe(t) \/ Caller(t)
    PROVE  Inv'
<1> USE Parts, PartsKept
<1>1. PICK t \in Topics : subscribe(t) \/ unsubscribe(t) \/ Caller(t)
  OBVIOUS
<1>2. Typed(subscriptions) /\ callers \in [Topics -> [CallSteps -> Nat]] /\ calls \in Nat
  BY DEF AdapterTyped, HistoryTyped
<1>3. UNCHANGED <<client, fixed, handler, signal, stale_login>>
  BY <1>1, Zenon DEF subscribe, unsubscribe, Caller, MarkSubscribe, MarkUnsubscribe,
     SendCommand, history
<1>4. Typed(subscriptions')
  <2>1. Typed(add_reference(subscriptions, t)) /\ Typed(remove_reference(subscriptions, t))
    BY <1>2, ReferencesTyped
  <2>2. Typed(mark_subscribe(subscriptions, t)) /\ Typed(mark_unsubscribe(subscriptions, t))
    BY <1>2, MarksTyped DEF Keeps
  <2> QED
    BY <1>1, <1>2, <2>1, <2>2, Zenon DEF subscribe, unsubscribe, Caller, MarkSubscribe,
       MarkUnsubscribe, SendCommand
<1>5. cmd_rx' \in Seq(HandlerCommands)
  <2>1. Payloads(<<Subscribe(t)>>) \in HandlerCommands
    BY SMT DEF HandlerCommands, Payloads, Messages
  <2>2. Payloads(<<Unsubscribe(t)>>) \in HandlerCommands
    BY SMT DEF HandlerCommands, Payloads, Messages
  <2>3. \/ cmd_rx' = cmd_rx
        \/ cmd_rx' = Append(cmd_rx, Payloads(<<Subscribe(t)>>))
        \/ cmd_rx' = Append(cmd_rx, Payloads(<<Unsubscribe(t)>>))
    BY <1>1, Zenon DEF subscribe, unsubscribe, Caller, MarkSubscribe, MarkUnsubscribe,
       SendCommand
  <2>4. cmd_rx \in Seq(HandlerCommands)
    BY Zenon DEF AdapterTyped
  <2> QED
    BY <2>1, <2>2, <2>3, <2>4, QueueAppended, Zenon
<1>6. callers' \in [Topics -> [CallSteps -> Nat]]
  <2>1. \A step \in CallSteps :
          /\ [callers EXCEPT ![t][step] = @ + 1] \in [Topics -> [CallSteps -> Nat]]
          /\ callers[t][step] > 0 =>
               [callers EXCEPT ![t][step] = @ - 1] \in [Topics -> [CallSteps -> Nat]]
    BY <1>2, SMT
  <2>2. \A from, to \in CallSteps : from # to /\ callers[t][from] > 0 =>
          [callers EXCEPT ![t][from] = @ - 1, ![t][to] = @ + 1] \in [Topics -> [CallSteps -> Nat]]
    BY <1>2, SMT
  <2>3. /\ "mark_subscribe" \in CallSteps /\ "send_subscribe" \in CallSteps
        /\ "mark_unsubscribe" \in CallSteps /\ "send_unsubscribe" \in CallSteps
    BY DEF CallSteps
  <2>4. CASE subscribe(t) \/ unsubscribe(t)
    BY <1>2, <2>1, <2>3, <2>4, ZenonT(30) DEF subscribe, unsubscribe, GoesOn
  <2>5. CASE MarkSubscribe(t)
    BY <2>2, <2>3, <2>5 DEF MarkSubscribe
  <2>6. CASE MarkUnsubscribe(t)
    BY <2>2, <2>3, <2>6 DEF MarkUnsubscribe
  <2>7. CASE \/ SendCommand(t, "send_subscribe", Subscribe(t))
             \/ SendCommand(t, "send_unsubscribe", Unsubscribe(t))
    BY <2>1, <2>3, <2>7 DEF SendCommand
  <2> QED
    BY <1>1, <2>4, <2>5, <2>6, <2>7 DEF Caller
<1>7. calls' \in Nat
  BY <1>1, <1>2, SMT DEF subscribe, unsubscribe, Caller, MarkSubscribe, MarkUnsubscribe,
     SendCommand
<1>8. overtaken' \in {overtaken, overtaken \cup {t}} /\ crossed' \in {crossed, crossed \cup {t}}
  BY <1>1, Zenon DEF subscribe, unsubscribe, GoesOn, Caller, MarkSubscribe, MarkUnsubscribe,
     SendCommand, history
<1>9. HistoryTyped'
  <2>1. overtaken' \subseteq Topics /\ crossed' \subseteq Topics \cup {None}
    BY <1>8 DEF HistoryTyped
  <2> QED
    BY <1>3, <1>6, <1>7, <2>1 DEF HistoryTyped, fixed
<1>10. AdapterTyped'
  BY <1>3, <1>4, <1>5 DEF AdapterTyped
<1> QED
  BY <1>3, <1>9, <1>10 DEF client

\* The owner closes the client.
LEMMA CloseStep ==
    ASSUME Inv, close \/ close_returns
    PROVE  Inv'
<1> USE Parts, PartsKept
<1>1. ASSUME close
      PROVE  Inv'
  <2>1. AdapterTyped'
    BY <1>1, SMT DEF AdapterTyped, HandlerCommands, close
  <2>2. HistoryTyped'
    BY <1>1 DEF HistoryTyped, close, fixed, history
  <2> QED
    BY <1>1, <2>1, <2>2, Zenon DEF close, client
<1>2. ASSUME close_returns
      PROVE  Inv'
  <2>1. ModeTyped' /\ QueuesTyped' /\ AdapterTyped'
    BY <1>2 DEF ModeTyped, QueuesTyped, AdapterTyped, AuthState, close_returns, adapter
  <2>2. Linked'
    BY <1>2 DEF Linked, OneConnection, OneUpdate, close_returns, adapter, tasks
  <2> QED
    BY <1>2, <2>1, <2>2, Zenon DEF close_returns
<1> QED
  BY <1>1, <1>2

-----------------------------------------------------------------------------
\* What is sent to the write task.
LEMMA SendKept ==
    ASSUME Inv, NEW m \in Messages, send_text(m), handler.at # "stopped"
    PROVE  /\ writer_rx' \in Seq(Commands)
           /\ writer.at # "exited"
           /\ OneUpdate(writer_rx', writer.conn, controller.conn)
           /\ Len(writer_rx') = Len(writer_rx) + 1
<1>1. /\ writer.at # "exited" /\ OneUpdate(writer_rx, writer.conn, controller.conn)
      /\ writer_rx \in Seq(Commands)
  BY DEF Inv, Linked, TypeOK, send_text
<1> QED
  BY <1>1, CommandAdded, SMT DEF send_text

\* The rest of a command's messages.
LEMMA RestTyped ==
    ASSUME AdapterTyped, NEW msgs \in Seq(Messages), msgs # <<>>
    PROVE  /\ Head(msgs) \in Messages
           /\ Rest(msgs) \in [at : {"idle", "sending", "resubscribing", "disconnecting", "stopped"},
                              msgs : Seq(Messages), topics : SUBSET Topics]
           /\ Rest(msgs).at \in {"idle", "sending"}
           /\ Rest(msgs).at = "sending" => Rest(msgs).msgs # <<>>
<1>1. Head(msgs) \in Messages
  BY SMT
<1>2. CASE Len(msgs) > 1
  <2>1. Tail(msgs) \in Seq(Messages) /\ Len(Tail(msgs)) = Len(msgs) - 1
    BY <1>2, SMT
  <2>2. Len(Tail(msgs)) # 0 /\ Len(<<>>) = 0
    BY <1>2, <2>1, SMT
  <2>3. Tail(msgs) # <<>>
    BY <2>2, Zenon
  <2> QED
    BY <1>1, <1>2, <2>1, <2>3, Zenon DEF Rest, AdapterTyped
<1>3. CASE ~(Len(msgs) > 1)
  BY <1>1, <1>3, SMT DEF Rest, Idle
<1> QED
  BY <1>2, <1>3

\* The feed handler takes a command.
LEMMA CommandStep ==
    ASSUME Inv, HandlerFrame, HandleCommand
    PROVE  Inv'
<1> USE Parts, PartsKept
<1> DEFINE command == Head(cmd_rx)
<1>1. /\ cmd_rx \in Seq(HandlerCommands) /\ cmd_rx # <<>> /\ handler.at = "idle"
      /\ command \in HandlerCommands /\ cmd_rx' \in Seq(HandlerCommands)
  BY SMT DEF AdapterTyped, HandleCommand
<1>2. HistoryTyped' /\ TasksTyped' /\ Typed(subscriptions')
  <2>1. HistoryTyped'
    BY Zenon DEF HistoryTyped, HandlerFrame, fixed
  <2> QED
    BY <2>1, Zenon DEF HandleCommand, AdapterTyped
<1>3. CASE command.type = "Payloads" /\ connection_mode = "Active"
  <2>1. command.msgs \in Seq(Messages) /\ command.msgs # <<>>
    BY <1>1, <1>3, SMT DEF HandlerCommands, Disconnect
  <2>2. /\ send_text(Head(command.msgs)) /\ handler' = Rest(command.msgs)
        /\ UNCHANGED <<connection_mode, auth_state, tasks, raw_rx>>
    BY <1>3, Zenon DEF HandleCommand
  <2>3. /\ writer_rx' \in Seq(Commands) /\ writer.at # "exited"
        /\ OneUpdate(writer_rx', writer.conn, controller.conn)
    BY <1>1, <2>1, <2>2, RestTyped, SendKept
  <2>4. AdapterTyped'
    BY <1>1, <1>2, <2>1, <2>2, RestTyped DEF AdapterTyped
  <2>5. ModeTyped' /\ QueuesTyped'
    BY <2>2, <2>3 DEF ModeTyped, QueuesTyped
  <2>6. handler'.at \in {"idle", "sending"} /\ (handler'.at = "sending" => handler'.msgs # <<>>)
    BY <2>1, <2>2, RestTyped
  <2>7. Linked'
    BY <1>1, <2>2, <2>3, <2>6 DEF Linked, OneConnection, tasks
  <2> QED
    BY <1>2, <2>4, <2>5, <2>7
<1>4. CASE command.type = "Payloads" /\ connection_mode # "Active"
  <2>1. command.msgs \in Seq(Messages) /\ command.msgs # <<>>
    BY <1>1, <1>4, SMT DEF HandlerCommands, Disconnect
  <2>2. /\ handler' = [handler EXCEPT !.at = "sending", !.msgs = command.msgs]
        /\ UNCHANGED client
    BY <1>4, Zenon DEF HandleCommand, client
  <2>3. AdapterTyped'
    BY <1>1, <1>2, <2>1, <2>2, Zenon DEF AdapterTyped
  <2>4. handler'.at = "sending" /\ handler'.msgs # <<>>
    BY <2>1, <2>2 DEF AdapterTyped
  <2>5. Linked'
    BY <1>1, <2>2, <2>4 DEF Linked, OneConnection, client, tasks
  <2> QED
    BY <1>2, <2>2, <2>3, <2>5
<1>5. CASE command.type = "Disconnect"
  <2>1. /\ handler' = [handler EXCEPT !.at = "disconnecting"]
        /\ request_disconnect
        /\ UNCHANGED <<tasks, writer_rx, raw_rx>>
    BY <1>5, Zenon DEF HandleCommand
  <2>2. AdapterTyped' /\ handler'.at = "disconnecting"
    BY <1>1, <1>2, <2>1 DEF AdapterTyped
  <2>3. ModeTyped' /\ QueuesTyped'
    BY <2>1 DEF ModeTyped, QueuesTyped, request_disconnect, ConnectionMode, AuthState
  <2>4. Linked'
    BY <1>1, <2>1, <2>2 DEF Linked, OneConnection, request_disconnect, tasks, ModeTyped, ConnectionMode
  <2> QED
    BY <1>2, <2>2, <2>3, <2>4
<1> QED
  BY <1>1, <1>3, <1>4, <1>5, SMT DEF HandlerCommands, Disconnect

\* The feed handler sends, or gives it up.
LEMMA SendStep ==
    ASSUME Inv, HandlerFrame, SendNext \/ SendFails
    PROVE  Inv'
<1> USE Parts, PartsKept
<1>1. /\ handler.msgs \in Seq(Messages) /\ handler.msgs # <<>> /\ handler.at = "sending"
      /\ handler' = Rest(handler.msgs)
      /\ UNCHANGED <<connection_mode, auth_state, tasks, raw_rx, subscriptions, cmd_rx>>
  BY DEF AdapterTyped, Linked, SendNext, SendFails, client
<1>2. HistoryTyped'
  BY Zenon DEF HistoryTyped, HandlerFrame, fixed
<1>3. /\ AdapterTyped'
      /\ handler'.at \in {"idle", "sending"} /\ (handler'.at = "sending" => handler'.msgs # <<>>)
  BY <1>1, RestTyped DEF AdapterTyped
<1>4. /\ writer_rx' \in Seq(Commands)
      /\ writer.at # "exited" => OneUpdate(writer_rx', writer.conn, controller.conn)
  <2>1. CASE SendNext
    BY <1>1, <2>1, RestTyped, SendKept DEF SendNext
  <2>2. CASE SendFails
    BY <2>2 DEF SendFails, client, Linked, QueuesTyped
  <2> QED
    BY <2>1, <2>2
<1>5. ModeTyped' /\ QueuesTyped'
  BY <1>1, <1>4 DEF ModeTyped, QueuesTyped
<1>6. Linked'
  BY <1>1, <1>3, <1>4 DEF Linked, OneConnection, tasks
<1> QED
  BY <1>1, <1>2, <1>3, <1>5, <1>6

\* The end of the tasks.
LEMMA TasksEndKept ==
    ASSUME Inv, TasksEnd, UNCHANGED <<raw_rx, drops, taken>>
    PROVE  /\ TasksTyped' /\ QueuesTyped'
           /\ controller'.at = "done" /\ controller'.conn = controller.conn
           /\ reader'.conn = reader.conn
           /\ writer'.at = "exited" /\ writer'.conn = writer.conn
<1> USE Parts
<1>1. controller' \in [at : {"select", "connect", "await_writer", "announce", "done"},
                       attempts : 0 .. reconnect_max_attempts, conn : Connections]
      /\ controller'.at = "done" /\ controller'.conn = controller.conn
  BY DEF TasksTyped, TasksEnd
<1>2. reader' \in [running : BOOLEAN, conn : Connections] /\ reader'.conn = reader.conn
  BY Zenon DEF TasksTyped, TasksEnd
<1>3. writer' \in [at : {"top", "recv", "drain", "send", "exited"}, conn : Connections,
                   msg : Messages \cup {None}]
      /\ writer'.at = "exited" /\ writer'.conn = writer.conn
  BY Zenon DEF TasksTyped, TasksEnd
<1>4. connections' \in [Connections -> ConnectionStates]
  BY UpAndDownTyped DEF TasksEnd
<1>5. QueuesTyped' /\ reconnect_buffer' \in Seq(Messages)
  BY SMT DEF QueuesTyped, TasksEnd
<1> QED
  BY <1>1, <1>2, <1>3, <1>4, <1>5 DEF TasksTyped

\* The feed handler ends.
LEMMA StopStep ==
    ASSUME Inv, HandlerFrame, Disconnected \/ HandlerStops \/ close_aborts
    PROVE  Inv'
<1> USE Parts, PartsKept
<1>1. HistoryTyped'
  BY Zenon DEF HistoryTyped, HandlerFrame, fixed
<1>2. AdapterTyped' /\ handler'.at = "stopped"
  BY DEF AdapterTyped, Disconnected, HandlerStops, close_aborts
<1>3. CASE UNCHANGED client
  <2>1. Linked'
    BY <1>2, <1>3 DEF Linked, OneConnection, client, tasks
  <2> QED
    BY <1>1, <1>2, <1>3, <2>1 DEF client
<1>4. CASE /\ TasksEnd
           /\ connection_mode' \in {connection_mode, "Closed"}
           /\ UNCHANGED <<auth_state, raw_rx, drops, taken>>
  <2>1. ModeTyped'
    BY <1>4 DEF ModeTyped, ConnectionMode
  <2>2. Linked'
    BY <1>2, <1>4, TasksEndKept DEF Linked, OneConnection
  <2> QED
    BY <1>1, <1>2, <1>4, <2>1, <2>2, TasksEndKept
<1> QED
  BY <1>3, <1>4, Zenon DEF Disconnected, HandlerStops, close_aborts

\* The feed handler takes a message from the venue.
LEMMA MessageStep ==
    ASSUME Inv, HandlerFrame, HandleMessage
    PROVE  Inv'
<1> USE Parts, PartsKept
<1> DEFINE f == Head(raw_rx)
<1>1. /\ f \in Frames \cup {Reconnected} /\ raw_rx' \in Seq(Frames \cup {Reconnected})
      /\ handler.at = "idle" /\ UNCHANGED <<connection_mode, tasks, writer_rx>>
  BY SMT DEF QueuesTyped, HandleMessage
<1>2. HistoryTyped' /\ TasksTyped' /\ QueuesTyped'
  <2>1. HistoryTyped'
    BY Zenon DEF HistoryTyped, HandlerFrame, fixed
  <2> QED
    BY <1>1, <2>1 DEF QueuesTyped
<1>3. /\ Typed(subscriptions') /\ auth_state' \in AuthState
      /\ cmd_rx' \in Seq(HandlerCommands)
      /\ handler' \in [at : {"idle", "sending", "resubscribing", "disconnecting", "stopped"},
                       msgs : Seq(Messages), topics : SUBSET Topics]
      /\ handler'.at \in {"idle", "resubscribing"}
  <2>1. CASE f.type = "Reconnected"
    <3>1. HandleReconnected
      BY <2>1, Zenon DEF HandleMessage
    <3> DEFINE marked == mark_reconnected(subscriptions)
    <3>2. Typed(marked) /\ topics_to_restore(marked) \in SUBSET Topics
      BY RestoreKeeps, Zenon DEF AdapterTyped, Keeps, Typed, topics_to_restore, all_topics
    <3>3. Payloads(<<Auth>>) \in HandlerCommands
      BY SMT DEF HandlerCommands, Payloads, Messages
    <3>4. subscriptions' = marked /\ auth_state' \in AuthState
      BY <3>1 DEF HandleReconnected, AuthState
    <3>5. \/ cmd_rx' = Append(cmd_rx, Payloads(<<Auth>>)) /\ handler' = handler
          \/ /\ handler' = [handler EXCEPT !.at = "resubscribing",
                                           !.topics = topics_to_restore(marked)]
             /\ cmd_rx' = cmd_rx
      BY <3>1, Zenon DEF HandleReconnected
    <3> HIDE DEF marked
    <3>6. CASE cmd_rx' = Append(cmd_rx, Payloads(<<Auth>>)) /\ handler' = handler
      <4>1. cmd_rx' \in Seq(HandlerCommands)
        BY <3>3, <3>6, SMT DEF AdapterTyped
      <4> QED
        BY <1>1, <3>2, <3>4, <3>6, <4>1 DEF AdapterTyped
    <3>7. CASE /\ handler' = [handler EXCEPT !.at = "resubscribing",
                                            !.topics = topics_to_restore(marked)]
               /\ cmd_rx' = cmd_rx
      BY <3>2, <3>4, <3>7, Zenon DEF AdapterTyped
    <3> QED
      BY <3>5, <3>6, <3>7
  <2>2. CASE f.type \in {"Authenticated", "AuthFailed"}
    <3>1. HandleAuth(f)
      BY <2>2, Zenon DEF HandleMessage
    <3>2. topics_to_restore(subscriptions) \in SUBSET Topics
      BY DEF AdapterTyped, Typed, topics_to_restore, all_topics
    <3> QED
      BY <1>1, <3>1, <3>2, Zenon DEF AdapterTyped, HandleAuth, AuthState
  <2>3. CASE f.type \notin {"Reconnected", "Authenticated", "AuthFailed"}
    <3>1. subscriptions' = handle_subscription_ack(subscriptions, f)
          /\ UNCHANGED <<auth_state, cmd_rx, handler>>
      BY <2>3, Zenon DEF HandleMessage
    <3>2. /\ f.topic \in Topics
          /\ f.type \in {"Subscribed", "AlreadySubscribed", "SubscribeFailed", "Unsubscribed"}
      BY <1>1, <2>3, SMT DEF Frames, Frame, Reconnected
    <3>3. Typed(subscriptions')
      BY <3>1, <3>2, AnswersKeep DEF AdapterTyped, Keeps, handle_subscription_ack
    <3> QED
      BY <1>1, <3>1, <3>3 DEF AdapterTyped, ModeTyped
  <2> QED
    BY <2>1, <2>2, <2>3, Zenon
<1>4. AdapterTyped' /\ ModeTyped'
  BY <1>1, <1>3 DEF AdapterTyped, ModeTyped
<1>5. Linked'
  BY <1>1, <1>3 DEF Linked, OneConnection, tasks
<1> QED
  BY <1>2, <1>4, <1>5

\* The orders in which a set of topics can be worked through.
LEMMA TopicOrders ==
    ASSUME NEW T \in SUBSET Topics, NEW topics \in orders(T), topics # <<>>
    PROVE  Payloads([i \in DOMAIN topics |-> Subscribe(topics[i])]) \in HandlerCommands
<1>1. Cardinality(T) \in Nat
  BY TopicsAssumption
<1>2. topics \in [1 .. Cardinality(T) -> T]
  BY DEF orders
<1> DEFINE msgs == [i \in DOMAIN topics |-> Subscribe(topics[i])]
<1>3. \A i \in 1 .. Cardinality(T) : Subscribe(topics[i]) \in Messages
  BY <1>2 DEF Messages
<1>4. msgs \in [1 .. Cardinality(T) -> Messages]
  BY <1>2, <1>3
<1>5. msgs \in Seq(Messages)
  BY <1>1, <1>4, SMT
<1>6. msgs # <<>>
  <2>1. Cardinality(T) # 0
    BY <1>2, SMT
  <2>2. 1 \in DOMAIN msgs
    BY <1>1, <1>4, <2>1, SMT
  <2> QED
    BY <2>2, SMT
<1> QED
  BY <1>5, <1>6 DEF HandlerCommands, Payloads

\* The feed handler subscribes to the topics again.
LEMMA ResubscribeStep ==
    ASSUME Inv, HandlerFrame, Resubscribe
    PROVE  Inv'
<1> USE Parts, PartsKept
<1>1. HistoryTyped'
  BY Zenon DEF HistoryTyped, HandlerFrame, fixed
<1>2. Typed(subscriptions')
  BY RestoreKeeps, Zenon DEF AdapterTyped, Keeps, Resubscribe
<1>3. PICK topics \in orders(handler.topics) :
        cmd_rx' = IF topics = <<>> THEN cmd_rx
                  ELSE Append(cmd_rx, Payloads([i \in DOMAIN topics |-> Subscribe(topics[i])]))
  BY Zenon DEF Resubscribe
<1>4. cmd_rx' \in Seq(HandlerCommands)
  <2>1. handler.topics \in SUBSET Topics
    BY DEF AdapterTyped
  <2>2. topics # <<>> =>
          Payloads([i \in DOMAIN topics |-> Subscribe(topics[i])]) \in HandlerCommands
    BY <2>1, TopicOrders
  <2> QED
    BY <1>3, <2>2, SMT DEF AdapterTyped
<1>5. AdapterTyped' /\ handler'.at = "idle"
  BY <1>2, <1>4, SMT DEF AdapterTyped, Resubscribe, Idle
<1>6. Linked'
  BY <1>5, Zenon DEF Linked, OneConnection, Resubscribe, client, tasks
<1> QED
  BY <1>1, <1>5, <1>6 DEF Resubscribe, client

-----------------------------------------------------------------------------
\* What no step of the client's tasks changes.
LEMMA AdapterKept ==
    ASSUME Inv, ClientFrame
    PROVE  AdapterTyped' /\ HistoryTyped' /\ handler' = handler
<1> USE Parts
<1>1. AdapterTyped' /\ handler' = handler
  BY DEF AdapterTyped, ClientFrame, adapter
<1>2. HistoryTyped'
  BY Zenon DEF HistoryTyped, ClientFrame, adapter, fixed
<1> QED
  BY <1>1, <1>2

\* The write task ends.
LEMMA ExitStep ==
    ASSUME Inv, ClientFrame, WriterExit, connection_mode \in {"Disconnect", "Closed"}
    PROVE  Inv'
<1> USE Parts, AdapterKept
<1>1. /\ writer' \in [at : {"top", "recv", "drain", "send", "exited"}, conn : Connections,
                      msg : Messages \cup {None}]
      /\ writer'.at = "exited" /\ writer'.conn = writer.conn
  BY DEF TasksTyped, WriterExit
<1>2. connections' \in [Connections -> ConnectionStates]
  BY UpAndDownTyped DEF TasksTyped, WriterExit
<1>3. <<>> \in Seq(Messages)
  BY SMT
<1>4. TasksTyped'
  BY <1>1, <1>2, <1>3, Zenon DEF TasksTyped, WriterExit
<1>5. ModeTyped' /\ QueuesTyped'
  BY SMT DEF ModeTyped, QueuesTyped, WriterExit
<1>6. Linked'
  BY <1>1 DEF Linked, OneConnection, WriterExit
<1> QED
  BY <1>4, <1>5, <1>6

\* The top of its loop.
LEMMA TopStep ==
    ASSUME Inv, ClientFrame, WriterTop
    PROVE  Inv'
<1> USE Parts, AdapterKept
<1>1. CASE connection_mode \in {"Disconnect", "Closed"} /\ WriterExit
  BY <1>1, ExitStep
<1>2. ASSUME NEW at \in {"drain", "recv"}, WriterGoes(at), reconnect_buffer # <<>>
      PROVE  Inv'
  <2>1. /\ writer' \in [at : {"top", "recv", "drain", "send", "exited"}, conn : Connections,
                        msg : Messages \cup {None}]
        /\ writer'.at = at /\ writer'.conn = writer.conn
    BY <1>2 DEF TasksTyped, WriterGoes
  <2>2. TasksTyped' /\ ModeTyped' /\ QueuesTyped'
    BY <1>2, <2>1, Zenon DEF TasksTyped, ModeTyped, QueuesTyped, WriterGoes
  <2>3. Linked'
    BY <1>2, <2>1 DEF Linked, OneConnection, WriterGoes, WriterTop
  <2> QED
    BY <2>2, <2>3
<1>3. CASE WriterDiscard
  <2>1. <<>> \in Seq(Messages)
    BY SMT
  <2>2. TasksTyped' /\ ModeTyped' /\ QueuesTyped'
    BY <1>3, <2>1, Zenon DEF TasksTyped, ModeTyped, QueuesTyped, WriterDiscard
  <2>3. Linked'
    BY <1>3 DEF Linked, OneConnection, WriterDiscard, WriterTop
  <2> QED
    BY <2>2, <2>3
<1> QED
  BY <1>1, <1>2, <1>3 DEF WriterTop, replays

\* A command is received.
LEMMA RecvStep ==
    ASSUME Inv, ClientFrame, WriterRecv
    PROVE  Inv'
<1> USE Parts, AdapterKept
<1>1. CASE WriterGoes("top")
  <2>1. /\ writer' \in [at : {"top", "recv", "drain", "send", "exited"}, conn : Connections,
                        msg : Messages \cup {None}]
        /\ writer'.at = "top" /\ writer'.conn = writer.conn
    BY <1>1 DEF TasksTyped, WriterGoes
  <2>2. TasksTyped' /\ ModeTyped' /\ QueuesTyped'
    BY <1>1, <2>1, Zenon DEF TasksTyped, ModeTyped, QueuesTyped, WriterGoes
  <2>3. Linked'
    BY <1>1, <2>1 DEF Linked, OneConnection, WriterGoes, WriterRecv
  <2> QED
    BY <2>2, <2>3
<1>2. CASE connection_mode \in {"Disconnect", "Closed"} /\ WriterExit
  BY <1>2, ExitStep
<1>3. CASE /\ writer_rx # <<>> /\ connection_mode \in {"Active", "Reconnect"}
           /\ writer_rx' = Tail(writer_rx)
           /\ \/ Head(writer_rx).type = "Update" /\ WriterUpdate(Head(writer_rx).conn)
              \/ Head(writer_rx).type = "Send" /\ WriterBuffers(Head(writer_rx).msg)
              \/ Head(writer_rx).type = "Send" /\ WriterStartsSend(Head(writer_rx).msg)
           /\ UNCHANGED <<connection_mode, auth_state, controller, reader, raw_rx, drops, taken>>
  <2> DEFINE command == Head(writer_rx)
  <2>1. writer.at \in {"top", "recv"} /\ OneUpdate(writer_rx, writer.conn, controller.conn)
    BY DEF WriterRecv, Linked
  <2>2. /\ command \in Commands /\ writer_rx' \in Seq(Commands)
        /\ command.type = "Send" => OneUpdate(writer_rx', writer.conn, controller.conn)
        /\ command.type = "Update" =>
              /\ writer.conn # controller.conn /\ command.conn = controller.conn
              /\ OneUpdate(writer_rx', controller.conn, controller.conn)
    BY <1>3, <2>1, CommandReceived DEF QueuesTyped
  <2>3. \/ command.type = "Send" /\ command.msg \in Messages
        \/ command.type = "Update" /\ command.conn \in Connections
    BY <2>2, CommandForms
  <2> HIDE DEF command
  <2>4. ModeTyped' /\ QueuesTyped'
    BY <1>3, <2>2 DEF ModeTyped, QueuesTyped
  <2>5. CASE command.type = "Update" /\ WriterUpdate(command.conn)
    <3>1. /\ writer' \in [at : {"top", "recv", "drain", "send", "exited"}, conn : Connections,
                          msg : Messages \cup {None}]
          /\ writer'.at = "top" /\ writer'.conn = controller.conn
      BY <2>2, <2>3, <2>5, Zenon DEF TasksTyped, WriterUpdate
    <3>2. connections' \in [Connections -> ConnectionStates]
      BY <2>5, UpAndDownTyped DEF TasksTyped, WriterUpdate
    <3>3. TasksTyped'
      BY <1>3, <2>5, <3>1, <3>2, Zenon DEF TasksTyped, WriterUpdate
    <3>4. Linked'
      BY <1>3, <2>1, <2>2, <2>5, <3>1 DEF Linked, OneConnection, WriterUpdate
    <3> QED
      BY <2>4, <3>3, <3>4
  <2>6. CASE command.type = "Send" /\ WriterBuffers(command.msg)
    <3>1. /\ writer' \in [at : {"top", "recv", "drain", "send", "exited"}, conn : Connections,
                          msg : Messages \cup {None}]
          /\ writer'.at = "top" /\ writer'.conn = writer.conn
      BY <2>6, Zenon DEF TasksTyped, WriterBuffers
    <3>2. reconnect_buffer' \in Seq(Messages)
      BY <2>3, <2>6, SMT DEF TasksTyped, WriterBuffers
    <3>3. TasksTyped'
      BY <1>3, <2>6, <3>1, <3>2, Zenon DEF TasksTyped, WriterBuffers
    <3>4. Linked'
      BY <1>3, <2>1, <2>2, <2>6, <3>1, Zenon DEF Linked, OneConnection
    <3> QED
      BY <2>4, <3>3, <3>4
  <2>7. CASE command.type = "Send" /\ WriterStartsSend(command.msg)
    <3>1. /\ writer' \in [at : {"top", "recv", "drain", "send", "exited"}, conn : Connections,
                          msg : Messages \cup {None}]
          /\ writer'.at = "send" /\ writer'.conn = writer.conn /\ writer'.msg \in Messages
      BY <2>3, <2>7, Zenon DEF TasksTyped, WriterStartsSend
    <3>2. TasksTyped'
      BY <1>3, <2>7, <3>1, Zenon DEF TasksTyped, WriterStartsSend
    <3>3. Linked'
      BY <1>3, <2>1, <2>2, <2>7, <3>1, Zenon DEF Linked, OneConnection
    <3> QED
      BY <2>4, <3>2, <3>3
  <2> QED
    BY <1>3, <2>5, <2>6, <2>7 DEF command
<1> QED
  <2>1. writer_rx # <<>> => Head(writer_rx).type \in {"Send", "Update"}
    BY CommandForms, SMT DEF QueuesTyped
  <2> QED
    BY <1>1, <1>2, <1>3, <2>1, Zenon DEF WriterRecv

\* The transport takes a message, or fails.
LEMMA SentStep ==
    ASSUME Inv, ClientFrame, WriterSent \/ WriterFails
    PROVE  Inv'
<1> USE Parts, AdapterKept
<1>1. /\ writer.at \in {"send", "drain"} /\ writer.conn \in Connections
      /\ writer.at = "send" => writer.msg \in Messages
      /\ writer.at = "drain" => reconnect_buffer # <<>>
      /\ reconnect_buffer \in Seq(Messages)
      /\ OneUpdate(writer_rx, writer.conn, controller.conn)
  BY DEF TasksTyped, Linked, WriterSent, WriterFails
<1>2. CASE WriterSent
  <2>1. InHand \in Messages
    BY <1>1, SMT DEF InHand
  <2>2. connections' \in [Connections -> ConnectionStates]
    <3>1. connections[writer.conn] \in ConnectionStates
      BY <1>1 DEF TasksTyped
    <3>2. receive(connections[writer.conn], InHand) \in ConnectionStates
      BY <2>1, <3>1, ReceiveTyped
    <3> QED
      BY <1>2, <3>1, <3>2 DEF TasksTyped, WriterSent
  <2>3. reconnect_buffer' \in Seq(Messages)
    BY <1>1, <1>2, SMT DEF WriterSent
  <2>4. /\ writer' \in [at : {"top", "recv", "drain", "send", "exited"}, conn : Connections,
                        msg : Messages \cup {None}]
        /\ writer'.at \in {"top", "drain"} /\ writer'.conn = writer.conn
        /\ writer'.at = "drain" => writer.at = "drain" /\ Len(reconnect_buffer) > 1
    BY <1>1, <1>2, Zenon DEF TasksTyped, WriterSent
  <2>5. writer'.at = "drain" => reconnect_buffer' # <<>>
    <3> SUFFICES ASSUME writer'.at = "drain"
                 PROVE  reconnect_buffer' # <<>>
      OBVIOUS
    <3>1. reconnect_buffer' = Tail(reconnect_buffer) /\ Len(reconnect_buffer) > 1
      BY <1>2, <2>4 DEF WriterSent
    <3>2. Len(reconnect_buffer') # 0 /\ Len(<<>>) = 0
      BY <1>1, <3>1, SMT
    <3> QED
      BY <3>2, Zenon
  <2>6. taken' \in BOOLEAN
    BY <1>2, Zenon DEF WriterSent
  <2>7. TasksTyped' /\ ModeTyped' /\ QueuesTyped'
    BY <1>2, <2>2, <2>3, <2>4, <2>6, Zenon DEF TasksTyped, ModeTyped, QueuesTyped, WriterSent
  <2>8. Linked'
    BY <1>1, <1>2, <2>4, <2>5 DEF Linked, OneConnection, WriterSent
  <2> QED
    BY <2>7, <2>8
<1>3. CASE WriterFails
  <2>1. reconnect_buffer' \in Seq(Messages)
    BY <1>1, <1>3, SMT DEF WriterFails
  <2>2. /\ writer' \in [at : {"top", "recv", "drain", "send", "exited"}, conn : Connections,
                        msg : Messages \cup {None}]
        /\ writer'.at = "top" /\ writer'.conn = writer.conn
    BY <1>1, <1>3, Zenon DEF TasksTyped, WriterFails
  <2>3. TasksTyped' /\ QueuesTyped'
    BY <1>3, <2>1, <2>2, Zenon DEF TasksTyped, QueuesTyped, WriterFails
  <2>4. ModeTyped'
    BY <1>3 DEF ModeTyped, WriterFails, request_reconnect, ConnectionMode, AuthState
  <2>5. Linked'
    BY <1>1, <1>3, <2>2 DEF Linked, OneConnection, WriterFails, request_reconnect
  <2> QED
    BY <2>3, <2>4, <2>5
<1> QED
  BY <1>2, <1>3

\* The read task, and a connection that goes down.
LEMMA ReaderStep ==
    ASSUME Inv, ClientFrame,
           \/ ReaderReceives \/ ReaderEnds \/ ReaderIdles
           \/ \E c \in Connections : GoesDown(c)
    PROVE  Inv'
<1> USE Parts, AdapterKept
<1>1. UNCHANGED <<connection_mode, auth_state, controller, writer, writer_rx,
                  reconnect_buffer, taken>>
  BY DEF ReaderReceives, ReaderEnds, ReaderIdles, GoesDown
<1>2. reader' \in [running : BOOLEAN, conn : Connections] /\ reader'.conn = reader.conn
  <2>1. reader.conn \in Connections /\ reader.running \in BOOLEAN
    BY DEF TasksTyped
  <2>2. \/ reader' = reader
        \/ \E b \in BOOLEAN : reader' = [reader EXCEPT !.running = b]
    BY Zenon DEF ReaderReceives, ReaderEnds, ReaderIdles, GoesDown
  <2> QED
    BY <2>1, <2>2 DEF TasksTyped
<1>3. connections' \in [Connections -> ConnectionStates] /\ raw_rx' \in Seq(Frames \cup {Reconnected})
  <2>1. CASE ReaderReceives
    <3> DEFINE c == connections[reader.conn]
    <3>1. /\ c \in ConnectionStates /\ c.outbox \in Seq(Frames) /\ c.outbox # <<>>
          /\ reader.conn \in Connections
      BY <2>1 DEF TasksTyped, ConnectionStates, ReaderReceives
    <3>2. Head(c.outbox) \in Frames /\ Tail(c.outbox) \in Seq(Frames)
      BY <3>1, SMT
    <3>3. [c EXCEPT !.outbox = Tail(@)] \in ConnectionStates
      BY <3>1, <3>2, Zenon DEF ConnectionStates
    <3>4. connections' = [connections EXCEPT ![reader.conn] = [c EXCEPT !.outbox = Tail(@)]]
      BY <2>1 DEF ReaderReceives
    <3> HIDE DEF c
    <3>5. connections' \in [Connections -> ConnectionStates]
      BY <3>3, <3>4 DEF TasksTyped
    <3>6. raw_rx' = Append(raw_rx, Head(c.outbox))
      BY <2>1 DEF ReaderReceives, c
    <3> QED
      BY <3>2, <3>5, <3>6, SMT DEF QueuesTyped
  <2>2. CASE ReaderEnds \/ ReaderIdles
    BY <2>2 DEF ReaderEnds, ReaderIdles, TasksTyped, QueuesTyped
  <2>3. CASE \E c \in Connections : GoesDown(c)
    BY <2>3, UpAndDownTyped, SMT DEF GoesDown, TasksTyped, QueuesTyped
  <2> QED
    BY <2>1, <2>2, <2>3
<1>4. drops' \in Nat
  BY SMT DEF TasksTyped, ReaderReceives, ReaderEnds, ReaderIdles, GoesDown
<1>5. TasksTyped' /\ ModeTyped' /\ QueuesTyped'
  BY <1>1, <1>2, <1>3, <1>4, Zenon DEF TasksTyped, ModeTyped, QueuesTyped
<1>6. Linked'
  BY <1>1, <1>2 DEF Linked, OneConnection
<1> QED
  BY <1>5, <1>6

\* The controller task at its awaits.
LEMMA ControllerMoves ==
    ASSUME Inv, ClientFrame, NEW at \in {"select", "connect", "await_writer", "announce", "done"},
           ControllerGoes(at), UNCHANGED <<drops, taken>>
    PROVE  /\ TasksTyped' /\ QueuesTyped' /\ controller'.at = at
           /\ controller'.conn = controller.conn
           /\ UNCHANGED <<reader, writer, writer_rx, reconnect_buffer>>
<1> USE Parts
<1>1. /\ controller' \in [at : {"select", "connect", "await_writer", "announce", "done"},
                          attempts : 0 .. reconnect_max_attempts, conn : Connections]
      /\ controller'.at = at /\ controller'.conn = controller.conn
  BY DEF TasksTyped, ControllerGoes
<1>2. TasksTyped' /\ QueuesTyped'
  BY <1>1, Zenon DEF TasksTyped, QueuesTyped, ControllerGoes
<1> QED
  BY <1>1, <1>2 DEF ControllerGoes

\* A step of the controller task.
LEMMA ControllerStep ==
    ASSUME Inv, ClientFrame, Controller
    PROVE  Inv'
<1> USE Parts, AdapterKept
<1>1. UNCHANGED <<drops, taken>>
  BY DEF Controller
<1>2. CASE controller.at = "select" /\ (ControllerCloses \/ ControllerGivesUp)
  <2>1. TasksEnd /\ UNCHANGED raw_rx /\ connection_mode' = "Closed"
    BY <1>2 DEF ControllerCloses, ControllerGivesUp
  <2>2. ModeTyped'
    BY <1>2 DEF ModeTyped, ControllerCloses, ControllerGivesUp, ConnectionMode, AuthState
  <2>3. Linked'
    BY <1>1, <2>1, TasksEndKept DEF Linked, OneConnection
  <2> QED
    BY <1>1, <2>1, <2>2, <2>3, TasksEndKept, Zenon
<1>3. CASE controller.at = "select" /\ ControllerDetects
  <2>1. ControllerGoes("select") /\ request_reconnect /\ connection_mode = "Active"
    BY <1>3 DEF ControllerDetects
  <2>2. ModeTyped'
    BY <2>1 DEF ModeTyped, request_reconnect, ConnectionMode, AuthState
  <2>3. Linked'
    BY <1>1, <1>3, <2>1, ControllerMoves DEF Linked, OneConnection, request_reconnect
  <2> QED
    BY <1>1, <2>1, <2>2, <2>3, ControllerMoves
<1>4. CASE controller.at = "select" /\ ControllerTries
  <2>1. /\ controller' \in [at : {"select", "connect", "await_writer", "announce", "done"},
                            attempts : 0 .. reconnect_max_attempts, conn : Connections]
        /\ controller'.at = "connect" /\ controller'.conn = controller.conn
    <3>1. controller.attempts \in 0 .. reconnect_max_attempts
      BY DEF TasksTyped
    <3>2. controller.attempts + 1 \in 0 .. reconnect_max_attempts
      BY <1>4, <3>1, ClientAssumption, SMT DEF ControllerTries, attempts_exhausted
    <3> QED
      BY <1>4, <3>2, Zenon DEF TasksTyped, ControllerTries
  <2>2. TasksTyped' /\ QueuesTyped' /\ ModeTyped'
    BY <1>1, <1>4, <2>1, Zenon DEF TasksTyped, QueuesTyped, ModeTyped, ControllerTries
  <2>3. Linked'
    BY <1>4, <2>1 DEF Linked, OneConnection, ControllerTries
  <2> QED
    BY <2>2, <2>3
<1>5. CASE \/ controller.at = "connect" /\ (ConnectFails \/ Interrupted)
           \/ controller.at = "await_writer" /\ Interrupted
  <2>1. /\ ControllerGoes("select") /\ UNCHANGED <<connection_mode, auth_state>>
        /\ controller.at = "await_writer" => connection_mode = "Disconnect"
    BY <1>5 DEF ConnectFails, Interrupted
  <2>2. ModeTyped'
    BY <2>1 DEF ModeTyped
  <2>3. Linked'
    BY <1>1, <1>5, <2>1, ControllerMoves DEF Linked, OneConnection
  <2> QED
    BY <1>1, <2>1, <2>2, <2>3, ControllerMoves
<1>6. CASE controller.at = "connect" /\ ConnectSucceeds
  <2> DEFINE c == controller.conn + 1
  <2>1. /\ c \in Connections /\ connection_mode # "Disconnect"
        /\ controller' = [controller EXCEPT !.at = "await_writer", !.conn = c]
        /\ connections' = [connections EXCEPT ![c] = Up]
        /\ writer_rx' = Append(writer_rx, Update(c))
        /\ UNCHANGED <<connection_mode, auth_state, reader, writer, reconnect_buffer, raw_rx>>
    BY <1>6, Zenon DEF ConnectSucceeds
  <2>2. /\ connection_mode = "Reconnect" /\ controller.conn = writer.conn
        /\ writer.at # "exited" /\ OneUpdate(writer_rx, writer.conn, controller.conn)
        /\ reader.conn <= controller.conn
    BY <1>6, <2>1 DEF Linked
  <2>3. c # controller.conn /\ reader.conn < c /\ reader.conn <= c
    BY <2>2, ClientAssumption, SMT DEF TasksTyped, Connections
  <2>4. /\ controller' \in [at : {"select", "connect", "await_writer", "announce", "done"},
                            attempts : 0 .. reconnect_max_attempts, conn : Connections]
        /\ controller'.at = "await_writer" /\ controller'.conn = c
    BY <2>1, Zenon DEF TasksTyped
  <2> HIDE DEF c
  <2>5. writer_rx' \in Seq(Commands) /\ OneUpdate(writer_rx', writer.conn, c)
    BY <2>1, <2>2, <2>3, CommandAdded DEF QueuesTyped
  <2>6. connections' \in [Connections -> ConnectionStates]
    BY <2>1, UpAndDownTyped DEF TasksTyped
  <2>7. TasksTyped' /\ QueuesTyped' /\ ModeTyped'
    BY <1>1, <2>1, <2>4, <2>5, <2>6, Zenon DEF TasksTyped, QueuesTyped, ModeTyped
  <2>8. Linked'
    <3>1. /\ controller'.at = "await_writer" /\ connection_mode' = "Reconnect"
          /\ writer' = writer /\ reconnect_buffer' = reconnect_buffer /\ handler' = handler
          /\ reader'.conn < controller'.conn /\ reader'.conn <= controller'.conn
          /\ OneUpdate(writer_rx', writer'.conn, controller'.conn)
      BY <2>1, <2>2, <2>3, <2>4, <2>5
    <3> QED
      BY <2>2, <3>1 DEF Linked, OneConnection
  <2> QED
    BY <2>7, <2>8
<1>7. CASE controller.at = "await_writer" /\ SwapReader
  <2>1. /\ controller' \in [at : {"select", "connect", "await_writer", "announce", "done"},
                            attempts : 0 .. reconnect_max_attempts, conn : Connections]
        /\ controller'.at = "announce" /\ controller'.conn = controller.conn
    <3>1. 0 \in 0 .. reconnect_max_attempts
      BY ClientAssumption, SMT
    <3> QED
      BY <1>7, <3>1, Zenon DEF TasksTyped, SwapReader
  <2>2. reader' \in [running : BOOLEAN, conn : Connections] /\ reader'.conn = controller.conn
    BY <1>7 DEF TasksTyped, SwapReader
  <2>3. TasksTyped' /\ QueuesTyped'
    BY <1>1, <1>7, <2>1, <2>2, Zenon DEF TasksTyped, QueuesTyped, SwapReader
  <2>4. ModeTyped'
    BY <1>7 DEF ModeTyped, SwapReader, ConnectionMode
  <2>5. controller.conn \in Int
    BY ClientAssumption, SMT DEF TasksTyped, Connections
  <2>6. Linked'
    BY <1>7, <2>1, <2>2, <2>5, SMT DEF Linked, OneConnection, SwapReader, writer_confirmed
  <2> QED
    BY <2>3, <2>4, <2>6
<1>8. CASE controller.at = "announce" /\ Announce
  <2>1. /\ controller' \in [at : {"select", "connect", "await_writer", "announce", "done"},
                            attempts : 0 .. reconnect_max_attempts, conn : Connections]
        /\ controller'.at = "select" /\ controller'.conn = controller.conn
    BY <1>8 DEF TasksTyped, Announce
  <2>2. QueuesTyped'
    BY <1>8, SMT DEF QueuesTyped, Announce
  <2>3. TasksTyped' /\ ModeTyped'
    BY <1>1, <1>8, <2>1, Zenon DEF TasksTyped, ModeTyped, Announce
  <2>4. Linked'
    BY <1>8, <2>1 DEF Linked, OneConnection, Announce
  <2> QED
    BY <2>2, <2>3, <2>4
<1> QED
  BY <1>2, <1>3, <1>4, <1>5, <1>6, <1>7, <1>8 DEF Controller

\* Every step preserves the invariant.
LEMMA NextInv == Inv /\ [Next]_vars => Inv'
<1> SUFFICES ASSUME Inv, [Next]_vars
             PROVE  Inv'
  OBVIOUS
<1>1. CASE UNCHANGED vars
  <2>1. AdapterTyped' /\ UNCHANGED handler
    BY <1>1, Parts, Zenon DEF AdapterTyped, vars, adapter
  <2> QED
    BY <1>1, <2>1, Parts, PartsKept, Zenon DEF vars, client
<1>2. CASE Next
  <2>1. TypeOK
    BY DEF Inv
  <2> QED
    BY <1>2, <2>1, Steps, CallStep, CloseStep, CommandStep, SendStep, StopStep, MessageStep,
       ResubscribeStep, TopStep, RecvStep, SentStep, ReaderStep, ControllerStep, Zenon
<1> QED
  BY <1>1, <1>2

-----------------------------------------------------------------------------
\* The refinement.  Queued is the part of Unsent that is in the channel.
Queued == Len(writer_rx) - (IF controller.conn # writer.conn THEN 1 ELSE 0)

\* Unsent is what its parts add up to.
LEMMA UnsentIsNat ==
    ASSUME Inv
    PROVE  /\ writer.at = "exited" => Unsent = 0
           /\ writer.at # "exited" =>
                /\ Queued \in Nat
                /\ Unsent = Queued + Len(reconnect_buffer) + (IF writer.at = "send" THEN 1 ELSE 0)
           /\ Len(reconnect_buffer) \in Nat
           /\ Unsent \in Nat
<1>1. writer_rx \in Seq(Commands) /\ reconnect_buffer \in Seq(Messages)
  BY DEF Inv, TypeOK
<1>2. ASSUME writer.at # "exited"
      PROVE  Queued \in Nat
  <2>1. controller.conn # writer.conn => \E i \in 1 .. Len(writer_rx) : TRUE
    BY <1>2 DEF Inv, Linked, OneUpdate
  <2> QED
    BY <1>1, <2>1, SMT DEF Queued
<1>3. Len(reconnect_buffer) \in Nat
  BY <1>1, SMT
<1>4. CASE writer.at = "exited"
  BY <1>3, <1>4 DEF Unsent
<1>5. CASE writer.at # "exited"
  <2>1. Unsent = Queued + Len(reconnect_buffer) + (IF writer.at = "send" THEN 1 ELSE 0)
    BY <1>5 DEF Unsent, Queued
  <2> QED
    BY <1>2, <1>3, <1>5, <2>1, SMT
<1> QED
  BY <1>4, <1>5

\* A step that the session does not see.
LEMMA Unseen ==
    ASSUME UNCHANGED <<connection_mode, auth_state, taken>>,
           reader'.conn = reader.conn, Unsent' = Unsent,
           (controller'.at = "done") = (controller.at = "done")
    PROVE  UNCHANGED Session!vars
BY DEF Session!vars

\* The owner's login is answered, or given up.
LEMMA OwnerStep ==
    ASSUME Inv, Inv', close_returns \/ HandleMessage
    PROVE  Session!Answer
<1>1. /\ auth_state' \in AuthState
      /\ UNCHANGED <<connection_mode, reader, writer, controller, writer_rx, reconnect_buffer, taken>>
  BY Zenon DEF Inv, TypeOK, close_returns, HandleMessage, tasks
<1>2. Unsent' = Unsent
  BY <1>1 DEF Unsent
<1> QED
  BY <1>1, <1>2 DEF Session!Answer, AuthState

\* A message is accepted.
LEMMA AcceptStep ==
    ASSUME Inv, NEW m \in Messages, send_text(m), handler.at # "stopped",
           UNCHANGED <<connection_mode, auth_state, tasks>>
    PROVE  Session!Next
<1>1. /\ writer.at # "exited" /\ Len(writer_rx') = Len(writer_rx) + 1
      /\ connection_mode = "Active" /\ controller.at # "done"
      /\ UNCHANGED <<controller, reader, writer, reconnect_buffer, taken>>
  BY SendKept DEF Inv, Linked, send_text, tasks
<1>2. writer_rx \in Seq(Commands) /\ reconnect_buffer \in Seq(Messages)
  BY DEF Inv, TypeOK
<1>3. Unsent' = Unsent + 1
  BY <1>1, <1>2, SMTT(20) DEF Unsent
<1>4. Session!Accept
  BY <1>1, <1>3 DEF Session!Accept
<1> QED
  BY <1>1, <1>4 DEF Session!Next

\* The tasks end.
LEMMA EndStep ==
    ASSUME Inv, TasksEnd, UNCHANGED <<raw_rx, drops, taken>>,
           \/ connection_mode \in {"Reconnect", "Disconnect"} /\ connection_mode' = "Closed"
           \/ UNCHANGED connection_mode,
           auth_state' \in {auth_state, "Failed"}, controller.at # "done"
    PROVE  Session!Next
<1>1. Unsent' = 0
  BY TasksEndKept, Zenon DEF Unsent
<1>2. Session!End
  BY <1>1, TasksEndKept DEF Session!End
<1> QED
  BY <1>2 DEF Session!Next

\* The steps of the feed handler.
LEMMA HandlerRefines ==
    ASSUME Inv, Inv',
           \/ HandleCommand \/ SendNext \/ SendFails \/ Disconnected
           \/ HandleMessage \/ Resubscribe \/ HandlerStops \/ close_aborts
    PROVE  Session!Next \/ UNCHANGED Session!vars
<1>1. ASSUME UNCHANGED client
      PROVE  UNCHANGED Session!vars
  BY <1>1, Unseen DEF client, tasks, Unsent
<1>2. CASE HandleCommand
  <2> DEFINE command == Head(cmd_rx)
  <2>1. command \in HandlerCommands /\ handler.at = "idle"
    BY <1>2, Parts, SMT DEF AdapterTyped, HandleCommand
  <2>2. CASE command.type = "Payloads" /\ connection_mode = "Active"
    <3>1. Head(command.msgs) \in Messages
      BY <2>1, <2>2, SMT DEF HandlerCommands, Disconnect
    <3>2. send_text(Head(command.msgs)) /\ UNCHANGED <<connection_mode, auth_state, tasks>>
      BY <1>2, <2>2, Zenon DEF HandleCommand
    <3> QED
      BY <2>1, <3>1, <3>2, AcceptStep
  <2>3. CASE command.type = "Payloads" /\ connection_mode # "Active"
    BY <1>1, <1>2, <2>3 DEF HandleCommand, client
  <2>4. CASE command.type = "Disconnect"
    <3>1. request_disconnect /\ UNCHANGED <<tasks, writer_rx>>
      BY <1>2, <2>4, Zenon DEF HandleCommand
    <3>2. /\ Unsent' = Unsent
          /\ UNCHANGED <<reader, controller, taken>>
      BY <3>1 DEF Unsent, tasks
    <3>3. CASE connection_mode \in {"Active", "Reconnect"}
      <4>1. controller.at # "done"
        BY <2>1, <3>3 DEF Inv, Linked
      <4>2. Session!Disconnect
        BY <3>1, <3>2, <3>3 DEF Session!Disconnect, request_disconnect
      <4> QED
        BY <3>2, <4>1, <4>2 DEF Session!Next
    <3>4. CASE connection_mode \in {"Disconnect", "Closed"}
      <4>1. connection_mode' = connection_mode /\ auth_state' \in AuthState
        BY <3>1, <3>4 DEF request_disconnect, Inv, TypeOK
      <4> QED
        BY <3>2, <4>1 DEF Session!Next, Session!Answer, AuthState
    <3> QED
      BY <3>3, <3>4 DEF Inv, TypeOK, ConnectionMode
  <2> QED
    BY <2>1, <2>2, <2>3, <2>4, SMT DEF HandlerCommands, Disconnect
<1>3. CASE SendNext
  <2>1. Head(handler.msgs) \in Messages /\ handler.at = "sending"
    BY <1>3, Parts, SMTT(20) DEF SendNext, AdapterTyped, Linked
  <2> QED
    BY <1>3, <2>1, AcceptStep DEF SendNext
<1>4. CASE SendFails \/ Resubscribe
  BY <1>1, <1>4 DEF SendFails, Resubscribe
<1>5. CASE Disconnected
  <2>1. CASE controller.at = "done"
    BY <1>1, <1>5, <2>1 DEF Disconnected
  <2>2. CASE controller.at # "done"
    <3>1. /\ TasksEnd /\ connection_mode' = "Closed" /\ handler.at = "disconnecting"
          /\ UNCHANGED <<auth_state, raw_rx, drops, taken>>
      BY <1>5, <2>2 DEF Disconnected
    <3>2. connection_mode = "Disconnect"
      BY <2>2, <3>1 DEF Inv, Linked
    <3> QED
      BY <2>2, <3>1, <3>2, EndStep
  <2> QED
    BY <2>1, <2>2
<1>6. CASE HandleMessage
  BY <1>6, OwnerStep DEF Session!Next
<1>7. CASE HandlerStops \/ close_aborts
  <2>1. TasksEnd /\ UNCHANGED <<connection_mode, auth_state, raw_rx, drops, taken>>
    BY <1>7 DEF HandlerStops, close_aborts
  <2>2. CASE controller.at = "done"
    <3>1. writer.at = "exited" /\ Unsent = 0 /\ Unsent' = 0
      BY <2>1, <2>2, TasksEndKept DEF Inv, Linked, Unsent
    <3> QED
      BY <2>1, <2>2, <3>1, TasksEndKept, Unseen
  <2>3. CASE controller.at # "done"
    BY <2>1, <2>3, EndStep
  <2> QED
    BY <2>2, <2>3
<1> QED
  BY <1>2, <1>3, <1>4, <1>5, <1>6, <1>7

\* The steps of the write task.
LEMMA WriterRefines ==
    ASSUME Inv, Inv', ClientFrame, WriterTop \/ WriterRecv \/ WriterSent \/ WriterFails
    PROVE  Session!Next \/ UNCHANGED Session!vars
<1>1. /\ writer.at # "exited" /\ controller.at # "done" /\ connection_mode # "Closed"
      /\ UNCHANGED <<controller, reader>>
  BY Zenon DEF WriterTop, WriterRecv, WriterSent, WriterFails, WriterExit, WriterDiscard, WriterGoes,
         Inv, Linked
<1>2. /\ writer_rx \in Seq(Commands) /\ reconnect_buffer \in Seq(Messages)
      /\ Queued \in Nat /\ Len(reconnect_buffer) \in Nat /\ Unsent \in Nat
      /\ Unsent = Queued + Len(reconnect_buffer) + (IF writer.at = "send" THEN 1 ELSE 0)
  BY <1>1, UnsentIsNat, Zenon DEF Inv, TypeOK
<1>3. ASSUME WriterExit, connection_mode \in {"Disconnect", "Closed"}
      PROVE  Session!Next
  <2>1. Unsent' = 0 /\ connection_mode = "Disconnect"
    BY <1>1, <1>3 DEF WriterExit, Unsent, Inv, TypeOK
  <2>2. Session!Discard
    BY <1>2, <1>3, <2>1, SMT DEF WriterExit, Session!Discard
  <2> QED
    BY <1>1, <2>2 DEF Session!Next
<1>4. ASSUME NEW at \in {"top", "recv", "drain"}, WriterGoes(at), writer.at \in {"top", "recv"}
      PROVE  UNCHANGED Session!vars
  <2>1. writer'.at = at /\ writer'.conn = writer.conn
    BY <1>4 DEF WriterGoes, Inv, TypeOK
  <2>2. Unsent' = Unsent
    BY <1>1, <1>4, <2>1, Zenon DEF WriterGoes, Unsent
  <2> QED
    BY <1>1, <1>4, <2>2, Unseen DEF WriterGoes
<1>5. ASSUME WriterDiscard, auth_state = "Failed"
      PROVE  Session!Next
  <2>1. Unsent' = Queued + (IF writer.at = "send" THEN 1 ELSE 0)
    BY <1>1, <1>5, SMT DEF WriterDiscard, Unsent, Queued
  <2>2. Unsent' \in 0 .. Unsent
    BY <1>2, <2>1, SMT
  <2>3. Session!Discard
    BY <1>1, <1>5, <2>2 DEF WriterDiscard, Session!Discard
  <2> QED
    BY <1>1, <2>3 DEF Session!Next
<1>6. CASE WriterTop
  BY <1>3, <1>4, <1>5, <1>6 DEF WriterTop, discards_reconnect_buffer
<1>7. CASE WriterRecv
  <2>1. ASSUME writer_rx # <<>>, connection_mode \in {"Active", "Reconnect"},
               writer_rx' = Tail(writer_rx),
               \/ Head(writer_rx).type = "Update" /\ WriterUpdate(Head(writer_rx).conn)
               \/ Head(writer_rx).type = "Send" /\ WriterBuffers(Head(writer_rx).msg)
               \/ Head(writer_rx).type = "Send" /\ WriterStartsSend(Head(writer_rx).msg),
               UNCHANGED <<connection_mode, auth_state, controller, reader, raw_rx, drops, taken>>
        PROVE  UNCHANGED Session!vars
    <3>1. /\ writer.at \in {"top", "recv"} /\ Len(writer_rx') = Len(writer_rx) - 1
          /\ Head(writer_rx).type = "Update" =>
                writer.conn # controller.conn /\ Head(writer_rx).conn = controller.conn
      BY <1>1, <1>2, <1>7, <2>1, CommandReceived DEF WriterRecv, Inv, Linked
    <3>2. Len(writer_rx) \in Nat /\ Len(reconnect_buffer) \in Nat
      BY <1>2, SMT
    <3>3. CASE Head(writer_rx).type = "Update" /\ WriterUpdate(Head(writer_rx).conn)
      <4>1. writer'.at = "top" /\ writer'.conn = controller.conn
        BY <3>1, <3>3 DEF WriterUpdate, Inv, TypeOK
      <4>2. controller'.conn = controller.conn /\ reconnect_buffer' = reconnect_buffer
        BY <1>1, <3>3 DEF WriterUpdate
      <4>3. Unsent' = Unsent
        BY <1>1, <3>1, <3>2, <3>3, <4>1, <4>2, SMT DEF Unsent
      <4> QED
        BY <1>1, <2>1, <4>3, Unseen
    <3>4. CASE WriterBuffers(Head(writer_rx).msg)
      <4>1. writer'.at = "top" /\ writer'.conn = writer.conn
        BY <3>4 DEF WriterBuffers, Inv, TypeOK
      <4>2. Len(reconnect_buffer') = Len(reconnect_buffer) + 1
        BY <1>2, <3>4, SMT DEF WriterBuffers
      <4>3. Unsent' = Unsent
        BY <1>1, <3>1, <3>2, <4>1, <4>2, SMT DEF Unsent
      <4> QED
        BY <1>1, <2>1, <4>3, Unseen
    <3>5. CASE WriterStartsSend(Head(writer_rx).msg)
      <4>1. writer'.at = "send" /\ writer'.conn = writer.conn
        BY <3>5 DEF WriterStartsSend, Inv, TypeOK
      <4>2. Unsent' = Unsent
        BY <1>1, <3>1, <3>2, <3>5, <4>1, SMT DEF WriterStartsSend, Unsent
      <4> QED
        BY <1>1, <2>1, <4>2, Unseen
    <3> QED
      BY <2>1, <3>3, <3>4, <3>5
  <2>2. writer_rx # <<>> => Head(writer_rx).type \in {"Send", "Update"}
    BY <1>2, CommandForms, SMT
  <2> QED
    BY <1>3, <1>4, <1>7, <2>1, <2>2, Zenon DEF WriterRecv
<1>8. CASE WriterSent
  <2>1. /\ writer.at \in {"send", "drain"} /\ writer'.at \in {"top", "drain"}
        /\ writer'.conn = writer.conn
        /\ writer.at = "drain" => Len(reconnect_buffer) > 0 /\ Len(reconnect_buffer') = Len(reconnect_buffer) - 1
        /\ writer.at = "send" => reconnect_buffer' = reconnect_buffer
    BY <1>2, <1>8, SMT DEF WriterSent, Inv, TypeOK, Linked
  <2>2. Unsent' = Unsent - 1 /\ Unsent > 0
    <3>1. Unsent' = Len(writer_rx) - (IF controller.conn # writer.conn THEN 1 ELSE 0)
                    + Len(reconnect_buffer')
      BY <1>1, <1>8, <2>1, SMT DEF WriterSent, Unsent
    <3>2. Unsent' = Queued + Len(reconnect_buffer')
      BY <3>1 DEF Queued
    <3> QED
      BY <1>2, <2>1, <3>2, SMT
  <2>3. Session!Take
    BY <1>1, <1>8, <2>2 DEF WriterSent, Session!Take
  <2> QED
    BY <1>1, <2>3 DEF Session!Next
<1>9. CASE WriterFails
  <2>1. /\ writer.at \in {"send", "drain"} /\ writer'.at = "top" /\ writer'.conn = writer.conn
        /\ writer.at = "send" => Len(reconnect_buffer') = Len(reconnect_buffer) + 1
        /\ writer.at = "drain" => reconnect_buffer' = reconnect_buffer
    BY <1>2, <1>9, SMT DEF WriterFails, Inv, TypeOK, Linked
  <2>2. Unsent' = Unsent
    BY <1>1, <1>2, <1>9, <2>1, SMT DEF WriterFails, Unsent
  <2>3. CASE connection_mode = "Active"
    <3>1. Session!Drop
      BY <1>1, <1>9, <2>2, <2>3 DEF WriterFails, request_reconnect, Session!Drop
    <3> QED
      BY <1>1, <3>1 DEF Session!Next
  <2>4. CASE connection_mode # "Active"
    BY <1>1, <1>9, <2>2, <2>4, Unseen DEF WriterFails, request_reconnect
  <2> QED
    BY <2>3, <2>4
<1> QED
  BY <1>6, <1>7, <1>8, <1>9

\* The steps of the read task and the controller, and of the network.
LEMMA ControllerRefines ==
    ASSUME Inv, Inv', ClientFrame,
           \/ ReaderReceives \/ ReaderEnds \/ ReaderIdles \/ Controller
           \/ \E c \in Connections : GoesDown(c)
    PROVE  Session!Next \/ UNCHANGED Session!vars
<1>1. CASE \/ ReaderReceives \/ ReaderEnds \/ ReaderIdles
           \/ \E c \in Connections : GoesDown(c)
  <2>1. UNCHANGED <<connection_mode, auth_state, controller, writer, writer_rx,
                    reconnect_buffer, taken>>
    BY <1>1 DEF ReaderReceives, ReaderEnds, ReaderIdles, GoesDown
  <2>2. reader'.conn = reader.conn
    BY <1>1 DEF ReaderReceives, ReaderEnds, ReaderIdles, GoesDown, Inv, TypeOK
  <2>3. Unsent' = Unsent
    BY <2>1 DEF Unsent
  <2> QED
    BY <2>1, <2>2, <2>3, Unseen
<1>2. CASE Controller
  <2>1. UNCHANGED <<drops, taken>>
    BY <1>2 DEF Controller
  <2>2. ASSUME NEW at \in {"select", "connect", "await_writer", "announce"},
               ControllerGoes(at), controller.at # "done"
        PROVE  /\ Unsent' = Unsent /\ reader' = reader
               /\ controller'.at # "done"
    <3>1. controller'.at = at /\ controller'.conn = controller.conn
      BY <2>2 DEF ControllerGoes, Inv, TypeOK
    <3> QED
      BY <2>2, <3>1 DEF ControllerGoes, Unsent
  <2>3. CASE controller.at = "select" /\ (ControllerCloses \/ ControllerGivesUp)
    <3>1. connection_mode \in {"Reconnect", "Disconnect"} /\ connection_mode' = "Closed"
      BY <2>3 DEF ControllerCloses, ControllerGivesUp, Inv, Linked
    <3> QED
      BY <2>1, <2>3, <3>1, EndStep DEF ControllerCloses, ControllerGivesUp
  <2>4. CASE controller.at = "select" /\ ControllerDetects
    <3>1. Session!Drop
      BY <2>1, <2>2, <2>4 DEF ControllerDetects, request_reconnect, Session!Drop
    <3> QED
      BY <2>2, <2>4, <3>1 DEF ControllerDetects, Session!Next
  <2>5. CASE \/ controller.at = "connect" /\ (ConnectFails \/ Interrupted)
             \/ controller.at = "await_writer" /\ Interrupted
    BY <2>1, <2>2, <2>5, Unseen DEF ConnectFails, Interrupted
  <2>6. CASE \/ controller.at = "select" /\ ControllerTries
             \/ controller.at = "announce" /\ Announce
    <3>1. /\ controller.at # "done" /\ controller'.at # "done" /\ controller'.conn = controller.conn
          /\ UNCHANGED <<connection_mode, auth_state, reader, writer, writer_rx, reconnect_buffer>>
      BY <2>6, ZenonT(30) DEF ControllerTries, Announce, Inv, TypeOK
    <3>2. Unsent' = Unsent
      BY <3>1 DEF Unsent
    <3> QED
      BY <2>1, <3>1, <3>2, Unseen
  <2>7. CASE controller.at = "connect" /\ ConnectSucceeds
    <3>1. /\ controller'.at = "await_writer" /\ controller'.conn = controller.conn + 1
          /\ controller.conn \in Int
          /\ Len(writer_rx') = Len(writer_rx) + 1 /\ Len(writer_rx) \in Nat
          /\ connection_mode # "Disconnect"
          /\ UNCHANGED <<connection_mode, auth_state, reader, writer, reconnect_buffer>>
      BY <2>7, ClientAssumption, SMT DEF ConnectSucceeds, Inv, TypeOK, Connections
    <3>2. controller.conn = writer.conn /\ writer.at # "exited"
      BY <2>7, <3>1 DEF Inv, Linked
    <3>3. reconnect_buffer \in Seq(Messages)
      BY DEF Inv, TypeOK
    <3>4. Unsent' = Unsent
      BY <3>1, <3>2, <3>3, SMT DEF Unsent
    <3> QED
      BY <2>1, <2>7, <3>1, <3>4, Unseen
  <2>8. CASE controller.at = "await_writer" /\ SwapReader
    <3>1. /\ reader'.conn = controller.conn /\ reader.conn < controller.conn
          /\ controller'.at = "announce" /\ controller'.conn = controller.conn
      BY <2>8 DEF SwapReader, Inv, TypeOK, Linked
    <3>2. Unsent' = Unsent
      BY <2>8, <3>1 DEF SwapReader, Unsent
    <3>3. reader.conn \in Int /\ controller.conn \in Int
      BY ClientAssumption, Parts, SMTT(20) DEF TasksTyped, Connections
    <3>4. Session!Restore
      BY <2>1, <2>8, <3>1, <3>2, <3>3 DEF SwapReader, Session!Restore
    <3> QED
      BY <2>8, <3>1, <3>4 DEF Session!Next
  <2> QED
    BY <1>2, <2>3, <2>4, <2>5, <2>6, <2>7, <2>8 DEF Controller
<1> QED
  BY <1>1, <1>2

\* Every step is one of the session's, or none that it sees.
LEMMA NextRefines == Inv /\ Inv' /\ [Next]_vars => [Session!Next]_(Session!vars)
<1> SUFFICES ASSUME Inv, Inv', [Next]_vars
             PROVE  Session!Next \/ UNCHANGED Session!vars
  OBVIOUS
<1>1. ASSUME UNCHANGED client
      PROVE  UNCHANGED Session!vars
  BY <1>1, Unseen DEF client, tasks, Unsent
<1>2. CASE UNCHANGED vars
  BY <1>1, <1>2, Zenon DEF vars
<1>3. CASE Next
  <2>1. TypeOK
    BY DEF Inv
  <2>2. CASE (\E t \in Topics : subscribe(t) \/ unsubscribe(t) \/ Caller(t)) \/ close
    BY <1>1, <2>2, Zenon DEF subscribe, unsubscribe, Caller, MarkSubscribe, MarkUnsubscribe,
       SendCommand, close
  <2>3. CASE close_returns
    BY <2>3, OwnerStep DEF Session!Next
  <2> QED
    BY <1>3, <2>1, <2>2, <2>3, Steps, HandlerRefines, WriterRefines, ControllerRefines, Zenon
<1> QED
  BY <1>2, <1>3

\* The initial states are initial states of the session.
LEMMA InitRefines == Init => Session!Init
<1> SUFFICES ASSUME Init
             PROVE  Session!Init
  OBVIOUS
<1>1. /\ connection_mode = "Active" /\ auth_state = "Unauthenticated" /\ taken = FALSE
      /\ reader.conn = 1 /\ controller.at = "select"
  BY DEF Init, ClientInit
<1>2. Unsent = 0
  BY SMT DEF Init, ClientInit, Unsent
<1> QED
  BY <1>1, <1>2 DEF Session!Init

-----------------------------------------------------------------------------
\* The login.  What waits in raw_rx tells of a login on the connection of the read task: an
\* answer to a login, and no reconnection after it.
LoginAhead(q) ==
    \E i \in 1 .. Len(q) : /\ q[i].type = "Authenticated"
                           /\ \A j \in i + 1 .. Len(q) : q[j].type # "Reconnected"

LoggedIn(c) == c.up => c.authenticated

\* An answer to a login is under way only where the venue has accepted it.
Answered(c) ==
    \A i \in 1 .. Len(c.outbox) : c.outbox[i].type = "Authenticated" => c.authenticated

\* What the client makes of the answers is true of its connection, unless it has trusted a
\* login of an earlier one.
LoginKnown ==
    /\ \A c \in Connections : Answered(connections[c])
    /\ (connection_mode = "Active" /\ controller.at # "announce" /\ LoginAhead(raw_rx))
          => LoggedIn(connections[reader.conn])
    /\ (auth_state = "Authenticated" /\ ~stale_login)
          => connection_mode = "Active" /\ LoggedIn(connections[writer.conn])
    /\ ReplayWaitsForLogin

\* A login ahead when a message is added to the queue or taken from it.
LEMMA LoginAheadMoves ==
    ASSUME NEW q \in Seq(Frames \cup {Reconnected})
    PROVE  /\ \A f \in Frames \cup {Reconnected} : LoginAhead(Append(q, f)) =>
                f.type # "Reconnected" /\ (f.type = "Authenticated" \/ LoginAhead(q))
           /\ q # <<>> /\ LoginAhead(Tail(q)) => LoginAhead(q)
           /\ (q # <<>> /\ Head(q).type = "Authenticated" /\ Reconnected \notin Range(q))
                => LoginAhead(q)
<1>1. ASSUME NEW f \in Frames \cup {Reconnected}, LoginAhead(Append(q, f))
      PROVE  f.type # "Reconnected" /\ (f.type = "Authenticated" \/ LoginAhead(q))
  <2> DEFINE r == Append(q, f)
  <2>1. /\ Len(r) = Len(q) + 1 /\ r[Len(r)] = f /\ Len(q) \in Nat
        /\ \A i \in 1 .. Len(q) : r[i] = q[i]
    BY SMT
  <2>2. PICK i \in 1 .. Len(r) : /\ r[i].type = "Authenticated"
                                 /\ \A j \in i + 1 .. Len(r) : r[j].type # "Reconnected"
    BY <1>1 DEF LoginAhead
  <2> HIDE DEF r
  <2>3. CASE i = Len(r)
    BY <2>1, <2>2, <2>3
  <2>4. CASE i # Len(r)
    <3>1. i \in 1 .. Len(q) /\ Len(r) \in i + 1 .. Len(r)
      BY <2>1, <2>4, SMT
    <3>2. q[i].type = "Authenticated" /\ f.type # "Reconnected"
      BY <2>1, <2>2, <3>1
    <3>3. \A j \in i + 1 .. Len(q) : j \in i + 1 .. Len(r) /\ j \in 1 .. Len(q)
      BY <2>1, <3>1, SMT
    <3>4. \A j \in i + 1 .. Len(q) : q[j].type # "Reconnected"
      BY <2>1, <2>2, <3>3
    <3> QED
      BY <3>1, <3>2, <3>4 DEF LoginAhead
  <2> QED
    BY <2>3, <2>4
<1>2. ASSUME q # <<>>, LoginAhead(Tail(q))
      PROVE  LoginAhead(q)
  <2> DEFINE r == Tail(q)
  <2>1. /\ Len(r) = Len(q) - 1 /\ Len(q) \in Nat /\ Len(q) > 0
        /\ \A i \in 1 .. Len(r) : r[i] = q[i + 1]
    BY <1>2, SMT
  <2>2. PICK i \in 1 .. Len(r) : /\ r[i].type = "Authenticated"
                                 /\ \A j \in i + 1 .. Len(r) : r[j].type # "Reconnected"
    BY <1>2 DEF LoginAhead
  <2> HIDE DEF r
  <2>3. i + 1 \in 1 .. Len(q) /\ q[i + 1].type = "Authenticated"
    BY <2>1, <2>2, SMT
  <2>4. ASSUME NEW j \in (i + 1) + 1 .. Len(q)
        PROVE  q[j].type # "Reconnected"
    <3>1. j - 1 \in i + 1 .. Len(r) /\ j - 1 \in 1 .. Len(r) /\ (j - 1) + 1 = j
      BY <2>1, SMT
    <3>2. r[j - 1] = q[(j - 1) + 1]
      BY <2>1, <3>1
    <3>3. r[j - 1].type # "Reconnected"
      BY <2>2, <3>1
    <3> QED
      BY <3>1, <3>2, <3>3
  <2> QED
    BY <2>3, <2>4 DEF LoginAhead
<1>3. ASSUME q # <<>>, Head(q).type = "Authenticated", Reconnected \notin Range(q)
      PROVE  LoginAhead(q)
  <2>1. /\ Len(q) \in Nat /\ 1 \in 1 .. Len(q) /\ q[1] = Head(q)
        /\ DOMAIN q = 1 .. Len(q) /\ \A j \in 1 .. Len(q) : q[j] \in Frames \cup {Reconnected}
    BY <1>3, SMT
  <2>2. \A f \in Frames : f.type # "Reconnected"
    BY SMT DEF Frames, Frame
  <2>3. \A j \in 1 .. Len(q) : q[j] # Reconnected
    BY <1>3, <2>1 DEF Range
  <2>4. \A j \in 1 + 1 .. Len(q) : j \in 1 .. Len(q)
    BY <2>1, SMT
  <2>5. \A j \in 1 + 1 .. Len(q) : q[j].type # "Reconnected"
    BY <2>1, <2>2, <2>3, <2>4
  <2> QED
    BY <1>3, <2>1, <2>5 DEF LoginAhead
<1> QED
  BY <1>1, <1>2, <1>3

\* What happens to a connection does not take its login back, short of its end.
LEMMA LoginStays ==
    /\ Answered(Up) /\ Answered(Down) /\ LoggedIn(Down)
    /\ \A c \in ConnectionStates : Answered(c) =>
         /\ \A m \in Messages : /\ Answered(receive(c, m))
                                /\ LoggedIn(c) => LoggedIn(receive(c, m))
         /\ c.outbox # <<>> =>
              /\ Answered([c EXCEPT !.outbox = Tail(@)])
              /\ LoggedIn([c EXCEPT !.outbox = Tail(@)]) <=> LoggedIn(c)
              /\ Head(c.outbox).type = "Authenticated" => c.authenticated
<1>1. Answered(Up) /\ Answered(Down) /\ LoggedIn(Down)
  BY SMT DEF Answered, LoggedIn, Up, Down
<1>2. ASSUME NEW c \in ConnectionStates, Answered(c), NEW m \in Messages
      PROVE  Answered(receive(c, m)) /\ (LoggedIn(c) => LoggedIn(receive(c, m)))
  <2> DEFINE type == answer(c, m)
             r == receive(c, m)
             f == Frame(type, m.topic)
  <2>1. /\ r.up = c.up /\ r.outbox = Append(c.outbox, f) /\ f.type = type
        /\ r.authenticated = IF type = "Authenticated" THEN TRUE ELSE c.authenticated
    BY DEF receive, Frame
  <2>2. c.outbox \in Seq(Frames)
    BY DEF ConnectionStates
  <2> HIDE DEF type, r, f
  <2>3. /\ Len(r.outbox) = Len(c.outbox) + 1 /\ Len(c.outbox) \in Nat
        /\ r.outbox[Len(c.outbox) + 1] = f
        /\ \A i \in 1 .. Len(c.outbox) : r.outbox[i] = c.outbox[i]
    BY <2>1, <2>2, SMT
  <2>4. Answered(r)
    BY <1>2, <2>1, <2>3, SMT DEF Answered
  <2>5. LoggedIn(c) => LoggedIn(r)
    BY <2>1 DEF LoggedIn
  <2> QED
    BY <2>4, <2>5 DEF r
<1>3. ASSUME NEW c \in ConnectionStates, Answered(c), c.outbox # <<>>
      PROVE  /\ Answered([c EXCEPT !.outbox = Tail(@)])
             /\ LoggedIn([c EXCEPT !.outbox = Tail(@)]) <=> LoggedIn(c)
             /\ Head(c.outbox).type = "Authenticated" => c.authenticated
  <2> DEFINE r == [c EXCEPT !.outbox = Tail(@)]
  <2>1. c.outbox \in Seq(Frames)
    BY DEF ConnectionStates
  <2>2. /\ r.up = c.up /\ r.authenticated = c.authenticated /\ r.outbox = Tail(c.outbox)
    BY DEF ConnectionStates
  <2> HIDE DEF r
  <2>3. /\ Len(r.outbox) = Len(c.outbox) - 1 /\ Len(c.outbox) \in Nat /\ Len(c.outbox) > 0
        /\ Head(c.outbox) = c.outbox[1]
        /\ \A i \in 1 .. Len(r.outbox) : r.outbox[i] = c.outbox[i + 1]
    BY <1>3, <2>1, <2>2, SMT
  <2>4. Answered(r) /\ (Head(c.outbox).type = "Authenticated" => c.authenticated)
    BY <1>3, <2>2, <2>3, SMT DEF Answered
  <2>5. LoggedIn(r) <=> LoggedIn(c)
    BY <2>2 DEF LoggedIn
  <2> QED
    BY <2>4, <2>5 DEF r
<1> QED
  BY <1>1, <1>2, <1>3

\* At first nothing is logged in and nothing is under way.
LEMMA LoginInit == Init => LoginKnown
<1> SUFFICES ASSUME Init
             PROVE  LoginKnown
  OBVIOUS
<1>1. /\ connections = [c \in Connections |-> IF c = 1 THEN Up ELSE Down]
      /\ raw_rx = <<>> /\ auth_state = "Unauthenticated" /\ writer.at = "top"
  BY DEF Init, ClientInit
<1>2. \A c \in Connections : Answered(connections[c])
  BY <1>1, LoginStays
<1>3. ~LoginAhead(raw_rx)
  BY <1>1, SMT DEF LoginAhead
<1> QED
  BY <1>1, <1>2, <1>3 DEF LoginKnown, ReplayWaitsForLogin

\* A step that leaves the connections and the tasks alone, and learns of no login.
LEMMA LoginUnmoved ==
    ASSUME LoginKnown, UNCHANGED <<tasks, raw_rx, requires_auth>>, stale_login => stale_login',
           connection_mode' = "Active" => connection_mode = "Active",
           auth_state' = "Authenticated" =>
             auth_state = "Authenticated" /\ connection_mode' = connection_mode
    PROVE  LoginKnown'
<1>1. UNCHANGED <<controller, reader, writer, connections, raw_rx, requires_auth>>
  BY DEF tasks
<1>2. (\A c \in Connections : Answered(connections[c]))' /\ LoginAhead(raw_rx)' = LoginAhead(raw_rx)
  BY <1>1 DEF LoginKnown, LoginAhead, Answered
<1> QED
  BY <1>1, <1>2, SMT DEF LoginKnown, LoggedIn, ReplayWaitsForLogin

\* When the tasks end, all the connections are down.
LEMMA LoginEnds ==
    ASSUME Inv, TasksEnd, LoginKnown, UNCHANGED requires_auth, stale_login => stale_login',
           auth_state' = "Authenticated" =>
             auth_state = "Authenticated" /\ (~stale_login => connection_mode' = "Active")
    PROVE  LoginKnown'
<1>1. /\ \A c \in Connections : connections'[c] = Down
      /\ writer'.at = "exited" /\ writer'.conn \in Connections /\ reader'.conn \in Connections
  BY DEF TasksEnd, Inv, TypeOK
<1>2. (\A c \in Connections : Answered(connections[c]))'
  BY <1>1, LoginStays
<1>3. LoggedIn(connections'[writer'.conn]) /\ LoggedIn(connections'[reader'.conn])
  BY <1>1, LoginStays
<1> QED
  BY <1>1, <1>2, <1>3 DEF LoginKnown, ReplayWaitsForLogin

\* The feed handler believes a login of this connection, or has trusted a stale one.
LEMMA LoginHandler ==
    ASSUME Inv, LoginKnown, Handler
    PROVE  LoginKnown'
<1>1. /\ stale_login => stale_login'
      /\ TrustsStaleLogin => stale_login'
      /\ UNCHANGED requires_auth
  BY DEF Handler, fixed, Inv, TypeOK
<1>2. CASE HandleMessage
  <2> DEFINE f == Head(raw_rx)
  <2>1. /\ raw_rx # <<>> /\ raw_rx' = Tail(raw_rx)
        /\ UNCHANGED <<connection_mode, controller, reader, writer, connections>>
    BY <1>2 DEF HandleMessage, tasks
  <2>2. /\ raw_rx \in Seq(Frames \cup {Reconnected})
        /\ connection_mode = "Active" => writer.conn = reader.conn
    BY DEF Inv, TypeOK, Linked, OneConnection
  <2>3. LoginAhead(raw_rx)' => LoginAhead(raw_rx)
    BY <2>1, <2>2, LoginAheadMoves DEF LoginAhead
  <2>4. ASSUME auth_state' = "Authenticated", ~stale_login'
        PROVE  connection_mode = "Active" /\ LoggedIn(connections[writer.conn])
    <3>1. ~stale_login
      BY <1>1, <2>4
    <3>2. CASE f.type \notin {"Reconnected", "Authenticated", "AuthFailed"}
      <4>1. auth_state' = auth_state
        BY <1>2, <3>2 DEF HandleMessage
      <4> QED
        BY <2>4, <3>1, <4>1 DEF LoginKnown
    <3>3. CASE f.type = "Authenticated"
      <4>1. /\ connection_mode = "Active" /\ controller.at # "announce"
            /\ Reconnected \notin Range(raw_rx)
        BY <1>1, <2>4 DEF TrustsStaleLogin
      <4>2. LoginAhead(raw_rx)
        BY <2>1, <2>2, <3>3, <4>1, LoginAheadMoves
      <4> QED
        BY <2>2, <4>1, <4>2 DEF LoginKnown
    <3>4. CASE f.type \in {"Reconnected", "AuthFailed"}
      BY <1>2, <2>4, <3>4 DEF HandleMessage, HandleReconnected, HandleAuth
    <3> QED
      BY <3>2, <3>3, <3>4
  <2>5. (\A c \in Connections : Answered(connections[c]))'
    BY <2>1 DEF LoginKnown, Answered
  <2>6. ReplayWaitsForLogin'
    BY <1>1, <2>1 DEF LoginKnown, ReplayWaitsForLogin
  <2>7. (connection_mode' = "Active" /\ controller'.at # "announce" /\ LoginAhead(raw_rx)')
           => LoggedIn(connections'[reader'.conn])
    BY <2>1, <2>3 DEF LoginKnown
  <2>8. (auth_state' = "Authenticated" /\ ~stale_login')
           => connection_mode' = "Active" /\ LoggedIn(connections'[writer'.conn])
    BY <2>1, <2>4
  <2> QED
    BY <2>5, <2>6, <2>7, <2>8 DEF LoginKnown, LoggedIn, LoginAhead
<1>3. CASE HandleCommand
  <2>1. /\ UNCHANGED <<tasks, raw_rx>>
        /\ UNCHANGED <<connection_mode, auth_state>> \/ request_disconnect
    BY <1>3, Zenon DEF HandleCommand
  <2>2. /\ connection_mode' = "Active" => connection_mode = "Active"
        /\ auth_state' = "Authenticated" =>
             auth_state = "Authenticated" /\ connection_mode' = connection_mode
    BY <2>1 DEF request_disconnect
  <2> QED
    BY <1>1, <2>1, <2>2, LoginUnmoved
<1>4. CASE SendNext \/ SendFails \/ Resubscribe
  BY <1>1, <1>4, LoginUnmoved DEF SendNext, SendFails, Resubscribe, client
<1>5. CASE Disconnected /\ controller.at = "done"
  BY <1>1, <1>5, LoginUnmoved DEF Disconnected, client
<1>6. CASE Disconnected /\ controller.at # "done"
  <2>1. TasksEnd /\ UNCHANGED auth_state /\ connection_mode # "Active"
    BY <1>6 DEF Disconnected, Inv, Linked
  <2> QED
    BY <1>1, <2>1, LoginEnds DEF LoginKnown
<1>7. CASE HandlerStops
  <2>1. TasksEnd /\ UNCHANGED <<auth_state, connection_mode>>
    BY <1>7 DEF HandlerStops
  <2> QED
    BY <1>1, <2>1, LoginEnds DEF LoginKnown
<1> QED
  BY <1>2, <1>3, <1>4, <1>5, <1>6, <1>7 DEF Handler

\* The write task sends what it has buffered when the tracker tells of a login.
LEMMA LoginWriter ==
    ASSUME Inv, LoginKnown, Writer, UNCHANGED <<requires_auth, stale_login>>
    PROVE  LoginKnown'
<1>1. /\ UNCHANGED <<controller, reader, raw_rx>>
      /\ UNCHANGED <<connection_mode, auth_state>> \/ request_reconnect
  BY Zenon DEF Writer, WriterTop, WriterRecv, WriterSent, WriterFails, WriterExit, WriterDiscard,
         WriterGoes
<1>2. /\ connection_mode' = "Active" => connection_mode = "Active"
      /\ auth_state' = "Authenticated" =>
             auth_state = "Authenticated" /\ connection_mode' = connection_mode
  BY <1>1 DEF request_reconnect
<1>3. /\ writer.conn \in Connections /\ reader.conn \in Connections
      /\ connections \in [Connections -> ConnectionStates]
      /\ writer.at \in {"send", "drain"} => InHand \in Messages
  <2>1. /\ writer.at = "send" => writer.msg \in Messages
        /\ writer.at = "drain" => reconnect_buffer # <<>>
        /\ reconnect_buffer \in Seq(Messages)
    BY DEF Inv, Linked, TypeOK
  <2> QED
    BY <2>1, SMT DEF InHand, Inv, TypeOK
<1>4. ASSUME \A c \in Connections :
               Answered(connections'[c]) /\ (LoggedIn(connections[c]) => LoggedIn(connections'[c])),
             connection_mode' = "Active" => writer'.conn = writer.conn,
             writer'.at = "drain" /\ requires_auth =>
               LoggedIn(connections'[writer'.conn]) \/ stale_login
      PROVE  LoginKnown'
  <2>1. (\A c \in Connections : Answered(connections[c]))'
    BY <1>4
  <2>2. (connection_mode' = "Active" /\ controller'.at # "announce" /\ LoginAhead(raw_rx)')
           => LoggedIn(connections'[reader'.conn])
    BY <1>1, <1>2, <1>3, <1>4 DEF LoginKnown, LoginAhead
  <2>3. (auth_state' = "Authenticated" /\ ~stale_login')
           => connection_mode' = "Active" /\ LoggedIn(connections'[writer'.conn])
    BY <1>2, <1>3, <1>4 DEF LoginKnown
  <2>4. ReplayWaitsForLogin'
    BY <1>4 DEF ReplayWaitsForLogin, LoggedIn
  <2> QED
    BY <2>1, <2>2, <2>3, <2>4 DEF LoginKnown, LoggedIn, LoginAhead
<1>5. ASSUME connections' = [connections EXCEPT ![writer.conn] = Down] \/ UNCHANGED connections
      PROVE  \A c \in Connections :
               Answered(connections'[c]) /\ (LoggedIn(connections[c]) => LoggedIn(connections'[c]))
  <2> SUFFICES ASSUME NEW c \in Connections
               PROVE  Answered(connections'[c]) /\ (LoggedIn(connections[c]) => LoggedIn(connections'[c]))
    OBVIOUS
  <2>1. connections'[c] \in {connections[c], Down}
    BY <1>3, <1>5
  <2> QED
    BY <2>1, LoginStays DEF LoginKnown
<1>6. CASE WriterTop /\ writer'.at # "drain"
  <2>1. /\ connections' = [connections EXCEPT ![writer.conn] = Down] \/ UNCHANGED connections
        /\ writer'.conn = writer.conn
    BY <1>6, Zenon DEF WriterTop, WriterExit, WriterDiscard, WriterGoes, Inv, TypeOK
  <2> QED
    BY <1>4, <1>5, <1>6, <2>1
<1>7. CASE WriterTop /\ writer'.at = "drain"
  <2>1. can_drain_reconnect_buffer /\ WriterGoes("drain")
    BY <1>7 DEF WriterTop, WriterExit, WriterDiscard, WriterGoes, Inv, TypeOK
  <2>2. writer'.conn = writer.conn /\ UNCHANGED connections
    BY <2>1 DEF WriterGoes, Inv, TypeOK
  <2>3. requires_auth => LoggedIn(connections[writer.conn]) \/ stale_login
    BY <2>1 DEF LoginKnown, can_drain_reconnect_buffer, reconnect_buffer_waits_for_auth
  <2>4. LoggedIn(connections'[writer'.conn]) = LoggedIn(connections[writer.conn])
    BY <2>2
  <2> QED
    BY <1>4, <1>5, <2>2, <2>3, <2>4
<1>8. CASE WriterRecv
  <2>1. /\ connections' = [connections EXCEPT ![writer.conn] = Down] \/ UNCHANGED connections
        /\ writer'.at # "drain"
        /\ connection_mode' = connection_mode
    <3>1. writer_rx # <<>> => Head(writer_rx).type \in {"Send", "Update"}
      BY CommandForms, SMT DEF Inv, TypeOK
    <3>2. "at" \in DOMAIN writer
      BY DEF Inv, TypeOK
    <3>3. CASE WriterGoes("top")
      BY <3>2, <3>3 DEF WriterGoes
    <3>4. CASE WriterExit
      BY <3>2, <3>4 DEF WriterExit
    <3>5. CASE writer_rx # <<>> /\ ~WriterExit
      <4> DEFINE command == Head(writer_rx)
      <4>1. /\ connection_mode' = connection_mode
            /\ \/ WriterUpdate(command.conn)
               \/ WriterBuffers(command.msg)
               \/ WriterStartsSend(command.msg)
        <5>1. connection_mode \in {"Active", "Reconnect"} /\ command.type \in {"Send", "Update"}
          BY <1>8, <3>1, <3>5 DEF WriterRecv
        <5>2. CASE command.type = "Update"
          BY <1>8, <3>5, <5>1, <5>2 DEF WriterRecv
        <5>3. CASE command.type = "Send" /\ connection_mode = "Reconnect"
          BY <1>8, <3>5, <5>1, <5>3 DEF WriterRecv
        <5>4. CASE command.type = "Send" /\ connection_mode = "Active"
          BY <1>8, <3>5, <5>1, <5>4 DEF WriterRecv
        <5> QED
          BY <5>1, <5>2, <5>3, <5>4
      <4> QED
        BY <3>2, <4>1 DEF WriterUpdate, WriterBuffers, WriterStartsSend
    <3> QED
      BY <1>8, <3>3, <3>4, <3>5 DEF WriterRecv
  <2>2. connection_mode = "Active" => writer'.conn = writer.conn
    <3> SUFFICES ASSUME connection_mode = "Active"
                 PROVE  writer'.conn = writer.conn
      OBVIOUS
    <3>1. CASE WriterGoes("top")
      BY <3>1 DEF WriterGoes, Inv, TypeOK
    <3>2. CASE ~WriterGoes("top")
      <4>1. writer_rx # <<>> /\ writer.at # "exited" /\ writer_rx \in Seq(Commands)
        BY <1>8, <3>2 DEF WriterRecv, Inv, TypeOK
      <4>2. controller.conn = writer.conn
        BY <4>1 DEF Inv, Linked
      <4>3. Head(writer_rx).type = "Send"
        BY <4>1, <4>2, CommandReceived, CommandForms DEF Inv, Linked
      <4>4. WriterStartsSend(Head(writer_rx).msg)
        BY <1>8, <3>2, <4>3 DEF WriterRecv
      <4> QED
        BY <4>4 DEF WriterStartsSend, Inv, TypeOK
    <3> QED
      BY <3>1, <3>2
  <2> QED
    BY <1>4, <1>5, <2>1, <2>2
<1>9. CASE WriterSent
  <2> DEFINE old == connections[writer.conn]
             new == IF old.up THEN receive(old, InHand) ELSE old
  <2>1. /\ connections' = [connections EXCEPT ![writer.conn] = new]
        /\ writer'.conn = writer.conn
        /\ writer'.at = "drain" => writer.at = "drain"
        /\ writer.at \in {"send", "drain"}
    BY <1>9 DEF WriterSent, Inv, TypeOK
  <2>2. old \in ConnectionStates /\ Answered(old)
    BY <1>3 DEF LoginKnown
  <2>3. Answered(new) /\ (LoggedIn(old) => LoggedIn(new))
    BY <1>3, <2>1, <2>2, LoginStays
  <2> HIDE DEF new
  <2>4. \A c \in Connections : connections'[c] = IF c = writer.conn THEN new ELSE connections[c]
    BY <1>3, <2>1
  <2>5. \A c \in Connections :
          Answered(connections'[c]) /\ (LoggedIn(connections[c]) => LoggedIn(connections'[c]))
    BY <2>3, <2>4 DEF LoginKnown
  <2>6. writer.at = "drain" /\ requires_auth => LoggedIn(old) \/ stale_login
    BY DEF LoginKnown, ReplayWaitsForLogin, LoggedIn
  <2>7. writer'.at = "drain" /\ requires_auth => LoggedIn(connections'[writer'.conn]) \/ stale_login
    BY <1>3, <2>1, <2>5, <2>6
  <2> QED
    BY <1>4, <2>1, <2>5, <2>7
<1>10. CASE WriterFails
  <2>1. UNCHANGED connections /\ writer'.at = "top" /\ writer'.conn = writer.conn
    BY <1>10 DEF WriterFails, Inv, TypeOK
  <2> QED
    BY <1>4, <1>5, <2>1
<1> QED
  BY <1>6, <1>7, <1>8, <1>9, <1>10 DEF Writer

\* The read task passes on an answer of its own connection; a connection that goes down takes
\* its answers with it.
LEMMA LoginReader ==
    ASSUME Inv, LoginKnown, UNCHANGED <<requires_auth, stale_login>>,
           \/ ReaderReceives \/ ReaderEnds \/ ReaderIdles
           \/ \E c \in Connections : GoesDown(c)
    PROVE  LoginKnown'
<1>1. UNCHANGED <<connection_mode, auth_state, controller, writer>>
  BY DEF ReaderReceives, ReaderEnds, ReaderIdles, GoesDown
<1>2. /\ reader'.conn = reader.conn /\ reader.conn \in Connections /\ writer.conn \in Connections
      /\ connections \in [Connections -> ConnectionStates]
      /\ raw_rx \in Seq(Frames \cup {Reconnected})
  BY DEF ReaderReceives, ReaderEnds, ReaderIdles, GoesDown, Inv, TypeOK
<1>3. ASSUME \A c \in Connections :
               Answered(connections'[c]) /\ (LoggedIn(connections[c]) => LoggedIn(connections'[c])),
             LoginAhead(raw_rx)' => LoginAhead(raw_rx) \/ LoggedIn(connections'[reader.conn])
      PROVE  LoginKnown'
  <2>1. (connection_mode' = "Active" /\ controller'.at # "announce" /\ LoginAhead(raw_rx)')
           => LoggedIn(connections'[reader'.conn])
    BY <1>1, <1>2, <1>3 DEF LoginKnown
  <2>2. (auth_state' = "Authenticated" /\ ~stale_login')
           => connection_mode' = "Active" /\ LoggedIn(connections'[writer'.conn])
    BY <1>1, <1>2, <1>3 DEF LoginKnown
  <2>3. ReplayWaitsForLogin'
    BY <1>1, <1>2, <1>3 DEF LoginKnown, ReplayWaitsForLogin, LoggedIn
  <2> QED
    BY <1>3, <2>1, <2>2, <2>3 DEF LoginKnown, LoggedIn, LoginAhead
<1>4. CASE ReaderReceives
  <2> DEFINE old == connections[reader.conn]
             new == [old EXCEPT !.outbox = Tail(@)]
             f == Head(old.outbox)
  <2>1. /\ raw_rx' = Append(raw_rx, f) /\ old.outbox # <<>>
        /\ connections' = [connections EXCEPT ![reader.conn] = new]
    BY <1>4 DEF ReaderReceives
  <2>2. old \in ConnectionStates /\ Answered(old) /\ f \in Frames \cup {Reconnected}
    BY <1>2, <2>1, SMT DEF LoginKnown, ConnectionStates
  <2>3. /\ Answered(new) /\ (LoggedIn(old) <=> LoggedIn(new))
        /\ f.type = "Authenticated" => LoggedIn(old)
    BY <2>1, <2>2, LoginStays DEF LoggedIn
  <2> HIDE DEF new, f
  <2>4. \A c \in Connections : connections'[c] = IF c = reader.conn THEN new ELSE connections[c]
    BY <1>2, <2>1
  <2>5. \A c \in Connections :
          Answered(connections'[c]) /\ (LoggedIn(connections[c]) => LoggedIn(connections'[c]))
    BY <2>3, <2>4 DEF LoginKnown
  <2>6. LoginAhead(raw_rx') => f.type = "Authenticated" \/ LoginAhead(raw_rx)
    BY <1>2, <2>1, <2>2, LoginAheadMoves
  <2>7. LoginAhead(raw_rx)' => LoginAhead(raw_rx) \/ LoggedIn(connections'[reader.conn])
    BY <1>2, <2>3, <2>4, <2>6 DEF LoginAhead
  <2> QED
    BY <1>3, <2>5, <2>7
<1>5. CASE ReaderEnds \/ ReaderIdles \/ \E c \in Connections : GoesDown(c)
  <2>1. /\ UNCHANGED raw_rx
        /\ \A c \in Connections : connections'[c] \in {connections[c], Down}
    BY <1>2, <1>5 DEF ReaderEnds, ReaderIdles, GoesDown
  <2>2. \A c \in Connections :
          Answered(connections'[c]) /\ (LoggedIn(connections[c]) => LoggedIn(connections'[c]))
    BY <2>1, LoginStays DEF LoginKnown
  <2>3. LoginAhead(raw_rx)' => LoginAhead(raw_rx)
    BY <2>1 DEF LoginAhead
  <2> QED
    BY <1>3, <2>2, <2>3
<1> QED
  BY <1>4, <1>5

\* The controller: no answer that was under way counts for the connection it makes, once it
\* has announced that.
LEMMA LoginController ==
    ASSUME Inv, LoginKnown, UNCHANGED <<requires_auth, stale_login>>, Controller
    PROVE  LoginKnown'
<1>1. CASE controller.at = "select" /\ (ControllerCloses \/ ControllerGivesUp)
  <2>1. /\ TasksEnd
        /\ auth_state' = "Failed" \/ (UNCHANGED auth_state /\ connection_mode # "Active")
    BY <1>1 DEF ControllerCloses, ControllerGivesUp
  <2> QED
    BY <2>1, LoginEnds DEF LoginKnown
<1>2. ASSUME UNCHANGED <<writer, connections>>,
             auth_state' = "Authenticated" =>
               auth_state = "Authenticated" /\ (connection_mode = "Active" => connection_mode' = "Active"),
             (connection_mode' = "Active" /\ controller'.at # "announce" /\ LoginAhead(raw_rx)')
                => LoggedIn(connections[reader'.conn])
      PROVE  LoginKnown'
  <2>1. (\A c \in Connections : Answered(connections[c]))'
    BY <1>2 DEF LoginKnown
  <2>2. (connection_mode' = "Active" /\ controller'.at # "announce" /\ LoginAhead(raw_rx)')
           => LoggedIn(connections'[reader'.conn])
    BY <1>2
  <2>3. (auth_state' = "Authenticated" /\ ~stale_login')
           => connection_mode' = "Active" /\ LoggedIn(connections'[writer'.conn])
    BY <1>2 DEF LoginKnown
  <2>4. ReplayWaitsForLogin'
    BY <1>2 DEF LoginKnown, ReplayWaitsForLogin
  <2> QED
    BY <2>1, <2>2, <2>3, <2>4 DEF LoginKnown, LoggedIn, LoginAhead
<1>3. ASSUME controller.at \in {"select", "connect", "await_writer"},
             UNCHANGED <<writer, connections, raw_rx, reader>>,
             UNCHANGED <<connection_mode, auth_state>> \/ request_reconnect
      PROVE  LoginKnown'
  <2>1. /\ connection_mode' = "Active" => connection_mode = "Active"
        /\ auth_state' = "Authenticated" =>
             auth_state = "Authenticated" /\ connection_mode' = connection_mode
    BY <1>3 DEF request_reconnect
  <2>2. LoginAhead(raw_rx)' = LoginAhead(raw_rx) /\ reader'.conn = reader.conn
    BY <1>3 DEF LoginAhead
  <2>3. connection_mode' = "Active" /\ LoginAhead(raw_rx)' => LoggedIn(connections[reader'.conn])
    BY <1>3, <2>1, <2>2 DEF LoginKnown
  <2> QED
    BY <1>2, <1>3, <2>1, <2>3
<1>4. CASE controller.at = "select" /\ (ControllerDetects \/ ControllerTries)
  BY <1>3, <1>4 DEF ControllerDetects, ControllerTries, ControllerGoes
<1>5. CASE \/ controller.at = "connect" /\ (ConnectFails \/ Interrupted)
           \/ controller.at = "await_writer" /\ Interrupted
  BY <1>3, <1>5 DEF ConnectFails, Interrupted, ControllerGoes
<1>6. CASE controller.at = "connect" /\ ConnectSucceeds
  <2> DEFINE c == controller.conn + 1
  <2>1. /\ connections' = [connections EXCEPT ![c] = Up] /\ connection_mode # "Disconnect"
        /\ UNCHANGED <<connection_mode, auth_state, writer>>
    BY <1>6 DEF ConnectSucceeds
  <2>2. connection_mode # "Active" /\ writer.conn = controller.conn /\ writer.conn # c
    BY <1>6, <2>1, ClientAssumption, SMT DEF Inv, Linked, TypeOK, Connections
  <2> HIDE DEF c
  <2>3. /\ connections \in [Connections -> ConnectionStates] /\ writer.conn \in Connections
    BY DEF Inv, TypeOK
  <2>4. (\A d \in Connections : Answered(connections[d]))'
    <3> SUFFICES ASSUME NEW d \in Connections
                 PROVE  Answered(connections'[d])
      BY DEF Answered
    <3>1. connections'[d] \in {connections[d], Up}
      BY <2>1, <2>3
    <3> QED
      BY <3>1, LoginStays DEF LoginKnown
  <2>5. connections'[writer'.conn] = connections[writer.conn]
    BY <2>1, <2>2, <2>3
  <2>6. ReplayWaitsForLogin'
    BY <2>1, <2>5 DEF LoginKnown, ReplayWaitsForLogin
  <2> QED
    BY <2>1, <2>2, <2>4, <2>6 DEF LoginKnown
<1>7. CASE controller.at = "await_writer" /\ SwapReader
  <2>1. /\ controller'.at = "announce" /\ connection_mode # "Active"
        /\ UNCHANGED <<writer, connections, auth_state>> /\ connection_mode' = "Active"
    BY <1>7 DEF SwapReader, Inv, TypeOK
  <2> QED
    BY <1>2, <2>1
<1>8. CASE controller.at = "announce" /\ Announce
  <2>1. /\ UNCHANGED <<writer, connections, auth_state, connection_mode>>
        /\ connection_mode = "Active" => raw_rx' = Append(raw_rx, Reconnected)
    BY <1>8 DEF Announce
  <2>2. raw_rx \in Seq(Frames \cup {Reconnected}) /\ Reconnected.type = "Reconnected"
    BY DEF Inv, TypeOK, Reconnected
  <2>3. connection_mode = "Active" => ~LoginAhead(raw_rx')
    BY <2>1, <2>2, LoginAheadMoves
  <2> QED
    BY <1>2, <2>1, <2>3 DEF LoginAhead
<1> QED
  BY <1>1, <1>4, <1>5, <1>6, <1>7, <1>8 DEF Controller

\* Every step keeps what is known of the login.
LEMMA LoginNext == Inv /\ LoginKnown /\ [Next]_vars => LoginKnown'
<1> SUFFICES ASSUME Inv, LoginKnown, [Next]_vars
             PROVE  LoginKnown'
  OBVIOUS
<1>1. CASE \/ \E t \in Topics : subscribe(t) \/ unsubscribe(t) \/ Caller(t)
           \/ close \/ UNCHANGED vars
  <2>1. UNCHANGED <<client, fixed, stale_login>>
    BY <1>1, Zenon DEF subscribe, unsubscribe, Caller, MarkSubscribe, MarkUnsubscribe,
       SendCommand, close, vars, history
  <2> QED
    BY <2>1, LoginUnmoved DEF client, fixed
<1>2. CASE close_returns
  BY <1>2, LoginUnmoved DEF close_returns, fixed, history
<1>3. CASE Handler
  BY <1>3, LoginHandler
<1>4. CASE ClientTasks
  BY <1>4, LoginWriter, LoginReader, LoginController DEF ClientTasks, fixed
<1>5. CASE close_aborts
  BY <1>5, LoginEnds DEF close_aborts, fixed, history, LoginKnown
<1> QED
  BY <1>1, <1>2, <1>3, <1>4, <1>5 DEF Next

-----------------------------------------------------------------------------
\* The feed handler and the client's tasks lose no topic of the tracker.
LEMMA HandlerKeeps ==
    ASSUME Inv, HandleCommand \/ SendNext \/ SendFails \/ Disconnected \/ HandleMessage
                \/ Resubscribe \/ HandlerStops \/ close_aborts
    PROVE  Keeps(subscriptions, subscriptions')
<1>1. /\ Typed(subscriptions) /\ handler.topics \in SUBSET Topics
      /\ raw_rx \in Seq(Frames \cup {Reconnected})
  BY Parts DEF AdapterTyped, QueuesTyped
<1>2. CASE UNCHANGED subscriptions
  BY <1>1, <1>2 DEF Keeps
<1>3. CASE Resubscribe
  BY <1>1, <1>3, RestoreKeeps DEF Resubscribe
<1>4. CASE HandleMessage /\ subscriptions' # subscriptions
  <2> DEFINE f == Head(raw_rx)
  <2>1. f \in Frames \cup {Reconnected}
    BY <1>1, <1>4, SMT DEF HandleMessage
  <2>2. CASE f.type = "Reconnected"
    BY <1>1, <1>4, <2>2, RestoreKeeps DEF HandleMessage, HandleReconnected
  <2>3. CASE f.type \in {"Authenticated", "AuthFailed"}
    BY <1>4, <2>3 DEF HandleMessage, HandleAuth
  <2>4. CASE f.type \notin {"Reconnected", "Authenticated", "AuthFailed"}
    <3>1. /\ f.topic \in Topics
          /\ f.type \in {"Subscribed", "AlreadySubscribed", "SubscribeFailed", "Unsubscribed"}
      BY <2>1, <2>4, SMT DEF Frames, Frame, Reconnected
    <3>2. subscriptions' = handle_subscription_ack(subscriptions, f)
      BY <1>4, <2>4, Zenon DEF HandleMessage
    <3> QED
      BY <1>1, <3>1, <3>2, AnswersKeep DEF handle_subscription_ack
  <2> QED
    BY <2>2, <2>3, <2>4
<1> QED
  BY <1>2, <1>3, <1>4, Zenon DEF HandleCommand, SendNext, SendFails, Disconnected,
     HandlerStops, close_aborts

\* A wanted topic stays one that is tracked, is about to be marked, or was overtaken.
LEMMA TrackedNext == Inv /\ WantedIsTracked /\ [Next]_vars => WantedIsTracked'
<1> SUFFICES ASSUME Inv, WantedIsTracked, [Next]_vars,
                    NEW u \in Topics, subscriptions'.reference_counts[u] > 0
             PROVE  \/ u \in all_topics(subscriptions')
                    \/ callers'[u]["mark_subscribe"] > 0
                    \/ u \in overtaken'
  BY DEF WantedIsTracked, Wanted
<1>1. /\ Typed(subscriptions) /\ callers \in [Topics -> [CallSteps -> Nat]] /\ TypeOK
      /\ "mark_subscribe" \in CallSteps
  BY Parts DEF AdapterTyped, HistoryTyped, Inv, CallSteps
<1>2. subscriptions.reference_counts[u] > 0 => \/ u \in all_topics(subscriptions)
                                              \/ callers[u]["mark_subscribe"] > 0
                                              \/ u \in overtaken
  BY DEF WantedIsTracked, Wanted
<1> DEFINE Known == \/ u \in all_topics(subscriptions')
                    \/ callers'[u]["mark_subscribe"] > 0
                    \/ u \in overtaken'
<1>3. ASSUME Keeps(subscriptions, subscriptions'), UNCHANGED <<callers, overtaken>>
      PROVE  Known
  BY <1>2, <1>3 DEF Keeps
<1>4. ASSUME NEW t \in Topics, subscribe(t)
      PROVE  Known
  <2>1. /\ all_topics(subscriptions') = all_topics(subscriptions) /\ overtaken' = overtaken
        /\ \/ subscriptions.reference_counts[u] > 0
           \/ u = t /\ is_first_reference(subscriptions, t)
    BY <1>1, <1>4, ReferencesTyped DEF subscribe
  <2>2. /\ callers[u]["mark_subscribe"] > 0 => callers'[u]["mark_subscribe"] > 0
        /\ u = t /\ is_first_reference(subscriptions, t) => callers'[u]["mark_subscribe"] > 0
    BY <1>1, <1>4, SMT DEF subscribe, GoesOn
  <2> QED
    BY <1>2, <2>1, <2>2
<1>5. ASSUME NEW t \in Topics, unsubscribe(t)
      PROVE  Known
  <2>1. /\ all_topics(subscriptions') = all_topics(subscriptions) /\ overtaken' = overtaken
        /\ subscriptions.reference_counts[u] > 0
    BY <1>1, <1>5, ReferencesTyped DEF unsubscribe
  <2>2. callers'[u]["mark_subscribe"] = callers[u]["mark_subscribe"]
    BY <1>1, <1>5, SMT DEF unsubscribe, GoesOn
  <2> QED
    BY <1>2, <2>1, <2>2
<1>6. ASSUME NEW t \in Topics, MarkSubscribe(t)
      PROVE  Known
  <2>1. /\ Keeps(subscriptions, subscriptions') /\ t \in all_topics(subscriptions')
        /\ overtaken' = overtaken
    BY <1>1, <1>6, MarksTyped DEF MarkSubscribe, history
  <2>2. u # t => callers'[u] = callers[u]
    BY <1>1, <1>6, SMT DEF MarkSubscribe
  <2> QED
    BY <1>2, <2>1, <2>2 DEF Keeps
<1>7. ASSUME NEW t \in Topics, MarkUnsubscribe(t)
      PROVE  Known
  <2>1. /\ subscriptions'.reference_counts = subscriptions.reference_counts
        /\ all_topics(subscriptions) \ {t} \subseteq all_topics(subscriptions')
    BY <1>1, <1>7, MarksTyped DEF MarkUnsubscribe
  <2>2. u # t => callers'[u] = callers[u]
    BY <1>1, <1>7, SMT DEF MarkUnsubscribe
  <2>3. u = t => u \in overtaken'
    BY <1>7, <2>1 DEF MarkUnsubscribe
  <2>4. overtaken \subseteq overtaken'
    BY <1>7 DEF MarkUnsubscribe
  <2> QED
    BY <1>2, <2>1, <2>2, <2>3, <2>4
<1>8. ASSUME NEW t \in Topics, NEW step \in CallSteps, step # "mark_subscribe", NEW msg,
             SendCommand(t, step, msg)
      PROVE  Known
  <2>1. UNCHANGED <<subscriptions, overtaken>>
    BY <1>8 DEF SendCommand, history
  <2>2. callers'[u]["mark_subscribe"] = callers[u]["mark_subscribe"]
    BY <1>1, <1>8, SMT DEF SendCommand
  <2> QED
    BY <1>2, <2>1, <2>2
<1>9. ASSUME NEW t \in Topics, Caller(t)
      PROVE  Known
  <2>1. /\ "send_subscribe" \in CallSteps /\ "send_subscribe" # "mark_subscribe"
        /\ "send_unsubscribe" \in CallSteps /\ "send_unsubscribe" # "mark_subscribe"
    BY DEF CallSteps
  <2> QED
    BY <1>6, <1>7, <1>8, <1>9, <2>1 DEF Caller
<1>10. ASSUME HandlerFrame, \/ HandleCommand \/ SendNext \/ SendFails \/ Disconnected
                            \/ HandleMessage \/ Resubscribe \/ HandlerStops \/ close_aborts
       PROVE  Known
  BY <1>3, <1>10, HandlerKeeps DEF HandlerFrame
<1>11. ASSUME close \/ close_returns \/ ClientFrame \/ UNCHANGED vars
       PROVE  Known
  <2>1. UNCHANGED <<subscriptions, callers, overtaken>>
    BY <1>11, Zenon DEF close, close_returns, ClientFrame, vars, adapter, history
  <2> QED
    BY <1>1, <1>3, <2>1 DEF Keeps
<1> QED
  BY <1>1, <1>4, <1>5, <1>9, <1>10, <1>11, Steps, Zenon

-----------------------------------------------------------------------------
\* The tasks are always at their awaits, with at most reconnect_max_attempts in a row, and a
\* topic is in at most one set of the tracker.
THEOREM TypesAlwaysOK == Spec => []TypeOK
<1>1. Inv => TypeOK
  BY DEF Inv
<1> QED
  BY InitInv, NextInv, <1>1, PTL DEF Spec

\* While the client is active its write task and its read task work on one connection.
THEOREM AlwaysOneConnection == Spec => []OneConnection
<1>1. Inv => OneConnection
  BY DEF Inv, Linked
<1> QED
  BY InitInv, NextInv, <1>1, PTL DEF Spec

\* A topic with a subscriber is tracked, whatever answers are still to come and however the
\* calls of other subscribers interleave, unless it is still to be marked, or a call that gave
\* it up marked it only after it had a subscriber again.
THEOREM AlwaysTracked == Spec => []WantedIsTracked
<1>1. Init => WantedIsTracked
  BY SMT DEF Init, NoSubscriptions, WantedIsTracked, Wanted
<1> QED
  BY InitInv, NextInv, TrackedNext, <1>1, PTL DEF Spec

\* On a private connection the messages that were buffered are replayed only after the venue
\* has accepted the login on that connection, unless the feed handler has trusted the answer
\* to a login on an earlier one.
THEOREM ReplayAlwaysWaits == Spec => []ReplayWaitsForLogin
<1>1. LoginKnown => ReplayWaitsForLogin
  BY DEF LoginKnown
<1> QED
  BY InitInv, NextInv, LoginInit, LoginNext, <1>1, PTL DEF Spec

\* The tasks of the client and the feed handler implement WebSocketSession: they lose no message
\* and hand none over twice in a reconnection, and none revives a disconnected client.
THEOREM SessionImplemented == Spec => ImplementsSession
BY InitInv, NextInv, InitRefines, NextRefines, PTL DEF Spec, ImplementsSession, Session!Spec
=============================================================================
