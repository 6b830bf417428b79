----------------------------- MODULE Throttler -----------------------------
(***************************************************************************)
(* The Throttler, which limits a stream of commands to `limit` in any      *)
(* `interval` by dropping (with an output_drop callback) or buffering what *)
(* comes too fast, and the timer it sets on its clock.  Time advances in   *)
(* ticks of a millisecond.  A timestamp is kept as its age, which stops    *)
(* growing at `interval`: no comparison tells older ages apart.            *)
(*                                                                         *)
(* A timer that is due puts an event in the channel of the event loop,     *)
(* where it can no longer be canceled; the loop handles it at some later   *)
(* time.  A LiveTimer is due up to a millisecond before its time.          *)
(***************************************************************************)
EXTENDS Integers, Sequences, FiniteSetsExt

CONSTANTS
    limit,         \* messages allowed in an interval
    interval,      \* the interval, in ticks
    Modes,         \* the kinds of throttler considered, see ModeType
    Batches,       \* the sizes of the batches given to try_reserve
    MaxMessages,   \* bound on the number of messages
    NoTimer

\* drop       : there is an output_drop callback, so messages are not buffered;
\* registered : the throttler is an actor that its timer callbacks can find;
\* large      : the limit is above MAX_INITIAL_TIMESTAMPS_CAPACITY;
\* early      : how long before its time the clock's timer may be due.
\* A throttler that buffers is registered, or nothing would ever drain it.
ModeType ==
    {m \in [drop : BOOLEAN, registered : BOOLEAN, large : BOOLEAN, early : Nat] :
        m.drop \/ m.registered}

ASSUME ThrottlerAssumption ==
    /\ limit \in Nat \ {0}
    /\ interval \in Nat \ {0}
    /\ MaxMessages \in Nat
    /\ Modes \subseteq ModeType
    /\ Batches \subseteq Nat \ {0}

VARIABLES
    mode,        \* the throttler's kind, fixed
    throttler,   \* its fields, its timer, and what became of the messages
    due          \* the callbacks in the channel of the event loop

vars == <<mode, throttler, due>>

Callbacks == {"process", "resume"}

\* Ages: 0 for a message sent now, `interval` for one sent that long ago or longer.
Age == 0 .. interval

\* History: `sent` and `dropped` have the messages by number, `window` the ages of the
\* latest limit + 1 messages sent, latest first.
Throttlers ==
    [timestamps  : Seq(Age),
     buffer      : Seq(1 .. MaxMessages),
     is_limiting : BOOLEAN,
     timer       : [callback : Callbacks, left : Age] \cup {NoTimer},
     received    : 0 .. MaxMessages,
     sent        : Seq(1 .. MaxMessages),
     dropped     : SUBSET (1 .. MaxMessages),
     window      : [1 .. limit + 1 -> Age]]

\* The fields have their types, and no more timestamps are kept than are needed.
TypeOK ==
    /\ mode \in Modes
    /\ throttler \in Throttlers
    /\ Len(throttler.timestamps) <= limit
    /\ due \in Seq(Callbacks)

-----------------------------------------------------------------------------
Smaller(m, n) == IF m <= n THEN m ELSE n

NewThrottler ==
    [timestamps |-> <<>>, buffer |-> <<>>, is_limiting |-> FALSE, timer |-> NoTimer,
     received |-> 0, sent |-> <<>>, dropped |-> {},
     window |-> [i \in 1 .. limit + 1 |-> interval]]

delta_next(t) ==
    IF Len(t.timestamps) < limit THEN 0 ELSE interval - t.timestamps[limit]

set_timer_after(t, delta, callback) ==
    [t EXCEPT !.timer = [callback |-> callback, left |-> delta]]

count_in_window(t) ==
    Cardinality({i \in DOMAIN t.timestamps : t.timestamps[i] < interval})

\* n new messages at the front of a log of ages that keeps `size` of them.
Pushed(ages, n, size) ==
    [i \in 1 .. Smaller(size, Len(ages) + n) |-> IF i <= n THEN 0 ELSE ages[i - n]]

send_msg(t, msgs) ==
    [t EXCEPT !.timestamps = Pushed(@, Len(msgs), limit),
              !.window = Pushed(@, Len(msgs), limit + 1),
              !.sent = @ \o msgs]

limit_msg(t, msg) ==
    LET held == IF mode.drop THEN [t EXCEPT !.dropped = @ \cup {msg}]
                             ELSE [t EXCEPT !.buffer = Append(@, msg)]
        callback == IF mode.drop THEN "resume" ELSE "process"
    IN  IF t.is_limiting
        THEN held
        ELSE [set_timer_after(held, delta_next(t), callback) EXCEPT !.is_limiting = TRUE]

\* Bug: forgets to leave the limiting state when no callback does it.
send_without_auto_reset(t, msg) ==
    IF t.is_limiting \/ delta_next(t) > 0 THEN limit_msg(t, msg) ELSE send_msg(t, <<msg>>)

\* Bug: the auto-reset is not gated on an empty buffer.
send_past_the_buffer(t, msg) ==
    IF delta_next(t) > 0
    THEN limit_msg(t, msg)
    ELSE send_msg([t EXCEPT !.is_limiting = FALSE], <<msg>>)

send(t, msg) ==
    LET delta == IF t.is_limiting /\ t.buffer # <<>> THEN 0 ELSE delta_next(t)
        reset == delta = 0 /\ t.buffer = <<>>
        u     == [t EXCEPT !.is_limiting = @ /\ ~reset]
    IN  IF mode.large /\ Len(t.timestamps) < limit /\ ~t.is_limiting
        THEN send_msg(t, <<msg>>)
        ELSE IF u.is_limiting \/ delta > 0 THEN limit_msg(u, msg) ELSE send_msg(u, <<msg>>)

Numbers(m, n) == [i \in 1 .. n |-> m + i]

\* A batch of n messages is sent if it fits in the window and refused if not.
try_reserve(t, n) ==
    LET msgs    == Numbers(t.received, n)
        delta   == delta_next(t)
        limited == t.is_limiting /\ ~(delta = 0 /\ t.buffer = <<>>)
        refused == [t EXCEPT !.dropped = @ \cup {msgs[i] : i \in 1 .. n},
                             !.is_limiting = TRUE]
    IN  IF limited
        THEN refused
        ELSE IF limit - count_in_window(t) >= n
        THEN send_msg([t EXCEPT !.is_limiting = FALSE], msgs)
        ELSE IF delta > 0 THEN set_timer_after(refused, delta, "resume") ELSE refused

Drained(t, n) ==
    [send_msg(t, SubSeq(t.buffer, 1, n)) EXCEPT
        !.buffer = SubSeq(@, n + 1, Len(@))]

\* Bug: the whole buffer goes out at once.
handle_without_check(t) ==
    [Drained(t, Len(t.buffer)) EXCEPT !.is_limiting = FALSE]

\* Bug: the timer for the rest of the buffer is forgotten.
handle_without_timer(t) ==
    IF t.buffer = <<>> THEN [t EXCEPT !.is_limiting = FALSE] ELSE Drained(t, 1)

\* ThrottlerProcess::handle sends from the buffer, the first message in any case, until
\* the buffer is empty or the limit reached.
handle(t) ==
    LET stops == {n \in 1 .. Len(t.buffer) :
                     n = Len(t.buffer) \/ delta_next(Drained(t, n)) > 0}
        u     == Drained(t, Min(stops))
    IN  IF stops = {} \/ u.buffer = <<>>
        THEN [(IF stops = {} THEN t ELSE u) EXCEPT !.is_limiting = FALSE]
        ELSE set_timer_after([u EXCEPT !.is_limiting = TRUE], delta_next(u), "process")

throttler_resume(t) == IF mode.registered THEN [t EXCEPT !.is_limiting = FALSE] ELSE t

reset(t) ==
    [t EXCEPT !.timer = NoTimer, !.buffer = <<>>, !.is_limiting = FALSE,
              !.timestamps = <<>>, !.window = NewThrottler.window]

-----------------------------------------------------------------------------
Init ==
    /\ mode \in Modes
    /\ throttler = NewThrottler
    /\ due = <<>>

Receive(n) == throttler.received + n <= MaxMessages

Send ==
    /\ Receive(1)
    /\ throttler' = [send(throttler, throttler.received + 1) EXCEPT !.received = @ + 1]
    /\ UNCHANGED <<mode, due>>

\* Only the RiskEngine reserves and resets, and its throttlers drop.
TryReserve(n) ==
    /\ mode.drop
    /\ Receive(n)
    /\ throttler' = [try_reserve(throttler, n) EXCEPT !.received = @ + n]
    /\ UNCHANGED <<mode, due>>

Reset ==
    /\ mode.drop
    /\ throttler' = reset(throttler)
    /\ UNCHANGED <<mode, due>>

Older(ages) == [i \in DOMAIN ages |-> Smaller(ages[i] + 1, interval)]

Nearer(timer) ==
    IF timer = NoTimer \/ timer.left = 0 THEN timer ELSE [timer EXCEPT !.left = @ - 1]

Tick ==
    /\ throttler' =
          [throttler EXCEPT
             !.timestamps = Older(@),
             !.window = Older(@),
             !.timer = Nearer(@)]
    /\ UNCHANGED <<mode, due>>

TimerDue ==
    /\ throttler.timer # NoTimer
    /\ throttler.timer.left <= mode.early
    /\ due' = Append(due, throttler.timer.callback)
    /\ throttler' = [throttler EXCEPT !.timer = NoTimer]
    /\ UNCHANGED mode

HandleTimer ==
    /\ due # <<>>
    /\ due' = Tail(due)
    /\ throttler' = IF Head(due) = "process" THEN handle(throttler)
                                             ELSE throttler_resume(throttler)
    /\ UNCHANGED mode

Next ==
    \/ Send
    \/ \E n \in Batches : TryReserve(n)
    \/ Reset
    \/ Tick
    \/ TimerDue
    \/ HandleTimer

\* Time passes, the clock fires its timers and the event loop handles its events.
Fairness == WF_vars(Tick) /\ WF_vars(TimerDue) /\ WF_vars(HandleTimer)

Spec == Init /\ [][Next]_vars /\ Fairness

-----------------------------------------------------------------------------
\* The rate limit: of any limit + 1 messages in a row, the first and the last are at
\* least an interval apart.  What is sent or reserved directly keeps to that exactly.
\* The drain handler sends its first message without looking at the time, so a buffered
\* message is early by as much as the clock's timer is.
RateIsLimited ==
    throttler.window[limit + 1] >= interval - (IF mode.drop THEN 0 ELSE mode.early)

\* A throttler that buffers neither loses, repeats nor reorders messages: what it has
\* sent and what it holds is what it has received, although sends, drains and timers
\* interleave.
DeliveredInOrder ==
    ~mode.drop =>
        throttler.sent \o throttler.buffer = Numbers(0, throttler.received)

InWindow == Cardinality({i \in 1 .. limit : throttler.window[i] < interval})

LimitIsNeeded ==
    LET refused == throttler'.dropped \ throttler.dropped
    IN  /\ refused # {} => InWindow + Cardinality(refused) > limit
        /\ (Len(throttler'.buffer) > Len(throttler.buffer) /\ throttler.buffer = <<>>)
              => InWindow >= limit

\* A message, or a batch, is refused only if the messages of the last interval leave no
\* room for it, and buffered only if they do not or older messages wait; so no throttler
\* keeps limiting after its window has passed, not even one whose resume callback finds
\* no actor, or comes late, or belongs to an earlier limit.
NoNeedlessLimit == [][LimitIsNeeded]_vars

\* Every buffered message is sent in the end.
BufferDrains ==
    \A m \in 1 .. MaxMessages :
        (\E i \in DOMAIN throttler.buffer : throttler.buffer[i] = m)
            ~> (\E i \in DOMAIN throttler.sent : throttler.sent[i] = m)
=============================================================================
