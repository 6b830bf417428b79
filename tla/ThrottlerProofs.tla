-------------------------- MODULE ThrottlerProofs --------------------------
(***************************************************************************)
(* The throttler keeps its rate limit, limits nothing without need, and    *)
(* loses, repeats or reorders no message that it buffers, for every limit, *)
(* interval, number of messages and kind of throttler.                     *)
(***************************************************************************)
EXTENDS Throttler, TLAPS, WellFoundedInduction, FiniteSetTheorems, SequenceTheorems

\* A step that names no prover is Zenon's.
USE Zenon

\* The timestamps are the latest `limit` ages of the window, as far as there are any.
Match(ts, w) ==
    \A i \in 1 .. limit : w[i] = IF i <= Len(ts) THEN ts[i] ELSE interval

Ordered(w) == \A i, j \in 1 .. limit + 1 : i <= j => w[i] <= w[j]

Logs(ts, w) ==
    /\ ts \in Seq(Age)
    /\ Len(ts) <= limit
    /\ w \in [1 .. limit + 1 -> Age]
    /\ Match(ts, w)
    /\ Ordered(w)

\* The least number of a nonempty set of natural numbers, with Min of FiniteSetsExt.
LEMMA MinIsLeast ==
    ASSUME NEW S \in SUBSET Nat, S # {}
    PROVE  Min(S) \in S /\ \A y \in S : Min(S) <= y
<1> DEFINE R == {ss \in Nat \X Nat : ss[1] < ss[2]}
<1>1. IsWellFoundedOn(R, Nat)
  BY NatLessThanWellFounded DEF OpToRel
<1>2. \A x, y \in Nat : y < x => <<y, x>> \in R
  OBVIOUS
<1> HIDE DEF R
<1>3. PICK x \in S : \A y \in S : ~ (<<y, x>> \in R)
  BY <1>1, WFMin
<1>4. \A y \in S : ~ (y < x)
  BY <1>2, <1>3
<1>5. \A y \in S : x <= y
  BY <1>4, SMT
<1> QED
  BY <1>5 DEF Min

\* What n new messages make of the window, and of the timestamps.
Shifted(w, n, v) == \A i \in 1 .. limit + 1 : v[i] = IF i <= n THEN 0 ELSE w[i - n]

LEMMA PushedLogs ==
    ASSUME NEW ts, NEW w, Logs(ts, w), NEW n \in Nat \ {0}
    PROVE  /\ Logs(Pushed(ts, n, limit), Pushed(w, n, limit + 1))
           /\ Shifted(w, n, Pushed(w, n, limit + 1))
<1> DEFINE k == Smaller(limit, Len(ts) + n)
           v == Pushed(w, n, limit + 1)
           us == Pushed(ts, n, limit)
<1> USE ThrottlerAssumption
<1>1. /\ ts \in Seq(Age) /\ Len(ts) \in Nat /\ Len(ts) <= limit
      /\ w \in [1 .. limit + 1 -> Age] /\ Match(ts, w) /\ Ordered(w)
  BY SMT DEF Logs
<1>2. w \in Seq(Age) /\ Len(w) = limit + 1
  BY <1>1, SMT
<1>3. Smaller(limit + 1, Len(w) + n) = limit + 1
  BY <1>2, SMT DEF Smaller
<1>4. v = [i \in 1 .. limit + 1 |-> IF i <= n THEN 0 ELSE w[i - n]]
  BY <1>3 DEF Pushed
<1>5. k \in Nat /\ k <= limit /\ k <= Len(ts) + n /\ (k = limit \/ k = Len(ts) + n)
  BY <1>1, SMT DEF Smaller
<1>6. us = [i \in 1 .. k |-> IF i <= n THEN 0 ELSE ts[i - n]]
  BY DEF Pushed
<1> HIDE DEF k, v, us
<1>7. \A i \in 1 .. limit + 1 : (IF i <= n THEN 0 ELSE w[i - n]) \in Age
  BY <1>1, SMT DEF Age
<1>8. v \in [1 .. limit + 1 -> Age]
  BY <1>4, <1>7
<1>9. \A i \in 1 .. k : (IF i <= n THEN 0 ELSE ts[i - n]) \in Age
  BY <1>1, <1>5, SMTT(60) DEF Age
<1>10. us \in Seq(Age) /\ Len(us) = k
  BY <1>5, <1>6, <1>9, SMT
<1>11. Ordered(v)
  <2> SUFFICES ASSUME NEW i \in 1 .. limit + 1, NEW j \in 1 .. limit + 1, i <= j
               PROVE  v[i] <= v[j]
    BY DEF Ordered
  <2>1. CASE i <= n
    BY <2>1, <1>4, <1>8, SMT DEF Age
  <2>2. CASE i > n
    <3>1. i - n \in 1 .. limit + 1 /\ j - n \in 1 .. limit + 1 /\ i - n <= j - n
      BY <2>2, SMT
    <3>2. v[i] = w[i - n] /\ v[j] = w[j - n]
      BY <2>2, <1>4, SMT
    <3> QED
      BY <3>1, <3>2, <1>1 DEF Ordered
  <2> QED
    BY <2>1, <2>2, SMT
<1>12. Match(us, v)
  <2> SUFFICES ASSUME NEW i \in 1 .. limit
               PROVE  v[i] = IF i <= Len(us) THEN us[i] ELSE interval
    BY DEF Match
  <2>1. CASE i <= n
    BY <2>1, <1>4, <1>5, <1>6, <1>10, <1>1, SMT
  <2>2. CASE i > n
    <3>1. v[i] = w[i - n] /\ i - n \in 1 .. limit
      BY <2>2, <1>4, SMT
    <3>2. w[i - n] = IF i - n <= Len(ts) THEN ts[i - n] ELSE interval
      BY <3>1, <1>1 DEF Match
    <3>3. i <= k <=> i - n <= Len(ts)
      BY <1>5, <1>1, SMT
    <3>4. i <= k => us[i] = ts[i - n]
      BY <2>2, <1>6, SMT
    <3> QED
      BY <3>1, <3>2, <3>3, <3>4, <1>10
  <2> QED
    BY <2>1, <2>2, SMT
<1> QED
  BY <1>4, <1>5, <1>8, <1>10, <1>11, <1>12 DEF Logs, Shifted, v, us

\* The time to wait is read off the window.
LEMMA DeltaNextFact ==
    ASSUME NEW t \in Throttlers, Logs(t.timestamps, t.window)
    PROVE  /\ t.window[limit] \in Age /\ delta_next(t) \in Age
           /\ delta_next(t) = interval - t.window[limit]
<1> USE ThrottlerAssumption
<1>1. /\ t.timestamps \in Seq(Age) /\ Len(t.timestamps) \in Nat
      /\ Len(t.timestamps) <= limit /\ t.window \in [1 .. limit + 1 -> Age]
      /\ Match(t.timestamps, t.window)
  BY SMT DEF Logs
<1>2. t.window[limit] = IF limit <= Len(t.timestamps) THEN t.timestamps[limit] ELSE interval
  BY <1>1, SMT DEF Match
<1>3. t.window[limit] \in Age
  BY <1>1, SMT
<1> QED
  BY <1>1, <1>2, <1>3, SMT DEF delta_next, Age

\* u is t after n messages were sent.
SentFrom(t, u, n) ==
    /\ u \in Throttlers
    /\ Logs(u.timestamps, u.window)
    /\ \A i \in 1 .. limit + 1 : u.window[i] = IF i <= n THEN 0 ELSE t.window[i - n]
    /\ u.buffer = t.buffer
    /\ u.is_limiting = t.is_limiting
    /\ u.timer = t.timer
    /\ u.received = t.received

LEMMA SendMsgFact ==
    ASSUME NEW t \in Throttlers, Logs(t.timestamps, t.window),
           NEW msgs \in Seq(1 .. MaxMessages), Len(msgs) # 0
    PROVE  SentFrom(t, send_msg(t, msgs), Len(msgs))
<1> DEFINE n == Len(msgs)
           ts == Pushed(t.timestamps, n, limit)
           w == Pushed(t.window, n, limit + 1)
           sent == t.sent \o msgs
           u == send_msg(t, msgs)
<1>1. n \in Nat \ {0}
  BY SMT
<1>2. /\ Logs(ts, w)
      /\ \A i \in 1 .. limit + 1 : w[i] = IF i <= n THEN 0 ELSE t.window[i - n]
  <2>1. Logs(ts, w) /\ Shifted(t.window, n, w)
    BY <1>1, PushedLogs
  <2> HIDE DEF w, ts
  <2> QED
    BY <2>1 DEF Shifted
<1>3. u = [t EXCEPT !.timestamps = ts, !.window = w, !.sent = sent]
  BY DEF send_msg
<1>4. ts \in Seq(Age) /\ w \in [1 .. limit + 1 -> Age]
  BY <1>2 DEF Logs
<1>5. sent \in Seq(1 .. MaxMessages)
  BY SMT DEF Throttlers
<1> HIDE DEF ts, w, sent, n, u
<1>6. /\ u \in Throttlers /\ u.timestamps = ts /\ u.window = w /\ u.buffer = t.buffer
      /\ u.is_limiting = t.is_limiting /\ u.timer = t.timer /\ u.received = t.received
  BY <1>3, <1>4, <1>5 DEF Throttlers
<1>7. Logs(u.timestamps, u.window)
  BY <1>2, <1>6
<1>8. \A i \in 1 .. limit + 1 : u.window[i] = IF i <= n THEN 0 ELSE t.window[i - n]
  BY <1>2, <1>6
<1>9. SentFrom(t, u, n)
  BY <1>6, <1>7, <1>8 DEF SentFrom
<1> QED
  BY <1>9 DEF u, n

\* u is t after a message was dropped or buffered.
LimitedFrom(t, u) ==
    /\ u \in Throttlers
    /\ u.timestamps = t.timestamps /\ u.window = t.window
    /\ u.received = t.received /\ u.is_limiting = TRUE
    /\ mode.drop => u.buffer = t.buffer
    /\ ~mode.drop => u.buffer # <<>>
    /\ t.is_limiting => u.timer = t.timer
    /\ ~t.is_limiting => u.timer = [callback |-> IF mode.drop THEN "resume" ELSE "process",
                                    left |-> delta_next(t)]

LEMMA LimitMsgFact ==
    ASSUME NEW t \in Throttlers, Logs(t.timestamps, t.window), NEW msg \in 1 .. MaxMessages
    PROVE  LimitedFrom(t, limit_msg(t, msg))
<1>1. delta_next(t) \in Age
  BY DeltaNextFact
<1>2. CASE mode.drop
  BY <1>1, <1>2 DEF limit_msg, set_timer_after, Throttlers, Callbacks, LimitedFrom
<1>3. CASE ~mode.drop
  <2> DEFINE b == Append(t.buffer, msg)
             held == [t EXCEPT !.buffer = b]
  <2>1. t.buffer \in Seq(1 .. MaxMessages)
    BY DEF Throttlers
  <2>2. b \in Seq(1 .. MaxMessages)
    BY <2>1, SMT
  <2>3. limit_msg(t, msg) =
          IF t.is_limiting THEN held
          ELSE [held EXCEPT !.timer = [callback |-> "process", left |-> delta_next(t)],
                            !.is_limiting = TRUE]
    BY <1>3 DEF limit_msg, set_timer_after, Throttlers
  <2> HIDE DEF b
  <2>4. LET u == limit_msg(t, msg)
        IN  /\ u \in Throttlers
            /\ u.timestamps = t.timestamps /\ u.window = t.window
            /\ u.received = t.received /\ u.is_limiting = TRUE /\ u.buffer = b
            /\ u.timer = IF t.is_limiting THEN t.timer
                         ELSE [callback |-> "process", left |-> delta_next(t)]
    <3>1. CASE t.is_limiting
      BY <3>1, <2>2, <2>3 DEF Throttlers
    <3>2. CASE ~t.is_limiting
      <4> DEFINE timer == [callback |-> "process", left |-> delta_next(t)]
      <4>1. timer \in [callback : Callbacks, left : Age]
        BY <1>1 DEF Callbacks
      <4>2. limit_msg(t, msg) = [held EXCEPT !.timer = timer, !.is_limiting = TRUE]
        BY <3>2, <2>3
      <4> HIDE DEF timer
      <4>3. limit_msg(t, msg) =
              [t EXCEPT !.buffer = b, !.timer = timer, !.is_limiting = TRUE]
        BY <4>2 DEF Throttlers
      <4>4. /\ limit_msg(t, msg) \in Throttlers
            /\ limit_msg(t, msg).timestamps = t.timestamps
            /\ limit_msg(t, msg).window = t.window
            /\ limit_msg(t, msg).received = t.received
            /\ limit_msg(t, msg).buffer = b /\ limit_msg(t, msg).timer = timer
        BY <4>1, <4>3, <2>2 DEF Throttlers
      <4>5. limit_msg(t, msg).is_limiting = TRUE
        BY <4>3 DEF Throttlers
      <4> QED
        BY <3>2, <4>4, <4>5 DEF timer
    <3> QED
      BY <3>1, <3>2
  <2>5. b # <<>>
    BY <2>1, SMT DEF b
  <2> QED
    BY <1>3, <2>4, <2>5 DEF LimitedFrom
<1> QED
  BY <1>2, <1>3

-----------------------------------------------------------------------------
\* What is known of the timer, m being the throttler's mode, t its state and d the
\* callbacks in the channel.  A throttler that buffers has at most one timer or callback
\* on its way, only while it holds messages; and when that comes, the window has, but
\* for the earliness of the clock, passed.
Alarm(m, t, d) ==
    IF m.drop
    THEN /\ d \in Seq({"resume"})
         /\ t.timer # NoTimer => t.timer.callback = "resume"
         /\ t.buffer = <<>>
    ELSE /\ t.is_limiting <=> t.buffer # <<>>
         /\ t.timer # NoTimer =>
               /\ d = <<>> /\ t.is_limiting
               /\ t.timer.callback = "process"
               /\ t.window[limit] + t.timer.left >= interval
         /\ d # <<>> =>
               /\ d = <<"process">> /\ t.timer = NoTimer /\ t.is_limiting
               /\ t.window[limit] >= interval - m.early

\* The inductive invariant.
IInv ==
    /\ TypeOK
    /\ Logs(throttler.timestamps, throttler.window)
    /\ Alarm(mode, throttler, due)
    /\ RateIsLimited

LEMMA InitHolds == Init => IInv
<1> SUFFICES ASSUME Init PROVE IInv
  OBVIOUS
<1> USE ThrottlerAssumption
<1>1. interval \in Age
  BY SMT DEF Age
<1>2. throttler \in Throttlers
  BY <1>1, SMT DEF Init, NewThrottler, Throttlers
<1>3. /\ throttler.timestamps = <<>> /\ throttler.buffer = <<>>
      /\ throttler.is_limiting = FALSE /\ throttler.timer = NoTimer
      /\ throttler.window = [i \in 1 .. limit + 1 |-> interval]
  BY DEF Init, NewThrottler
<1>4. Logs(throttler.timestamps, throttler.window)
  BY <1>1, <1>3, SMT DEF Logs, Match, Ordered
<1>5. mode \in Modes /\ due = <<>> /\ mode.early \in Nat
  BY DEF Init, ModeType
<1>6. TypeOK
  BY <1>2, <1>3, <1>5, SMT DEF TypeOK
<1>7. Alarm(mode, throttler, due)
  BY <1>3, <1>5, SMT DEF Alarm
<1>8. RateIsLimited
  BY <1>3, <1>5, SMT DEF RateIsLimited
<1> QED
  BY <1>4, <1>6, <1>7, <1>8 DEF IInv

\* What the steps use of the invariant.
LEMMA Facts ==
    ASSUME IInv
    PROVE  /\ mode \in Modes /\ mode.drop \in BOOLEAN /\ mode.early \in Nat
           /\ throttler \in Throttlers
           /\ Logs(throttler.timestamps, throttler.window)
           /\ due \in Seq(Callbacks)
           /\ Alarm(mode, throttler, due)
           /\ RateIsLimited
BY ThrottlerAssumption DEF IInv, TypeOK, ModeType

\* From the parts back to the invariant, for a step that leaves the mode alone.
LEMMA Rebuild ==
    ASSUME IInv, mode' = mode, throttler' \in Throttlers, due' \in Seq(Callbacks),
           Logs(throttler'.timestamps, throttler'.window),
           Alarm(mode, throttler', due'),
           throttler'.window[limit + 1] >= interval - (IF mode.drop THEN 0 ELSE mode.early)
    PROVE  IInv'
<1>1. TypeOK'
  BY DEF TypeOK, IInv, Logs
<1>2. RateIsLimited'
  BY DEF RateIsLimited
<1>3. Alarm(mode, throttler, due)'
  BY DEF Alarm
<1> QED
  BY <1>1, <1>2, <1>3 DEF IInv

LEMMA SendStep == IInv /\ Send => IInv'
<1> SUFFICES ASSUME IInv, Send PROVE IInv'
  OBVIOUS
<1> USE ThrottlerAssumption
<1> DEFINE t == throttler
           msg == t.received + 1
           delta == IF t.is_limiting /\ t.buffer # <<>> THEN 0 ELSE delta_next(t)
           reset_ == delta = 0 /\ t.buffer = <<>>
           u == [t EXCEPT !.is_limiting = @ /\ ~reset_]
           v == send(t, msg)
<1>1. /\ mode \in Modes /\ mode.drop \in BOOLEAN /\ mode.early \in Nat
      /\ t \in Throttlers /\ Logs(t.timestamps, t.window) /\ due \in Seq(Callbacks)
      /\ Alarm(mode, t, due) /\ RateIsLimited
  BY Facts
<1>2. /\ throttler' = [v EXCEPT !.received = @ + 1] /\ mode' = mode /\ due' = due
      /\ msg \in 1 .. MaxMessages
  BY <1>1, SMT DEF Send, Receive, Throttlers
<1>3. /\ u \in Throttlers /\ u.timestamps = t.timestamps /\ u.window = t.window
      /\ u.received = t.received /\ u.buffer = t.buffer /\ u.timer = t.timer
      /\ u.is_limiting = (t.is_limiting /\ ~reset_)
  BY <1>1 DEF Throttlers
<1>4. \/ v = send_msg(t, <<msg>>) /\ Len(t.timestamps) < limit /\ ~t.is_limiting
      \/ v = limit_msg(u, msg)
      \/ v = send_msg(u, <<msg>>) /\ ~u.is_limiting /\ delta <= 0
  BY <1>1, DeltaNextFact, SMT DEF send, Age
<1> HIDE DEF u
<1>5. t.window[limit] \in Age /\ delta_next(t) = interval - t.window[limit]
  BY <1>1, DeltaNextFact
<1>6. Logs(u.timestamps, u.window)
  BY <1>1, <1>3
<1>7. delta_next(u) = interval - t.window[limit]
  BY <1>3, <1>6, DeltaNextFact
<1>8. SUFFICES
        /\ v \in Throttlers /\ v.received = t.received
        /\ Logs(v.timestamps, v.window)
        /\ Alarm(mode, v, due)
        /\ v.window[limit + 1] >= interval - (IF mode.drop THEN 0 ELSE mode.early)
  <2> HIDE DEF v
  <2>0. v.received + 1 \in 0 .. MaxMessages
    BY <1>2, <1>8, SMT
  <2>1. /\ throttler' \in Throttlers
        /\ throttler'.timestamps = v.timestamps /\ throttler'.window = v.window
        /\ throttler'.buffer = v.buffer /\ throttler'.is_limiting = v.is_limiting
        /\ throttler'.timer = v.timer
    BY <2>0, <1>2, <1>8 DEF Throttlers
  <2>2. Logs(throttler'.timestamps, throttler'.window)
    BY <2>1, <1>8
  <2>3. Alarm(mode, throttler', due')
    BY <2>1, <1>8, <1>2 DEF Alarm
  <2> QED
    BY <1>1, <1>2, <1>8, <2>1, <2>2, <2>3, Rebuild
<1>9. ASSUME NEW x \in Throttlers, v = send_msg(x, <<msg>>),
             x.timestamps = t.timestamps, x.window = t.window, x.received = t.received,
             x.buffer = t.buffer, x.timer = t.timer, ~x.is_limiting,
             t.window[limit] = interval, t.is_limiting => t.buffer = <<>>
      PROVE  /\ v \in Throttlers /\ v.received = t.received
             /\ Logs(v.timestamps, v.window)
             /\ Alarm(mode, v, due)
             /\ v.window[limit + 1] >= interval - (IF mode.drop THEN 0 ELSE mode.early)
  <2>1. SentFrom(x, send_msg(x, <<msg>>), Len(<<msg>>))
    <3>1. Logs(x.timestamps, x.window)
      BY <1>9, <1>1
    <3>2. <<msg>> \in Seq(1 .. MaxMessages) /\ Len(<<msg>>) # 0
      BY <1>2, SMT
    <3> HIDE DEF msg
    <3> QED
      BY <3>1, <3>2, <1>9, SendMsgFact
  <2>2. SentFrom(x, v, 1)
    BY <2>1, <1>9
  <2> HIDE DEF v
  <2>3. v.window[limit + 1] = interval
    BY <2>2, <1>9, SMT DEF SentFrom
  <2>4. v.buffer = t.buffer /\ v.timer = t.timer /\ v.is_limiting = FALSE
    BY <2>2, <1>9 DEF SentFrom, Throttlers
  <2>5. Alarm(mode, v, due)
    BY <2>4, <1>1, <1>9 DEF Alarm
  <2> QED
    BY <2>2, <2>3, <2>5, <1>1, <1>9, SMT DEF SentFrom
<1>10. CASE v = send_msg(t, <<msg>>) /\ Len(t.timestamps) < limit /\ ~t.is_limiting
  <2>1. t.window[limit] = interval
    <3>1. Match(t.timestamps, t.window) /\ Len(t.timestamps) \in Nat
      BY <1>1, SMT DEF Logs
    <3> QED
      BY <3>1, <1>10, SMT DEF Match
  <2> QED
    BY <2>1, <1>10, <1>9, <1>1
<1>11. CASE v = send_msg(u, <<msg>>) /\ ~u.is_limiting /\ delta <= 0
  <2>1. ~(t.is_limiting /\ t.buffer # <<>>)
    BY <1>11, <1>3
  <2>2. t.window[limit] = interval
    BY <2>1, <1>11, <1>5, SMT DEF Age
  <2> QED
    BY <2>1, <2>2, <1>11, <1>9, <1>3
<1>12. CASE v = limit_msg(u, msg)
  <2>1. LimitedFrom(u, limit_msg(u, msg))
    <3> HIDE DEF msg
    <3> QED
      BY <1>2, <1>3, <1>6, LimitMsgFact
  <2>2. LimitedFrom(u, v)
    BY <2>1, <1>12
  <2> HIDE DEF v
  <2>3. ASSUME mode.drop PROVE Alarm(mode, v, due)
    <3>1. v.buffer = <<>>
      BY <2>2, <2>3, <1>1, <1>3 DEF Alarm, LimitedFrom
    <3>2. v.timer # NoTimer => v.timer.callback = "resume"
      <4>1. CASE u.is_limiting
        BY <4>1, <2>2, <2>3, <1>1, <1>3 DEF Alarm, LimitedFrom
      <4>2. CASE ~u.is_limiting
        BY <4>2, <2>2, <2>3, SMT DEF LimitedFrom
      <4> QED
        BY <4>1, <4>2
    <3> QED
      BY <3>1, <3>2, <2>3, <1>1 DEF Alarm
  <2>4. ASSUME ~mode.drop PROVE Alarm(mode, v, due)
    <3>1. v.buffer # <<>> /\ v.is_limiting = TRUE /\ v.window = t.window
      BY <2>2, <2>4, <1>3 DEF LimitedFrom
    <3>2. u.is_limiting = t.is_limiting
      BY <2>4, <1>1, <1>3 DEF Alarm, Throttlers
    <3>3. CASE t.is_limiting
      <4>1. v.timer = t.timer
        BY <3>2, <3>3, <2>2, <1>3 DEF LimitedFrom
      <4> QED
        BY <4>1, <3>1, <3>3, <2>4, <1>1 DEF Alarm
    <3>4. CASE ~t.is_limiting
      <4>1. due = <<>>
        BY <3>4, <2>4, <1>1 DEF Alarm
      <4>2. v.timer = [callback |-> "process", left |-> delta_next(u)]
        BY <3>2, <3>4, <2>2, <2>4 DEF LimitedFrom
      <4>3. v.timer.callback = "process" /\ v.timer.left = interval - t.window[limit]
        BY <4>2, <1>7, SMT
      <4>4. v.window[limit] + v.timer.left >= interval
        BY <4>3, <3>1, <1>5, SMT DEF Age
      <4> QED
        BY <4>1, <4>3, <4>4, <3>1, <2>4 DEF Alarm
    <3> QED
      BY <3>3, <3>4
  <2>5. Alarm(mode, v, due)
    BY <2>3, <2>4
  <2> QED
    BY <2>2, <2>5, <1>1, <1>3, <1>6 DEF RateIsLimited, LimitedFrom
<1> QED
  BY <1>4, <1>10, <1>11, <1>12

\* A batch that fits beside the messages of the last interval fits in the window.
LEMMA RoomInWindow ==
    ASSUME NEW t \in Throttlers, Logs(t.timestamps, t.window), NEW n \in Nat \ {0},
           limit - count_in_window(t) >= n
    PROVE  n <= limit /\ t.window[limit + 1 - n] = interval
<1> USE ThrottlerAssumption
<1> DEFINE S == {i \in DOMAIN t.timestamps : t.timestamps[i] < interval}
           k == limit + 1 - n
<1>1. /\ t.timestamps \in Seq(Age) /\ Len(t.timestamps) \in Nat
      /\ t.window \in [1 .. limit + 1 -> Age]
      /\ Match(t.timestamps, t.window) /\ Ordered(t.window)
  BY SMT DEF Logs
<1>2. IsFiniteSet(1 .. Len(t.timestamps)) /\ S \in SUBSET (1 .. Len(t.timestamps))
  <2>1. 1 \in Int /\ Len(t.timestamps) \in Int
    BY <1>1, SMT
  <2>2. IsFiniteSet(1 .. Len(t.timestamps))
    BY <2>1, FS_Interval
  <2> QED
    BY <2>2, <1>1, SMT
<1>3. IsFiniteSet(S) /\ Cardinality(S) \in Nat
  BY <1>2, FS_Subset, FS_CardinalityType
<1>4. Cardinality(S) = count_in_window(t)
  BY DEF count_in_window
<1> HIDE DEF S
<1>5. n <= limit /\ k \in 1 .. limit
  BY <1>3, <1>4, SMT
<1>6. SUFFICES ASSUME t.window[k] # interval PROVE FALSE
  BY <1>5
<1>7. t.window[k] \in Age /\ t.window[k] < interval
  BY <1>1, <1>5, <1>6, SMT DEF Age
<1>8. 1 .. k \in SUBSET S
  <2> SUFFICES ASSUME NEW i \in 1 .. k PROVE i \in S
    OBVIOUS
  <2>1. i \in 1 .. limit /\ i \in 1 .. limit + 1 /\ k \in 1 .. limit + 1 /\ i <= k
    BY <1>5, SMT
  <2>2. t.window[i] <= t.window[k]
    BY <2>1, <1>1 DEF Ordered
  <2>3. t.window[i] \in Age /\ t.window[i] < interval
    <3>1. t.window[i] \in Age
      BY <2>1, <1>1
    <3>2. \A a, b \in Age : a <= b /\ b < interval => a < interval
      BY SMT DEF Age
    <3> QED
      BY <2>2, <1>7, <3>1, <3>2
  <2>4. t.window[i] = IF i <= Len(t.timestamps) THEN t.timestamps[i] ELSE interval
    BY <2>1, <1>1 DEF Match
  <2>5. i \in 1 .. Len(t.timestamps) /\ t.timestamps[i] < interval
    BY <2>1, <2>3, <2>4, <1>1, SMT
  <2> QED
    BY <2>5, <1>1, SMT DEF S
<1> HIDE DEF k
<1>9. Cardinality(1 .. k) <= Cardinality(S) /\ Cardinality(1 .. k) = k
  <2>1. Cardinality(1 .. k) <= Cardinality(S)
    BY <1>3, <1>8, FS_Subset
  <2>2. 1 \in Int /\ k \in Int /\ ~(1 > k)
    BY <1>5, SMT
  <2>3. Cardinality(1 .. k) = IF 1 > k THEN 0 ELSE k - 1 + 1
    BY <2>2, FS_Interval
  <2> QED
    BY <2>1, <2>2, <2>3, SMT
<1> QED
  BY <1>3, <1>4, <1>5, <1>9, SMT DEF k

LEMMA TryReserveStep ==
    ASSUME IInv, NEW n \in Batches, TryReserve(n)
    PROVE  IInv'
<1> USE ThrottlerAssumption
<1> DEFINE t == throttler
           msgs == Numbers(t.received, n)
           reset_ == delta_next(t) = 0 /\ t.buffer = <<>>
           refused == [t EXCEPT !.dropped = @ \cup {msgs[i] : i \in 1 .. n},
                                !.is_limiting = TRUE]
           x == [t EXCEPT !.is_limiting = FALSE]
           v == try_reserve(t, n)
<1>1. /\ mode \in Modes /\ mode.drop \in BOOLEAN /\ mode.early \in Nat
      /\ t \in Throttlers /\ Logs(t.timestamps, t.window) /\ due \in Seq(Callbacks)
      /\ Alarm(mode, t, due) /\ RateIsLimited
  BY Facts
<1>2. /\ throttler' = [v EXCEPT !.received = @ + n] /\ mode' = mode /\ due' = due
      /\ mode.drop /\ t.received + n \in 0 .. MaxMessages /\ n \in Nat \ {0}
  BY <1>1, SMT DEF TryReserve, Receive, Throttlers
<1>3. msgs \in Seq(1 .. MaxMessages) /\ Len(msgs) = n
  <2>1. \A i \in 1 .. n : t.received + i \in 1 .. MaxMessages
    BY <1>1, <1>2, SMTT(60) DEF Throttlers
  <2>2. msgs = [i \in 1 .. n |-> t.received + i]
    BY DEF Numbers
  <2> HIDE DEF msgs
  <2> QED
    BY <2>1, <2>2, <1>2, SMT
<1>4. delta_next(t) \in Age
  BY <1>1, DeltaNextFact
<1>5. \/ v = refused
      \/ v = set_timer_after(refused, delta_next(t), "resume")
      \/ v = send_msg(x, msgs) /\ limit - count_in_window(t) >= n
  BY DEF try_reserve
<1>6. /\ refused \in Throttlers /\ refused.timestamps = t.timestamps
      /\ refused.window = t.window /\ refused.received = t.received
      /\ refused.buffer = t.buffer /\ refused.timer = t.timer
  <2>1. {msgs[i] : i \in 1 .. n} \subseteq 1 .. MaxMessages
    BY <1>3, SMT
  <2> DEFINE lost == t.dropped \cup {msgs[i] : i \in 1 .. n}
  <2>2. lost \in SUBSET (1 .. MaxMessages)
    BY <2>1, <1>1 DEF Throttlers
  <2> HIDE DEF lost
  <2>3. refused = [t EXCEPT !.dropped = lost, !.is_limiting = TRUE]
    BY DEF lost
  <2> QED
    BY <2>2, <2>3, <1>1 DEF Throttlers
<1>7. SUFFICES
        /\ v \in Throttlers /\ v.received = t.received
        /\ Logs(v.timestamps, v.window)
        /\ v.buffer = <<>>
        /\ v.timer # NoTimer => v.timer.callback = "resume"
        /\ v.window[limit + 1] >= interval
  <2> HIDE DEF v
  <2>1. /\ throttler' \in Throttlers
        /\ throttler'.timestamps = v.timestamps /\ throttler'.window = v.window
        /\ throttler'.buffer = v.buffer /\ throttler'.timer = v.timer
    BY <1>2, <1>7 DEF Throttlers
  <2>2. Logs(throttler'.timestamps, throttler'.window)
    BY <2>1, <1>7
  <2>3. Alarm(mode, throttler', due')
    BY <2>1, <1>1, <1>7, <1>2 DEF Alarm
  <2> QED
    BY <1>1, <1>2, <1>7, <2>1, <2>2, <2>3, Rebuild, SMT
<1>8. /\ t.buffer = <<>>
      /\ t.timer # NoTimer => t.timer.callback = "resume"
      /\ t.window[limit + 1] >= interval
  BY <1>1, <1>2, SMT DEF Alarm, RateIsLimited
<1>9. CASE v = refused
  BY <1>9, <1>6, <1>8, <1>1
<1>10. CASE v = set_timer_after(refused, delta_next(t), "resume")
  <2> DEFINE timer == [callback |-> "resume", left |-> delta_next(t)]
  <2>1. timer \in [callback : Callbacks, left : Age] /\ timer.callback = "resume"
    BY <1>4 DEF Callbacks
  <2>2. v = [refused EXCEPT !.timer = timer]
    BY <1>10 DEF set_timer_after
  <2> HIDE DEF timer, refused, v
  <2>3. /\ v \in Throttlers /\ v.timestamps = t.timestamps
        /\ v.window = t.window /\ v.received = t.received
        /\ v.buffer = t.buffer /\ v.timer = timer
    BY <2>1, <2>2, <1>6 DEF Throttlers
  <2> QED
    BY <2>1, <2>3, <1>1, <1>8
<1>11. CASE v = send_msg(x, msgs) /\ limit - count_in_window(t) >= n
  <2>1. /\ x \in Throttlers /\ x.timestamps = t.timestamps /\ x.window = t.window
        /\ x.received = t.received /\ x.buffer = t.buffer /\ x.timer = t.timer
    BY <1>1 DEF Throttlers
  <2> HIDE DEF x, msgs
  <2>2. SentFrom(x, v, n)
    <3>1. Logs(x.timestamps, x.window)
      BY <2>1, <1>1
    <3> QED
      BY <3>1, <2>1, <1>2, <1>3, <1>11, SendMsgFact
  <2>3. n <= limit /\ t.window[limit + 1 - n] = interval
    BY <1>1, <1>2, <1>11, RoomInWindow
  <2> HIDE DEF v
  <2>4. v.window[limit + 1] = interval
    BY <2>1, <2>2, <2>3, <1>2, SMT DEF SentFrom
  <2> QED
    BY <2>1, <2>2, <2>4, <1>8, SMT DEF SentFrom
<1> QED
  BY <1>5, <1>9, <1>10, <1>11

LEMMA ResetStep == IInv /\ Reset => IInv'
<1> SUFFICES ASSUME IInv, Reset PROVE IInv'
  OBVIOUS
<1> USE ThrottlerAssumption
<1> DEFINE t == throttler
           w == [i \in 1 .. limit + 1 |-> interval]
<1>1. /\ mode.drop /\ mode' = mode /\ due' = due
      /\ throttler' = [t EXCEPT !.timer = NoTimer, !.buffer = <<>>, !.is_limiting = FALSE,
                                !.timestamps = <<>>, !.window = w]
  BY DEF Reset, reset, NewThrottler
<1>2. w \in [1 .. limit + 1 -> Age] /\ w[limit + 1] = interval
  BY SMT DEF Age
<1>3. Logs(<<>>, w)
  BY <1>2, SMT DEF Logs, Match, Ordered
<1> HIDE DEF w
<1>4. /\ throttler' \in Throttlers /\ throttler'.timestamps = <<>> /\ throttler'.window = w
      /\ throttler'.buffer = <<>> /\ throttler'.timer = NoTimer
  <2>1. t \in Throttlers
    BY Facts
  <2> DEFINE e == <<>>
  <2>2. e \in Seq(Age) /\ e \in Seq(1 .. MaxMessages)
    BY SMT
  <2>3. throttler' = [t EXCEPT !.timer = NoTimer, !.buffer = e, !.is_limiting = FALSE,
                               !.timestamps = e, !.window = w]
    BY <1>1
  <2> HIDE DEF e
  <2>4. /\ throttler' \in Throttlers /\ throttler'.timestamps = e /\ throttler'.window = w
        /\ throttler'.buffer = e /\ throttler'.timer = NoTimer
    BY <2>1, <2>2, <2>3, <1>2 DEF Throttlers
  <2> QED
    BY <2>4 DEF e
<1>5. Alarm(mode, throttler', due')
  BY <1>1, <1>4, Facts DEF Alarm
<1>6. Logs(throttler'.timestamps, throttler'.window)
  BY <1>3, <1>4
<1> QED
  BY <1>1, <1>2, <1>4, <1>5, <1>6, Facts, Rebuild, SMT

LEMMA TickStep == IInv /\ Tick => IInv'
<1> SUFFICES ASSUME IInv, Tick PROVE IInv'
  OBVIOUS
<1> USE ThrottlerAssumption
<1> DEFINE t == throttler
           ts == Older(t.timestamps)
           w == Older(t.window)
           timer == Nearer(t.timer)
<1>1. /\ mode.drop \in BOOLEAN /\ mode.early \in Nat
      /\ t \in Throttlers /\ Logs(t.timestamps, t.window) /\ due \in Seq(Callbacks)
      /\ Alarm(mode, t, due) /\ RateIsLimited
  BY Facts
<1>2. /\ mode' = mode /\ due' = due
      /\ throttler' = [t EXCEPT !.timestamps = ts, !.window = w, !.timer = timer]
  BY DEF Tick
<1>3. /\ t.timestamps \in Seq(Age) /\ Len(t.timestamps) \in Nat
      /\ Len(t.timestamps) <= limit /\ t.window \in [1 .. limit + 1 -> Age]
      /\ Match(t.timestamps, t.window) /\ Ordered(t.window)
  BY <1>1, SMT DEF Logs
<1>4. \A a \in Age : /\ Smaller(a + 1, interval) \in Age
                     /\ a <= Smaller(a + 1, interval)
                     /\ a + 1 <= Smaller(a + 1, interval) \/ Smaller(a + 1, interval) = interval
  BY SMT DEF Smaller, Age
<1>5. ts \in Seq(Age) /\ Len(ts) = Len(t.timestamps)
      /\ \A i \in 1 .. Len(ts) : ts[i] = Smaller(t.timestamps[i] + 1, interval)
  BY <1>3, <1>4, SMT DEF Older
<1>6. w \in [1 .. limit + 1 -> Age]
      /\ \A i \in 1 .. limit + 1 : w[i] = Smaller(t.window[i] + 1, interval)
  BY <1>3, <1>4 DEF Older
<1> HIDE DEF ts, w
<1>7. Match(ts, w)
  BY <1>3, <1>5, <1>6, SMT DEF Match, Smaller
<1>8. Ordered(w)
  <2> SUFFICES ASSUME NEW i \in 1 .. limit + 1, NEW j \in 1 .. limit + 1, i <= j
               PROVE  w[i] <= w[j]
    BY DEF Ordered
  <2>1. t.window[i] <= t.window[j] /\ t.window[i] \in Age /\ t.window[j] \in Age
    BY <1>3 DEF Ordered
  <2> QED
    BY <2>1, <1>6, SMTT(30) DEF Smaller, Age
<1>9. Logs(ts, w)
  BY <1>3, <1>5, <1>6, <1>7, <1>8 DEF Logs
<1>10. t.timer \in [callback : Callbacks, left : Age] \cup {NoTimer}
  BY <1>1 DEF Throttlers
<1>11. timer \in [callback : Callbacks, left : Age] \cup {NoTimer}
  <2>1. CASE t.timer = NoTimer \/ t.timer.left = 0
    BY <2>1, <1>10 DEF Nearer
  <2>2. CASE ~(t.timer = NoTimer \/ t.timer.left = 0)
    <3>1. t.timer.left - 1 \in Age
      BY <2>2, <1>10, SMT DEF Age
    <3> QED
      BY <3>1, <2>2, <1>10 DEF Nearer
  <2> QED
    BY <2>1, <2>2
<1>12. timer # NoTimer =>
          /\ t.timer # NoTimer /\ timer.callback = t.timer.callback
          /\ timer.left = IF t.timer.left = 0 THEN 0 ELSE t.timer.left - 1
  BY <1>10 DEF Nearer
<1> HIDE DEF timer
<1>14. /\ throttler' \in Throttlers /\ throttler'.timestamps = ts /\ throttler'.window = w
       /\ throttler'.buffer = t.buffer /\ throttler'.timer = timer
       /\ throttler'.is_limiting = t.is_limiting
  BY <1>1, <1>2, <1>5, <1>6, <1>11 DEF Throttlers
<1>15. \A i \in 1 .. limit + 1 :
          /\ t.window[i] \in Age /\ w[i] \in Age /\ w[i] >= t.window[i]
          /\ w[i] >= t.window[i] + 1 \/ w[i] = interval
  BY <1>3, <1>4, <1>6 DEF Age
<1>16. Alarm(mode, throttler', due')
  <2>1. CASE mode.drop
    BY <2>1, <1>1, <1>2, <1>12, <1>14 DEF Alarm
  <2>2. CASE ~mode.drop
    <3>1. timer # NoTimer => w[limit] + timer.left >= interval
      <4> SUFFICES ASSUME timer # NoTimer PROVE w[limit] + timer.left >= interval
        OBVIOUS
      <4>1. t.window[limit] + t.timer.left >= interval
        BY <2>2, <1>1, <1>12 DEF Alarm
      <4>2. t.timer.left \in Age
        BY <1>10, <1>12
      <4>3. /\ t.window[limit] \in Age /\ w[limit] \in Age /\ w[limit] >= t.window[limit]
            /\ w[limit] >= t.window[limit] + 1 \/ w[limit] = interval
        BY <1>15, SMT
      <4> QED
        BY <4>1, <4>2, <4>3, <1>12, SMT DEF Age
    <3>2. due # <<>> => w[limit] >= interval - mode.early /\ timer = NoTimer
      <4> SUFFICES ASSUME due # <<>>
                   PROVE  w[limit] >= interval - mode.early /\ timer = NoTimer
        OBVIOUS
      <4>1. t.window[limit] >= interval - mode.early /\ t.timer = NoTimer
        BY <2>2, <1>1 DEF Alarm
      <4>2. t.window[limit] \in Age /\ w[limit] \in Age /\ w[limit] >= t.window[limit]
        BY <1>15, SMT
      <4> QED
        BY <4>1, <4>2, <1>1, <1>12, SMT DEF Age
    <3> QED
      BY <3>1, <3>2, <2>2, <1>1, <1>2, <1>12, <1>14 DEF Alarm
  <2> QED
    BY <2>1, <2>2
<1>17. w[limit + 1] >= interval - (IF mode.drop THEN 0 ELSE mode.early)
  <2>1. t.window[limit + 1] >= interval - (IF mode.drop THEN 0 ELSE mode.early)
    BY <1>1 DEF RateIsLimited
  <2>2. t.window[limit + 1] \in Age /\ w[limit + 1] \in Age /\ w[limit + 1] >= t.window[limit + 1]
    BY <1>15, SMT
  <2> QED
    BY <2>1, <2>2, <1>1, SMT DEF Age
<1>18. Logs(throttler'.timestamps, throttler'.window)
  BY <1>9, <1>14
<1> QED
  BY <1>1, <1>2, <1>14, <1>16, <1>17, <1>18, Rebuild

LEMMA TimerDueStep == IInv /\ TimerDue => IInv'
<1> SUFFICES ASSUME IInv, TimerDue PROVE IInv'
  OBVIOUS
<1> USE ThrottlerAssumption
<1> DEFINE t == throttler
<1>1. /\ mode.drop \in BOOLEAN /\ mode.early \in Nat
      /\ t \in Throttlers /\ Logs(t.timestamps, t.window) /\ due \in Seq(Callbacks)
      /\ Alarm(mode, t, due) /\ RateIsLimited
  BY Facts
<1>2. /\ mode' = mode /\ t.timer # NoTimer /\ t.timer.left <= mode.early
      /\ due' = Append(due, t.timer.callback) /\ throttler' = [t EXCEPT !.timer = NoTimer]
  BY DEF TimerDue
<1>3. /\ throttler' \in Throttlers /\ throttler'.timestamps = t.timestamps
      /\ throttler'.window = t.window /\ throttler'.buffer = t.buffer
      /\ throttler'.timer = NoTimer /\ throttler'.is_limiting = t.is_limiting
  BY <1>1, <1>2 DEF Throttlers
<1>4. t.timer.callback \in Callbacks /\ t.timer.left \in Age
  BY <1>1, <1>2 DEF Throttlers
<1>5. due' \in Seq(Callbacks)
  BY <1>1, <1>2, <1>4, SMT
<1>6. t.window[limit] \in Age
  BY <1>1, DeltaNextFact
<1>7. Alarm(mode, throttler', due')
  <2>1. CASE mode.drop
    BY <2>1, <1>1, <1>2, <1>3, SMT DEF Alarm
  <2>2. CASE ~mode.drop
    <3>1. /\ due = <<>> /\ t.is_limiting /\ t.timer.callback = "process"
          /\ t.window[limit] + t.timer.left >= interval
      BY <2>2, <1>1, <1>2 DEF Alarm
    <3>2. due' = <<"process">>
      BY <3>1, <1>2, SMT
    <3>3. t.window[limit] >= interval - mode.early
      BY <3>1, <1>1, <1>2, <1>4, <1>6, SMT DEF Age
    <3> QED
      BY <3>1, <3>2, <3>3, <2>2, <1>1, <1>3 DEF Alarm
  <2> QED
    BY <2>1, <2>2
<1>8. Logs(throttler'.timestamps, throttler'.window)
  BY <1>1, <1>3
<1> QED
  BY <1>1, <1>2, <1>3, <1>5, <1>7, <1>8, Rebuild DEF RateIsLimited

\* Draining n messages from the buffer.
LEMMA DrainedFact ==
    ASSUME NEW t \in Throttlers, Logs(t.timestamps, t.window),
           NEW n \in 1 .. Len(t.buffer)
    PROVE  /\ Drained(t, n) \in Throttlers
           /\ Logs(Drained(t, n).timestamps, Drained(t, n).window)
           /\ Drained(t, n).timer = t.timer
           /\ \A i \in 1 .. limit + 1 :
                 Drained(t, n).window[i] = IF i <= n THEN 0 ELSE t.window[i - n]
<1> DEFINE msgs == SubSeq(t.buffer, 1, n)
           rest == SubSeq(t.buffer, n + 1, Len(t.buffer))
           u == send_msg(t, msgs)
           v == Drained(t, n)
<1>1. t.buffer \in Seq(1 .. MaxMessages) /\ Len(t.buffer) \in Nat
  BY SMT DEF Throttlers
<1> DEFINE M == 1 .. MaxMessages
<1>a. \A i \in 1 .. Len(t.buffer) : t.buffer[i] \in M
  <2> HIDE DEF M
  <2>1. t.buffer \in Seq(M)
    BY <1>1 DEF M
  <2> QED
    BY <2>1, SMT
<1>2. msgs \in Seq(1 .. MaxMessages) /\ Len(msgs) = n
  <2>1. 1 \in Int /\ n \in Int /\ 1 <= n /\ \A i \in 1 .. n : t.buffer[i] \in 1 .. MaxMessages
    BY <1>1, <1>a, SMT
  <2>2. /\ SubSeq(t.buffer, 1, n) \in Seq(1 .. MaxMessages)
        /\ Len(SubSeq(t.buffer, 1, n)) = IF 1 <= n THEN n - 1 + 1 ELSE 0
    BY <2>1, SubSeqProperties, ZenonT(60)
  <2> QED
    BY <2>1, <2>2, SMT
<1>3. rest \in Seq(1 .. MaxMessages)
  <2>1. /\ n + 1 \in Int /\ Len(t.buffer) \in Int
        /\ \A i \in n + 1 .. Len(t.buffer) : t.buffer[i] \in 1 .. MaxMessages
    BY <1>1, <1>a, SMT
  <2> QED
    BY <2>1, SubSeqProperties, Zenon
<1> HIDE DEF msgs, rest
<1>4. SentFrom(t, u, n)
  BY <1>2, SendMsgFact, SMT
<1>5. v = [u EXCEPT !.buffer = rest]
  BY <1>4 DEF Drained, msgs, rest, SentFrom
<1> HIDE DEF u, v
<1>6. /\ v \in Throttlers /\ v.timestamps = u.timestamps /\ v.window = u.window
      /\ v.timer = u.timer
  BY <1>3, <1>4, <1>5 DEF SentFrom, Throttlers
<1>7. /\ v \in Throttlers /\ Logs(v.timestamps, v.window) /\ v.timer = t.timer
      /\ \A i \in 1 .. limit + 1 : v.window[i] = IF i <= n THEN 0 ELSE t.window[i - n]
  BY <1>4, <1>6 DEF SentFrom
<1> QED
  BY <1>7 DEF v

\* A drain that begins when the window has passed, or nearly, keeps the limit.
LEMMA DrainKeepsLimit ==
    ASSUME NEW t \in Throttlers, Logs(t.timestamps, t.window), NEW gap \in Int,
           gap <= interval, t.window[limit] >= gap, NEW n \in 1 .. Len(t.buffer),
           \A m \in 1 .. n - 1 : ~(delta_next(Drained(t, m)) > 0)
    PROVE  Drained(t, n).window[limit + 1] >= gap
<1> USE ThrottlerAssumption
<1>1. Len(t.buffer) \in Nat
  BY SMT DEF Throttlers
<1>2. \A i \in 1 .. limit + 1 :
         Drained(t, n).window[i] = IF i <= n THEN 0 ELSE t.window[i - n]
  BY DrainedFact
<1>3. CASE n = 1
  BY <1>2, <1>3, SMT
<1>4. CASE n # 1
  <2> DEFINE m == n - 1
             u == Drained(t, m)
  <2>1. m \in 1 .. Len(t.buffer) /\ m \in 1 .. n - 1
    BY <1>1, <1>4, SMT
  <2> HIDE DEF m
  <2>2. /\ u \in Throttlers /\ Logs(u.timestamps, u.window)
        /\ \A i \in 1 .. limit + 1 : u.window[i] = IF i <= m THEN 0 ELSE t.window[i - m]
    BY <2>1, DrainedFact
  <2>3. ~(delta_next(u) > 0)
    BY <2>1
  <2> HIDE DEF u
  <2>4. u.window[limit] \in Age /\ delta_next(u) = interval - u.window[limit]
    BY <2>2, DeltaNextFact
  <2>5. u.window[limit] = interval
    BY <2>3, <2>4, SMT DEF Age
  <2>6. u.window[limit] = IF limit <= m THEN 0 ELSE t.window[limit - m]
    BY <2>2, SMT
  <2>7. limit > m /\ t.window[limit - m] = interval
    BY <2>1, <2>5, <2>6, SMT
  <2>8. limit + 1 > n /\ limit + 1 - n = limit - m
    BY <2>7, SMT DEF m
  <2> QED
    BY <2>7, <2>8, <1>2, SMT
<1> QED
  BY <1>3, <1>4

LEMMA HandleTimerStep == IInv /\ HandleTimer => IInv'
<1> SUFFICES ASSUME IInv, HandleTimer PROVE IInv'
  OBVIOUS
<1> USE ThrottlerAssumption
<1> DEFINE t == throttler
<1>1. /\ mode.drop \in BOOLEAN /\ mode.early \in Nat
      /\ t \in Throttlers /\ Logs(t.timestamps, t.window) /\ due \in Seq(Callbacks)
      /\ Alarm(mode, t, due) /\ RateIsLimited
  BY Facts
<1>2. /\ due # <<>> /\ due' = Tail(due) /\ mode' = mode
      /\ throttler' = IF Head(due) = "process" THEN handle(t) ELSE throttler_resume(t)
  BY DEF HandleTimer
<1>3. due' \in Seq(Callbacks)
  BY <1>1, <1>2, SMT
<1>4. CASE mode.drop
  <2>1. due \in Seq({"resume"})
    BY <1>1, <1>4 DEF Alarm
  <2>2. Head(due) = "resume" /\ Tail(due) \in Seq({"resume"})
    BY <2>1, <1>2, SMT
  <2>3. throttler' = t \/ throttler' = [t EXCEPT !.is_limiting = FALSE]
    BY <2>2, <1>2 DEF throttler_resume
  <2>4. /\ throttler' \in Throttlers /\ throttler'.timestamps = t.timestamps
        /\ throttler'.window = t.window /\ throttler'.buffer = t.buffer
        /\ throttler'.timer = t.timer
    BY <2>3, <1>1 DEF Throttlers
  <2>5. Alarm(mode, throttler', due')
    BY <2>2, <2>4, <1>1, <1>2, <1>4 DEF Alarm
  <2>6. Logs(throttler'.timestamps, throttler'.window)
    BY <2>4, <1>1
  <2> QED
    BY <2>4, <2>5, <2>6, <1>1, <1>2, <1>3, Rebuild DEF RateIsLimited
<1>5. CASE ~mode.drop
  <2> DEFINE stops == {n \in 1 .. Len(t.buffer) :
                          n = Len(t.buffer) \/ delta_next(Drained(t, n)) > 0}
             n == Min(stops)
             u == Drained(t, n)
             gap == interval - mode.early
  <2>1. /\ due = <<"process">> /\ t.timer = NoTimer /\ t.is_limiting
        /\ t.window[limit] >= gap /\ t.buffer # <<>>
    BY <1>1, <1>2, <1>5 DEF Alarm
  <2>2. Len(t.buffer) \in Nat /\ Len(t.buffer) # 0
    BY <2>1, <1>1, SMT DEF Throttlers
  <2>3. stops \in SUBSET Nat /\ stops # {}
    <3>1. Len(t.buffer) \in stops
      BY <2>2, SMT
    <3> QED
      BY <3>1, SMT
  <2>4. n \in stops /\ \A m \in stops : n <= m
    <3> HIDE DEF stops
    <3> QED
      BY <2>3, MinIsLeast
  <2>5. n \in 1 .. Len(t.buffer)
    BY <2>4
  <2>6. \A m \in 1 .. n - 1 : ~(delta_next(Drained(t, m)) > 0)
    <3> SUFFICES ASSUME NEW m \in 1 .. n - 1, delta_next(Drained(t, m)) > 0 PROVE FALSE
      OBVIOUS
    <3> HIDE DEF n
    <3>1. m \in stops
      BY <2>2, <2>5, SMT
    <3> QED
      BY <3>1, <2>4, <2>5, SMT
  <2>7. throttler' = IF u.buffer = <<>> THEN [u EXCEPT !.is_limiting = FALSE]
                     ELSE set_timer_after([u EXCEPT !.is_limiting = TRUE],
                                          delta_next(u), "process")
    <3>1. throttler' = handle(t)
      <4>1. Head(due) = "process"
        BY <2>1, SMT
      <4> QED
        BY <4>1, <1>2
    <3>2. handle(t) =
            IF stops = {} \/ u.buffer = <<>>
            THEN [(IF stops = {} THEN t ELSE u) EXCEPT !.is_limiting = FALSE]
            ELSE set_timer_after([u EXCEPT !.is_limiting = TRUE], delta_next(u), "process")
      BY DEF handle
    <3> HIDE DEF stops, u
    <3> QED
      BY <3>1, <3>2, <2>3
  <2> HIDE DEF n, stops
  <2>8. u.window[limit + 1] >= gap
    BY <2>1, <2>5, <2>6, <1>1, DrainKeepsLimit, SMT
  <2>9. u \in Throttlers /\ Logs(u.timestamps, u.window) /\ u.timer = NoTimer
    BY <2>1, <2>5, <1>1, DrainedFact
  <2>10. due' = <<>>
    BY <2>1, <1>2, SMT
  <2> HIDE DEF u
  <2>11. u.window[limit] \in Age /\ delta_next(u) \in Age
         /\ delta_next(u) = interval - u.window[limit]
    BY <2>9, DeltaNextFact
  <2>12. CASE u.buffer = <<>>
    <3>1. /\ throttler' \in Throttlers /\ throttler'.timestamps = u.timestamps
          /\ throttler'.window = u.window /\ throttler'.buffer = u.buffer
          /\ throttler'.timer = u.timer /\ throttler'.is_limiting = FALSE
      BY <2>7, <2>9, <2>12 DEF Throttlers
    <3>2. Alarm(mode, throttler', due')
      BY <3>1, <2>9, <2>10, <2>12, <1>5 DEF Alarm
    <3>3. Logs(throttler'.timestamps, throttler'.window)
      BY <3>1, <2>9
    <3> QED
      BY <3>1, <3>2, <3>3, <2>8, <1>2, <1>3, <1>5, Rebuild
  <2>13. CASE u.buffer # <<>>
    <3> DEFINE timer == [callback |-> "process", left |-> delta_next(u)]
    <3>1. /\ timer \in [callback : Callbacks, left : Age]
          /\ timer.callback = "process" /\ timer.left = delta_next(u)
      BY <2>11 DEF Callbacks
    <3>2. throttler' = [[u EXCEPT !.is_limiting = TRUE] EXCEPT !.timer = timer]
      BY <2>7, <2>13 DEF set_timer_after
    <3> HIDE DEF timer
    <3>3. /\ throttler' \in Throttlers /\ throttler'.timestamps = u.timestamps
          /\ throttler'.window = u.window /\ throttler'.buffer = u.buffer
          /\ throttler'.timer = timer
      BY <3>1, <3>2, <2>9 DEF Throttlers
    <3>4. throttler'.is_limiting = TRUE
      BY <3>2, <2>9 DEF Throttlers
    <3>5. throttler'.window[limit] + throttler'.timer.left >= interval
      BY <3>1, <3>3, <2>11, SMT DEF Age
    <3>6. Alarm(mode, throttler', due')
      BY <3>1, <3>3, <3>4, <3>5, <2>10, <2>13, <1>5 DEF Alarm
    <3>7. Logs(throttler'.timestamps, throttler'.window)
      BY <3>3, <2>9
    <3> QED
      BY <3>3, <3>6, <3>7, <2>8, <1>2, <1>3, <1>5, Rebuild
  <2> QED
    BY <2>12, <2>13
<1> QED
  BY <1>4, <1>5

LEMMA Inductive == IInv /\ [Next]_vars => IInv'
<1> SUFFICES ASSUME IInv, [Next]_vars PROVE IInv'
  OBVIOUS
<1>1. CASE UNCHANGED vars
  BY <1>1 DEF vars, IInv, TypeOK, Alarm, RateIsLimited
<1>2. CASE \E n \in Batches : TryReserve(n)
  BY <1>2, TryReserveStep
<1> QED
  BY <1>1, <1>2, SendStep, ResetStep, TickStep, TimerDueStep, HandleTimerStep DEF Next

\* The fields of the throttler always have their types, and at most `limit` timestamps
\* are kept: send_msg and try_reserve never forget a pop_back.
THEOREM ThrottlerTypeCorrect == Spec => []TypeOK
<1>1. IInv => TypeOK
  BY DEF IInv
<1> QED
  BY <1>1, InitHolds, Inductive, PTL DEF Spec

\* The rate limit of Throttler::send, try_reserve and the drain handler holds for every
\* limit and interval, with timers that fire late, or early by a bounded time, and with
\* callbacks that wait in the event loop while commands and resets come in.
THEOREM RateAlwaysLimited == Spec => []RateIsLimited
<1>1. IInv => RateIsLimited
  BY DEF IInv
<1> QED
  BY <1>1, InitHolds, Inductive, PTL DEF Spec
-----------------------------------------------------------------------------
\* The number of one more message after the numbers of those before it.
LEMMA NextNumber ==
    ASSUME NEW n \in Nat
    PROVE  Append(Numbers(0, n), n + 1) = Numbers(0, n + 1)
<1> DEFINE S == 1 .. n + 1
           a == Numbers(0, n)
           c == Numbers(0, n + 1)
<1>1. a \in Seq(S) /\ Len(a) = n /\ \A i \in 1 .. n : a[i] = i
  BY SMT DEF Numbers
<1>2. c \in Seq(S) /\ Len(c) = n + 1 /\ \A i \in 1 .. n + 1 : c[i] = i
  BY SMT DEF Numbers
<1>3. n + 1 \in S
  BY SMT
<1> HIDE DEF S, a, c
<1>4. /\ Append(a, n + 1) \in Seq(S) /\ Len(Append(a, n + 1)) = n + 1
      /\ \A i \in 1 .. n : Append(a, n + 1)[i] = a[i]
      /\ Append(a, n + 1)[n + 1] = n + 1
  BY <1>1, <1>3, AppendProperties, SMT
<1>5. \A i \in 1 .. n + 1 : Append(a, n + 1)[i] = c[i]
  BY <1>1, <1>2, <1>4, SMT
<1>6. Append(a, n + 1) = c
  BY <1>2, <1>4, <1>5, SeqEqual
<1> QED
  BY <1>6 DEF a, c

\* The ways Throttler::send can go: the message is sent, or it is dropped or buffered
\* because messages wait already or the window is full.
LEMMA SendCases ==
    ASSUME NEW t \in Throttlers, NEW msg, Logs(t.timestamps, t.window)
    PROVE  LET v == send(t, msg)
           IN  /\ DOMAIN v = DOMAIN t /\ v.received = t.received
               /\ \/ /\ t.is_limiting => t.buffer = <<>>
                     /\ v.sent = t.sent \o <<msg>>
                     /\ v.buffer = t.buffer /\ v.dropped = t.dropped
                  \/ /\ (t.is_limiting /\ t.buffer # <<>>) \/ t.window[limit] < interval
                     /\ v.sent = t.sent
                     /\ v.buffer = IF mode.drop THEN t.buffer ELSE Append(t.buffer, msg)
                     /\ v.dropped = IF mode.drop THEN t.dropped \cup {msg} ELSE t.dropped
<1> USE ThrottlerAssumption
<1> DEFINE delta == IF t.is_limiting /\ t.buffer # <<>> THEN 0 ELSE delta_next(t)
           r == delta = 0 /\ t.buffer = <<>>
           u == [t EXCEPT !.is_limiting = @ /\ ~r]
           v == send(t, msg)
<1>1. ASSUME NEW x \in Throttlers
      PROVE  /\ DOMAIN send_msg(x, <<msg>>) = DOMAIN x
             /\ send_msg(x, <<msg>>).received = x.received
             /\ send_msg(x, <<msg>>).sent = x.sent \o <<msg>>
             /\ send_msg(x, <<msg>>).buffer = x.buffer
             /\ send_msg(x, <<msg>>).dropped = x.dropped
  BY DEF send_msg, Throttlers
<1>2. ASSUME NEW x \in Throttlers
      PROVE  /\ DOMAIN limit_msg(x, msg) = DOMAIN x
             /\ limit_msg(x, msg).received = x.received
             /\ limit_msg(x, msg).sent = x.sent
             /\ limit_msg(x, msg).buffer = IF mode.drop THEN x.buffer ELSE Append(x.buffer, msg)
             /\ limit_msg(x, msg).dropped = IF mode.drop THEN x.dropped \cup {msg} ELSE x.dropped
  <2>1. CASE mode.drop
    BY <2>1 DEF limit_msg, set_timer_after, Throttlers
  <2>2. CASE ~mode.drop
    BY <2>2 DEF limit_msg, set_timer_after, Throttlers
  <2> QED BY <2>1, <2>2
<1>3. /\ u \in Throttlers /\ u.sent = t.sent /\ u.buffer = t.buffer /\ u.dropped = t.dropped
      /\ u.received = t.received /\ DOMAIN u = DOMAIN t
      /\ u.is_limiting = (t.is_limiting /\ ~r)
  BY DEF Throttlers
<1>4. t.window[limit] \in Age /\ delta_next(t) = interval - t.window[limit]
  BY DeltaNextFact
<1>5. \/ v = send_msg(t, <<msg>>) /\ ~t.is_limiting
      \/ v = limit_msg(u, msg) /\ (u.is_limiting \/ delta > 0)
      \/ v = send_msg(u, <<msg>>) /\ ~u.is_limiting
  BY DEF send
<1>6. u.is_limiting \/ delta > 0 =>
         (t.is_limiting /\ t.buffer # <<>>) \/ t.window[limit] < interval
  <2> HIDE DEF u
  <2>1. u.is_limiting => (t.is_limiting /\ t.buffer # <<>>) \/ delta # 0
    BY <1>3
  <2>2. delta = 0 \/ delta = interval - t.window[limit]
    BY <1>4
  <2> HIDE DEF delta
  <2> QED BY <1>4, <2>1, <2>2, SMT DEF Age
<1>7. ~u.is_limiting => (t.is_limiting => t.buffer = <<>>)
  BY <1>3
<1> HIDE DEF u, v, delta
<1>8. CASE v = send_msg(t, <<msg>>) /\ ~t.is_limiting
  BY <1>1, <1>8 DEF v
<1>9. CASE v = limit_msg(u, msg) /\ (u.is_limiting \/ delta > 0)
  <2>1. /\ DOMAIN v = DOMAIN t /\ v.received = t.received /\ v.sent = t.sent
        /\ v.buffer = IF mode.drop THEN t.buffer ELSE Append(t.buffer, msg)
        /\ v.dropped = IF mode.drop THEN t.dropped \cup {msg} ELSE t.dropped
    BY <1>2, <1>3, <1>9
  <2> QED BY <1>6, <1>9, <2>1 DEF v
<1>10. CASE v = send_msg(u, <<msg>>) /\ ~u.is_limiting
  BY <1>1, <1>3, <1>7, <1>10 DEF v
<1> QED BY <1>5, <1>8, <1>9, <1>10

\* A message that is sent while nothing waits, or buffered, comes after all others.
LEMMA SendDelivers ==
    ASSUME IInv, DeliveredInOrder, Send
    PROVE  DeliveredInOrder'
<1> DEFINE t == throttler
           n == t.received
           msg == n + 1
           M == 1 .. MaxMessages
           v == send(t, msg)
<1>1. /\ t \in Throttlers /\ Logs(t.timestamps, t.window) /\ Alarm(mode, t, due)
      /\ n \in Nat /\ msg \in M
      /\ t.sent \in Seq(M) /\ t.buffer \in Seq(M)
      /\ DOMAIN t = {"timestamps", "buffer", "is_limiting", "timer", "received", "sent",
                     "dropped", "window"}
  BY Facts, ThrottlerAssumption, SMT DEF Send, Receive, Throttlers
<1>2. throttler' = [v EXCEPT !.received = @ + 1] /\ mode' = mode
  BY DEF Send
<1> SUFFICES ASSUME ~mode.drop
             PROVE  throttler'.sent \o throttler'.buffer = Numbers(0, throttler'.received)
  BY <1>2 DEF DeliveredInOrder
<1>3. t.sent \o t.buffer = Numbers(0, n)
  BY DEF DeliveredInOrder
<1> HIDE DEF msg
<1>4. /\ DOMAIN v = DOMAIN t /\ v.received = n
      /\ \/ /\ t.is_limiting => t.buffer = <<>>
            /\ v.sent = t.sent \o <<msg>> /\ v.buffer = t.buffer
         \/ v.sent = t.sent /\ v.buffer = Append(t.buffer, msg)
  BY <1>1, SendCases
<1> HIDE DEF v
<1>5. /\ throttler'.sent = v.sent /\ throttler'.buffer = v.buffer
      /\ throttler'.received = n + 1
  BY <1>1, <1>2, <1>4
<1>6. Append(t.sent \o t.buffer, msg) = Numbers(0, n + 1)
  BY <1>1, <1>3, NextNumber DEF msg
<1> HIDE DEF M
<1>7. v.sent \o v.buffer = Append(t.sent \o t.buffer, msg)
  <2>1. t.is_limiting <=> t.buffer # <<>>
    BY <1>1 DEF Alarm
  <2>2. <<msg>> \in Seq(M) /\ t.sent \o t.buffer \in Seq(M)
    BY <1>1, SMT
  <2>3. Append(t.sent \o t.buffer, msg) = (t.sent \o t.buffer) \o <<msg>>
    BY <1>1, <2>2, AppendIsConcat
  <2>4. CASE t.buffer = <<>> /\ v.sent = t.sent \o <<msg>> /\ v.buffer = t.buffer
    <3>1. t.sent \o <<>> = t.sent /\ (t.sent \o <<msg>>) \o <<>> = t.sent \o <<msg>>
      BY <1>1, <2>2, ConcatEmptySeq, ConcatProperties
    <3> QED BY <2>3, <2>4, <3>1
  <2>5. CASE v.sent = t.sent /\ v.buffer = Append(t.buffer, msg)
    <3>1. Append(t.buffer, msg) = t.buffer \o <<msg>>
      BY <1>1, AppendIsConcat
    <3>2. t.sent \o (t.buffer \o <<msg>>) = (t.sent \o t.buffer) \o <<msg>>
      BY <1>1, <2>2, ConcatAssociative, SMT
    <3> QED BY <2>3, <2>5, <3>1, <3>2
  <2> QED BY <1>4, <2>1, <2>4, <2>5
<1> QED
  BY <1>5, <1>6, <1>7

\* The drain moves messages from the front of the buffer to the end of what was sent.
LEMMA DrainDelivers ==
    ASSUME NEW t \in Throttlers, NEW n \in 1 .. Len(t.buffer)
    PROVE  /\ Drained(t, n).sent \o Drained(t, n).buffer = t.sent \o t.buffer
           /\ Drained(t, n).received = t.received
           /\ Drained(t, n).dropped = t.dropped
           /\ DOMAIN Drained(t, n) = DOMAIN t
<1> DEFINE M == 1 .. MaxMessages
           b == t.buffer
           front == SubSeq(b, 1, n)
           rest == SubSeq(b, n + 1, Len(b))
<1>1. t.sent \in Seq(M) /\ b \in Seq(M)
  BY DEF Throttlers
<1>2. /\ Drained(t, n).sent = t.sent \o front
      /\ Drained(t, n).buffer = rest
      /\ Drained(t, n).received = t.received
      /\ Drained(t, n).dropped = t.dropped
      /\ DOMAIN Drained(t, n) = DOMAIN t
  <2> HIDE DEF front
  <2>1. Drained(t, n) = [send_msg(t, front) EXCEPT !.buffer = SubSeq(@, n + 1, Len(@))]
    BY DEF Drained, front
  <2> QED BY <2>1 DEF send_msg, Throttlers
<1> HIDE DEF M, b
<1>3. Len(b) \in Nat /\ n \in 1 .. Len(b)
  BY <1>1, SMT DEF b
<1>4. \A i \in 1 .. Len(b) : b[i] \in M
  BY <1>1, SMT
<1>5. front \in Seq(M) /\ rest \in Seq(M)
  <2>1. 1 \in Int /\ n \in Int /\ \A i \in 1 .. n : b[i] \in M
    BY <1>3, <1>4, SMT
  <2>2. n + 1 \in Int /\ Len(b) \in Int /\ \A i \in n + 1 .. Len(b) : b[i] \in M
    BY <1>3, <1>4, SMT
  <2> QED BY <2>1, <2>2, SubSeqProperties, Zenon
<1>6. front \o rest = b
  <2>1. 1 \in 1 .. Len(b) + 1 /\ n \in 1 - 1 .. Len(b) /\ Len(b) \in n .. Len(b)
    BY <1>3, SMT
  <2>2. SubSeq(b, 1, n) \o SubSeq(b, n + 1, Len(b)) = SubSeq(b, 1, Len(b))
    BY <1>1, <2>1, ConcatAdjacentSubSeq
  <2> QED BY <1>1, <2>2, SubSeqFull
<1> HIDE DEF front, rest
<1>7. (t.sent \o front) \o rest = t.sent \o (front \o rest)
  <2> DEFINE sent == t.sent
  <2>1. sent \in Seq(M)
    BY <1>1
  <2> HIDE DEF sent
  <2>2. (sent \o front) \o rest = sent \o (front \o rest)
    BY <1>5, <2>1, ConcatAssociative, SMTT(60)
  <2> QED BY <2>2 DEF sent
<1> QED
  BY <1>2, <1>6, <1>7 DEF b

\* ThrottlerProcess::handle, with messages in the buffer, drains some of them.
LEMMA HandleCases ==
    ASSUME NEW t \in Throttlers, t.buffer # <<>>
    PROVE  \E n \in 1 .. Len(t.buffer) :
              \A f \in {"sent", "buffer", "received", "dropped"} :
                 handle(t)[f] = Drained(t, n)[f]
<1> DEFINE stops == {n \in 1 .. Len(t.buffer) :
                        n = Len(t.buffer) \/ delta_next(Drained(t, n)) > 0}
           u == Drained(t, Min(stops))
<1>1. Len(t.buffer) \in Nat /\ Len(t.buffer) # 0
  BY SMT DEF Throttlers
<1>2. Len(t.buffer) \in stops
  BY <1>1, SMT
<1>3. stops # {} /\ stops \in SUBSET Nat
  BY <1>2, SMT
<1>4. Min(stops) \in 1 .. Len(t.buffer)
  <2>1. Min(stops) \in stops
    <3> HIDE DEF stops
    <3> QED BY <1>3, MinIsLeast
  <2> QED BY <2>1
<1>5. handle(t) = IF stops = {} \/ u.buffer = <<>>
                  THEN [(IF stops = {} THEN t ELSE u) EXCEPT !.is_limiting = FALSE]
                  ELSE set_timer_after([u EXCEPT !.is_limiting = TRUE], delta_next(u), "process")
  BY DEF handle
<1>6. DOMAIN u = DOMAIN t
  BY <1>4, DrainDelivers
<1>7. \A f \in {"sent", "buffer", "received", "dropped"} : handle(t)[f] = u[f]
  <2> HIDE DEF stops, u
  <2>1. {"sent", "buffer", "received", "dropped"} \subseteq DOMAIN u
    BY <1>6 DEF Throttlers
  <2> QED BY <1>3, <1>5, <2>1 DEF set_timer_after
<1> HIDE DEF stops
<1> QED BY <1>4, <1>7

\* A timer that is handled, or its handler's absence, loses and reorders nothing.
LEMMA TimerDelivers ==
    ASSUME IInv, DeliveredInOrder, HandleTimer
    PROVE  DeliveredInOrder'
<1> DEFINE t == throttler
<1>1. t \in Throttlers /\ Alarm(mode, t, due) /\ mode' = mode
  BY Facts DEF HandleTimer
<1> SUFFICES ASSUME ~mode.drop
             PROVE  throttler'.sent \o throttler'.buffer = Numbers(0, throttler'.received)
  BY <1>1 DEF DeliveredInOrder
<1>2. due = <<"process">> /\ t.buffer # <<>>
  BY <1>1 DEF Alarm, HandleTimer
<1>3. throttler' = handle(t)
  BY <1>2, SMT DEF HandleTimer
<1>4. PICK n \in 1 .. Len(t.buffer) :
         \A f \in {"sent", "buffer", "received", "dropped"} : handle(t)[f] = Drained(t, n)[f]
  BY <1>1, <1>2, HandleCases
<1>5. /\ Drained(t, n).sent \o Drained(t, n).buffer = t.sent \o t.buffer
      /\ Drained(t, n).received = t.received
  BY <1>1, DrainDelivers
<1>6. t.sent \o t.buffer = Numbers(0, t.received)
  BY DEF DeliveredInOrder
<1> QED BY <1>3, <1>4, <1>5, <1>6

\* A throttler that buffers neither loses, repeats nor reorders a message, for every
\* limit, interval and number of messages, however its sends, its drains and its timers
\* interleave and however early or late the timers are.
THEOREM AlwaysDeliveredInOrder == Spec => []DeliveredInOrder
<1>1. Init => DeliveredInOrder
  <2> SUFFICES ASSUME Init PROVE throttler.sent \o throttler.buffer = Numbers(0, throttler.received)
    BY DEF DeliveredInOrder
  <2>1. /\ throttler.sent = <<>> /\ throttler.buffer = <<>> /\ throttler.received = 0
    BY DEF Init, NewThrottler
  <2>2. Numbers(0, 0) = <<>> /\ <<>> \o <<>> = <<>>
    BY SMT DEF Numbers
  <2> QED BY <2>1, <2>2
<1>2. IInv /\ DeliveredInOrder /\ [Next]_vars => DeliveredInOrder'
  <2> SUFFICES ASSUME IInv, DeliveredInOrder, [Next]_vars PROVE DeliveredInOrder'
    OBVIOUS
  <2>1. throttler \in Throttlers
    BY Facts
  <2>2. ASSUME mode' = mode, \A f \in {"sent", "buffer", "received"} : throttler'[f] = throttler[f]
        PROVE  DeliveredInOrder'
    BY <2>2 DEF DeliveredInOrder
  <2>3. CASE Tick
    BY <2>1, <2>2, <2>3 DEF Tick, Throttlers
  <2>4. CASE TimerDue
    BY <2>1, <2>2, <2>4 DEF TimerDue, Throttlers
  <2>5. CASE Reset \/ \E n \in Batches : TryReserve(n)
    BY <2>5 DEF Reset, TryReserve, DeliveredInOrder
  <2>6. CASE UNCHANGED vars
    BY <2>6 DEF vars, DeliveredInOrder
  <2> QED
    BY <2>3, <2>4, <2>5, <2>6, SendDelivers, TimerDelivers DEF Next
<1> QED
  BY <1>1, <1>2, InitHolds, Inductive, PTL DEF Spec

-----------------------------------------------------------------------------
\* The messages dropped were received before.
DroppedWereReceived == throttler.dropped \subseteq 1 .. throttler.received

\* The messages in the window, counted by the window or by the timestamps; a full window
\* leaves no room.
LEMMA WindowCount ==
    ASSUME IInv
    PROVE  /\ InWindow \in Nat
           /\ count_in_window(throttler) = InWindow
           /\ throttler.window[limit] < interval => InWindow = limit
<1> USE ThrottlerAssumption
<1> DEFINE t == throttler
           S == {i \in 1 .. limit : t.window[i] < interval}
<1>1. /\ t.timestamps \in Seq(Age) /\ Len(t.timestamps) \in Nat
      /\ Len(t.timestamps) <= limit /\ t.window \in [1 .. limit + 1 -> Age]
      /\ Match(t.timestamps, t.window) /\ Ordered(t.window)
  BY Facts, SMT DEF Logs
<1>2. IsFiniteSet(1 .. limit) /\ Cardinality(1 .. limit) = limit
  <2>1. 1 \in Int /\ limit \in Int /\ ~(1 > limit)
    BY SMT
  <2>2. /\ IsFiniteSet(1 .. limit)
        /\ Cardinality(1 .. limit) = IF 1 > limit THEN 0 ELSE limit - 1 + 1
    BY <2>1, FS_Interval
  <2> QED BY <2>1, <2>2, SMT
<1>3. Cardinality(S) \in Nat
  <2>1. S \in SUBSET (1 .. limit)
    OBVIOUS
  <2> HIDE DEF S
  <2> QED BY <1>2, <2>1, FS_Subset, FS_CardinalityType
<1>4. S = {i \in DOMAIN t.timestamps : t.timestamps[i] < interval}
  <2>1. \A i \in 1 .. limit : t.window[i] = IF i <= Len(t.timestamps) THEN t.timestamps[i] ELSE interval
    BY <1>1 DEF Match
  <2>2. DOMAIN t.timestamps = 1 .. Len(t.timestamps)
    BY <1>1, SMT
  <2> QED BY <1>1, <2>1, <2>2, SMT
<1>5. t.window[limit] < interval => S = 1 .. limit
  <2> SUFFICES ASSUME t.window[limit] < interval, NEW i \in 1 .. limit PROVE t.window[i] < interval
    OBVIOUS
  <2>1. i \in 1 .. limit + 1 /\ limit \in 1 .. limit + 1 /\ i <= limit
    BY SMT
  <2>2. t.window[i] <= t.window[limit] /\ t.window[i] \in Age /\ t.window[limit] \in Age
    BY <1>1, <2>1 DEF Ordered
  <2> QED BY <2>2, SMT DEF Age
<1> QED
  BY <1>2, <1>3, <1>4, <1>5 DEF InWindow, count_in_window

\* The cardinality of what one call drops.
LEMMA OneDropped ==
    ASSUME NEW R, NEW msg, R \subseteq {msg}, R # {}
    PROVE  Cardinality(R) = 1
<1>1. R = {msg}
  OBVIOUS
<1> QED BY <1>1, FS_Singleton

\* Throttler::send limits a message only when the window is full or messages wait.
LEMMA SendLimits ==
    ASSUME IInv, DroppedWereReceived, Send
    PROVE  LimitIsNeeded /\ DroppedWereReceived'
<1> USE ThrottlerAssumption
<1> DEFINE t == throttler
           msg == t.received + 1
           v == send(t, msg)
           refused == throttler'.dropped \ t.dropped
<1>1. /\ t \in Throttlers /\ Logs(t.timestamps, t.window) /\ Alarm(mode, t, due)
      /\ mode.drop \in BOOLEAN /\ t.received \in Nat /\ t.buffer \in Seq(1 .. MaxMessages)
      /\ DOMAIN t = {"timestamps", "buffer", "is_limiting", "timer", "received", "sent",
                     "dropped", "window"}
  BY Facts, SMT DEF Throttlers
<1>2. throttler' = [v EXCEPT !.received = @ + 1]
  BY DEF Send
<1>3. /\ DOMAIN v = DOMAIN t /\ v.received = t.received
      /\ \/ v.buffer = t.buffer /\ v.dropped = t.dropped
         \/ /\ (t.is_limiting /\ t.buffer # <<>>) \/ t.window[limit] < interval
            /\ v.buffer = IF mode.drop THEN t.buffer ELSE Append(t.buffer, msg)
            /\ v.dropped = IF mode.drop THEN t.dropped \cup {msg} ELSE t.dropped
  <2> HIDE DEF msg
  <2> QED BY <1>1, SendCases
<1> HIDE DEF v
<1>4. /\ throttler'.dropped = v.dropped /\ throttler'.buffer = v.buffer
      /\ throttler'.received = t.received + 1
  BY <1>1, <1>2, <1>3
<1>5. /\ InWindow \in Nat
      /\ t.window[limit] < interval => InWindow = limit
  BY WindowCount
<1>6. refused # {} => InWindow + Cardinality(refused) > limit
  <2> SUFFICES ASSUME refused # {} PROVE InWindow + Cardinality(refused) > limit
    OBVIOUS
  <2>1. mode.drop /\ refused \subseteq {msg}
    BY <1>3, <1>4
  <2>2. t.buffer = <<>>
    BY <1>1, <2>1 DEF Alarm
  <2>3. t.window[limit] < interval
    BY <1>3, <1>4, <2>2
  <2> HIDE DEF refused, msg
  <2>4. Cardinality(refused) = 1
    BY <2>1, OneDropped
  <2> QED BY <1>5, <2>3, <2>4, SMT
<1>7. Len(throttler'.buffer) > Len(t.buffer) /\ t.buffer = <<>> => InWindow >= limit
  <2> SUFFICES ASSUME Len(throttler'.buffer) > Len(t.buffer), t.buffer = <<>>
               PROVE  InWindow >= limit
    OBVIOUS
  <2>1. throttler'.buffer # t.buffer
    BY <1>1, SMT
  <2>2. t.window[limit] < interval
    BY <1>3, <1>4, <2>1
  <2> QED BY <1>5, <2>2, SMT
<1>8. DroppedWereReceived'
  BY <1>1, <1>3, <1>4, SMT DEF DroppedWereReceived
<1> QED BY <1>6, <1>7, <1>8 DEF LimitIsNeeded

\* try_reserve refuses a batch only when the window has no room for all of it.
LEMMA ReserveLimits ==
    ASSUME IInv, DroppedWereReceived, NEW n \in Batches, TryReserve(n)
    PROVE  LimitIsNeeded /\ DroppedWereReceived'
<1> USE ThrottlerAssumption
<1> DEFINE t == throttler
           batch == {Numbers(t.received, n)[i] : i \in 1 .. n}
           limited == t.is_limiting /\ ~(delta_next(t) = 0 /\ t.buffer = <<>>)
           v == try_reserve(t, n)
           refused == throttler'.dropped \ t.dropped
<1>1. /\ t \in Throttlers /\ Logs(t.timestamps, t.window) /\ Alarm(mode, t, due)
      /\ mode.drop /\ t.received \in Nat /\ t.buffer = <<>> /\ n \in Nat \ {0}
      /\ DOMAIN t = {"timestamps", "buffer", "is_limiting", "timer", "received", "sent",
                     "dropped", "window"}
  BY Facts, SMT DEF TryReserve, Throttlers, Alarm
<1>2. throttler' = [v EXCEPT !.received = @ + n]
  BY DEF TryReserve
<1>3. /\ DOMAIN v = DOMAIN t /\ v.received = t.received /\ v.buffer = t.buffer
      /\ \/ v.dropped = t.dropped
         \/ /\ v.dropped = t.dropped \cup batch
            /\ limited \/ ~(limit - count_in_window(t) >= n)
  <2> HIDE DEF batch, limited
  <2> DEFINE no == [t EXCEPT !.dropped = @ \cup batch, !.is_limiting = TRUE]
             yes == send_msg([t EXCEPT !.is_limiting = FALSE], Numbers(t.received, n))
  <2>1. /\ DOMAIN no = DOMAIN t /\ no.received = t.received /\ no.buffer = t.buffer
        /\ no.dropped = t.dropped \cup batch
    BY <1>1
  <2>2. /\ DOMAIN yes = DOMAIN t /\ yes.received = t.received /\ yes.buffer = t.buffer
        /\ yes.dropped = t.dropped
    BY <1>1 DEF send_msg
  <2>3. \/ v = yes
        \/ /\ v = no \/ v = set_timer_after(no, delta_next(t), "resume")
           /\ limited \/ ~(limit - count_in_window(t) >= n)
    BY DEF try_reserve, batch, limited
  <2> HIDE DEF no, yes, v
  <2>4. ASSUME v = set_timer_after(no, delta_next(t), "resume")
        PROVE  DOMAIN v = DOMAIN no /\ \A f \in {"received", "buffer", "dropped"} : v[f] = no[f]
    BY <1>1, <2>1, <2>4 DEF set_timer_after
  <2> QED BY <2>1, <2>2, <2>3, <2>4
<1> HIDE DEF v
<1>4. /\ throttler'.dropped = v.dropped /\ throttler'.buffer = t.buffer
      /\ throttler'.received = t.received + n
  BY <1>1, <1>2, <1>3
<1>5. /\ InWindow \in Nat
      /\ count_in_window(t) = InWindow
      /\ t.window[limit] < interval => InWindow = limit
  BY WindowCount
<1>6. batch = t.received + 1 .. t.received + n
  <2>1. \A i \in 1 .. n : Numbers(t.received, n)[i] = t.received + i
    BY DEF Numbers
  <2>2. ASSUME NEW m \in t.received + 1 .. t.received + n PROVE m \in batch
    <3>1. m - t.received \in 1 .. n /\ m = t.received + (m - t.received)
      BY <1>1, SMT
    <3> QED BY <2>1, <3>1
  <2>3. ASSUME NEW m \in batch PROVE m \in t.received + 1 .. t.received + n
    BY <1>1, <2>1, SMT
  <2> HIDE DEF batch
  <2> QED BY <2>2, <2>3
<1>7. Cardinality(batch) = n
  <2> DEFINE a == t.received + 1
             b == t.received + n
  <2>1. a \in Int /\ b \in Int /\ ~(a > b) /\ b - a + 1 = n
    BY <1>1, SMT
  <2>2. batch = a .. b
    BY <1>6
  <2> HIDE DEF a, b, batch
  <2>3. Cardinality(a .. b) = IF a > b THEN 0 ELSE b - a + 1
    BY <2>1, FS_Interval
  <2> QED BY <2>1, <2>2, <2>3
<1>8. batch \cap t.dropped = {}
  BY <1>1, <1>6, SMT DEF DroppedWereReceived
<1>9. refused # {} => InWindow + Cardinality(refused) > limit
  <2> SUFFICES ASSUME refused # {} PROVE InWindow + Cardinality(refused) > limit
    OBVIOUS
  <2> HIDE DEF batch
  <2>1. refused = batch /\ (limited \/ ~(limit - count_in_window(t) >= n))
    BY <1>3, <1>4, <1>8
  <2>2. t.window[limit] \in Age /\ delta_next(t) = interval - t.window[limit]
    BY <1>1, DeltaNextFact
  <2>3. limited => t.window[limit] < interval
    BY <1>1, <2>2, SMT DEF Age
  <2> HIDE DEF limited, refused
  <2>4. CASE limited
    BY <1>1, <1>5, <1>7, <2>1, <2>3, <2>4, SMT
  <2>5. CASE ~(limit - count_in_window(t) >= n)
    BY <1>1, <1>5, <1>7, <2>1, <2>5, SMT
  <2> QED BY <2>1, <2>4, <2>5
<1>10. DroppedWereReceived'
  BY <1>1, <1>3, <1>4, <1>6, SMT DEF DroppedWereReceived
<1>11. ~(Len(throttler'.buffer) > Len(t.buffer))
  BY <1>1, <1>4, SMT
<1> QED BY <1>9, <1>10, <1>11 DEF LimitIsNeeded

\* A step that drops nothing and does not fill an empty buffer limits nothing.
LEMMA NothingLimited ==
    ASSUME DroppedWereReceived, throttler'.dropped = throttler.dropped,
           throttler'.received = throttler.received,
           throttler.buffer = <<>> => throttler'.buffer = <<>>
    PROVE  LimitIsNeeded /\ DroppedWereReceived'
<1>1. throttler'.dropped \ throttler.dropped = {}
  OBVIOUS
<1>2. ~(Len(throttler'.buffer) > Len(throttler.buffer) /\ throttler.buffer = <<>>)
  BY SMT
<1> QED BY <1>1, <1>2 DEF LimitIsNeeded, DroppedWereReceived

\* What the other steps do.
LEMMA OthersLimitNothing ==
    ASSUME IInv, DroppedWereReceived, Reset \/ Tick \/ TimerDue \/ HandleTimer
    PROVE  LimitIsNeeded /\ DroppedWereReceived'
<1> DEFINE t == throttler
<1>1. t \in Throttlers /\ Alarm(mode, t, due)
  BY Facts
<1>2. SUFFICES /\ throttler'.dropped = t.dropped /\ throttler'.received = t.received
               /\ t.buffer = <<>> => throttler'.buffer = <<>>
  BY NothingLimited
<1>3. CASE Reset
  BY <1>1, <1>3 DEF Reset, reset, Throttlers
<1>4. CASE Tick
  BY <1>1, <1>4 DEF Tick, Throttlers
<1>5. CASE TimerDue
  BY <1>1, <1>5 DEF TimerDue, Throttlers
<1>6. CASE HandleTimer
  <2>1. CASE Head(due) # "process"
    BY <1>1, <1>6, <2>1 DEF HandleTimer, throttler_resume, Throttlers
  <2>2. CASE Head(due) = "process"
    <3>1. throttler' = handle(t) /\ due # <<>>
      BY <1>6, <2>2 DEF HandleTimer
    <3>2. ~mode.drop
      <4> SUFFICES ASSUME mode.drop PROVE FALSE
        OBVIOUS
      <4>1. due \in Seq({"resume"})
        BY <1>1 DEF Alarm
      <4> QED BY <2>2, <3>1, <4>1, SMT
    <3>3. t.buffer # <<>>
      BY <1>1, <3>1, <3>2 DEF Alarm
    <3>4. PICK n \in 1 .. Len(t.buffer) :
             \A f \in {"sent", "buffer", "received", "dropped"} : handle(t)[f] = Drained(t, n)[f]
      BY <1>1, <3>3, HandleCases
    <3>5. Drained(t, n).received = t.received /\ Drained(t, n).dropped = t.dropped
      BY <1>1, DrainDelivers
    <3> QED BY <3>1, <3>3, <3>4, <3>5
  <2> QED BY <2>1, <2>2
<1> QED BY <1>3, <1>4, <1>5, <1>6

\* Nothing is refused or buffered needlessly, for every limit and interval: after the
\* window has passed the next message goes out, also when the callback that should have
\* reset the limiting state was lost, is late, or belongs to an earlier limit, and a
\* batch is refused only if it does not fit beside the messages of the last interval.
THEOREM NeverLimitsNeedlessly == Spec => NoNeedlessLimit
<1>1. Init => DroppedWereReceived
  BY SMT DEF Init, NewThrottler, DroppedWereReceived
<1>2. IInv /\ DroppedWereReceived /\ [Next]_vars => DroppedWereReceived' /\ [LimitIsNeeded]_vars
  <2> SUFFICES ASSUME IInv, DroppedWereReceived, [Next]_vars
               PROVE  DroppedWereReceived' /\ [LimitIsNeeded]_vars
    OBVIOUS
  <2>1. CASE Send
    BY <2>1, SendLimits
  <2>2. CASE \E n \in Batches : TryReserve(n)
    BY <2>2, ReserveLimits
  <2>3. CASE Reset \/ Tick \/ TimerDue \/ HandleTimer
    BY <2>3, OthersLimitNothing
  <2>4. CASE UNCHANGED vars
    BY <2>4 DEF vars, DroppedWereReceived
  <2> QED BY <2>1, <2>2, <2>3, <2>4 DEF Next
<1> QED
  BY <1>1, <1>2, InitHolds, Inductive, PTL DEF Spec, NoNeedlessLimit
=============================================================================
