----------------------------- MODULE PushProofs -----------------------------
(***************************************************************************)
(* Proofs that the Live Activity channel times the hour boundary, spaces   *)
(* its fills and keeps the islands current, for any number of members,     *)
(* events and late timers, and any debounce, announcement and boundary.    *)
(***************************************************************************)
EXTENDS Push, FiniteSetTheorems, TLAPS

\* What is queued: the timer's turns, and reports.
FlushQueued == \E i \in DOMAIN queue : queue[i].kind = "flush"
Waiting == {i \in DOMAIN queue : queue[i].kind # "flush"}

\* The channel wakes up again, if need be after what it is sending.
Wakes == IF task.at = "sending" THEN task.wake # NoTime ELSE timer # NoTime

Covers(t, due) == due # NoTime => t # NoTime /\ t <= due

\* The idle channel's timer covers the hour boundary, or a flush is to set it anew.
Clocked ==
    ~ broken /\ task.at = "idle" /\ ~ FlushQueued => Covers(timer, ClockWake(policy, anchor))

SendsFill == \E s \in task.sends : s.why = "fill"

\* A fill that is being sent was decided when the window of the last one was over.
Windowed ==
    /\ filledAt # NoTime =>
           /\ policy.fillAt # NoTime /\ filledAt <= policy.fillAt
           /\ SendsFill => filledAt + Debounce <= task.began
    /\ SendsFill => policy.fillAt = task.began

\* No fill follows the terminal report, and none is held beside the end.
EndIsLast ==
    /\ room.told => room.status # "ongoing"
    /\ policy.end # NoFrame \/ (\E i \in DOMAIN queue : queue[i].kind = "terminal")
           => room.status # "ongoing"
    /\ \A i, j \in DOMAIN queue : i < j /\ queue[i].kind = "terminal" => queue[j].kind # "fill"
    /\ policy.end # NoFrame =>
           policy.fill = NoFrame /\ \A i \in DOMAIN queue : queue[i].kind # "fill"

Recipients(sends) == UNION {s.to : s \in sends}
HasLast(u) == island[u].frame = NoFrame \/ island[u].over \/ island[u].frame = policy.last

\* An island has the frame the policy remembers, or is being sent it.
Remembered ==
    ~ broken =>
        /\ \A u \in tokens \ missed : u \notin Recipients(task.sends) => HasLast(u)
        /\ \A s \in task.sends : s.event = "end" \/ s.frame = policy.last

\* The terminal report is to come, and brings whatever frames lack.
EndIsDue == room.status # "ongoing" /\ ~ room.told

ShowsRoom(frame) == frame # NoFrame /\ Shows(frame)
IsNow(facts) ==
    facts.filled = room.filled /\ facts.status = room.status /\ facts.here = room.here

\* Whatever only welcomes follow tells the room as it is: a report, and a held fill.
\* With no report left, the policy's frame shows it, or the held fill is on its way.
Known ==
    ~ broken /\ ~ EndIsDue =>
        /\ \A i \in Waiting :
               (\A j \in Waiting : i < j => queue[j].kind = "welcome") => IsNow(queue[i].facts)
        /\ (\A j \in Waiting : queue[j].kind = "welcome") /\ policy.fill # NoFrame
               => ShowsRoom(policy.fill)
        /\ Waiting = {} =>
               \/ policy.last = NoFrame \/ ShowsRoom(policy.last)
               \/ ShowsRoom(policy.fill) /\ (FlushQueued \/ Wakes)

\* Nothing is being sent in between.
IdleSendsNothing == task.at = "idle" => task = NoTask

IInv ==
    TypeOK /\ IdleSendsNothing /\ Clocked /\ Windowed /\ EndIsLast /\ Remembered /\ Known

-----------------------------------------------------------------------------
(* The policy.                                                             *)

LEMMA NotAFrame == NoTime \notin Nat /\ NoFrame \notin Frames /\ Debounce \in Nat /\ Announce \in Nat
                   /\ Boundary \in Nat
BY PushAssumption

LEMMA MinWakes ==
    ASSUME NEW a \in Times, NEW b \in Times
    PROVE  /\ MinWake(a, b) \in Times
           /\ Covers(MinWake(a, b), b)
           /\ a # NoTime => MinWake(a, b) # NoTime
BY NotAFrame DEF MinWake, Times, Covers

LEMMA ClockWakes ==
    ASSUME NEW p \in Policies, NEW first \in Times
    PROVE  /\ ClockWake(p, first) \in Times
           /\ ClockWake(p, first) # NoTime => p.last \in Frames
BY NotAFrame DEF ClockWake, Times, Policies, MaybeFrames

\* What every decision of the policy keeps of p: r is its result at time t.
Decides(p, t, r) ==
    /\ r.policy \in Policies /\ r.sends \subseteq Sends /\ r.wake \in Times
    /\ (r.policy.end = NoFrame) = (r.policy.endAt = NoTime)
    /\ \A s \in r.sends : s.event = "end" \/ s.frame = r.policy.last
    /\ IF \E s \in r.sends : s.why = "fill" THEN r.policy.fillAt = t /\ WindowOpen(p, t)
       ELSE r.policy.fillAt = p.fillAt

\* What the fold of a report does besides, with the frame it reports.
Folds(p, report, frame, r) ==
    /\ \/ r.policy.last = frame
       \/ report.kind = "fill" /\ r.policy.last = p.last /\ r.policy.fill = frame /\ r.wake # NoTime
    /\ \/ r.policy.fill = NoFrame
       \/ report.kind = "fill" /\ r.policy.fill = frame
       \/ report.kind = "welcome" /\ r.policy.fill = p.fill
    /\ r.policy.end # NoFrame => p.end # NoFrame \/ report.kind = "terminal"
    /\ \A u \in Users :
           \/ u \in Recipients(r.sends) \/ r.policy.last = p.last
           \/ report.kind = "welcome" /\ u # report.user /\ frame # p.last

Policy(p) == p \in Policies /\ (p.end = NoFrame) = (p.endAt = NoTime)

LEMMA SentPolicy ==
    ASSUME NEW p, Policy(p), NEW frame \in Frames, NEW t \in Nat
    PROVE  /\ Policy(Sent(p, frame, t)) /\ Sent(p, frame, t).last = frame
           /\ Sent(p, frame, t).fill = p.fill /\ Sent(p, frame, t).end = p.end
           /\ Sent(p, frame, t).fillAt = p.fillAt
BY DEF Policy, Policies, Sent, Times, MaybeFrames

LEMMA NoHold ==
    ASSUME NEW p, Policy(p)
    PROVE  LET q == [p EXCEPT !.fill = NoFrame]
           IN  /\ Policy(q) /\ q.last = p.last /\ q.fill = NoFrame /\ q.end = p.end
               /\ q.fillAt = p.fillAt
BY DEF Policy, Policies, MaybeFrames

\* Nothing to send, and the hold is dropped.
LEMMA QuietDecides ==
    ASSUME NEW p, Policy(p), NEW report, NEW frame, p.last = frame, NEW t \in Nat
    PROVE  Decides(p, t, Quiet(p)) /\ Folds(p, report, frame, Quiet(p))
<1> DEFINE q == [p EXCEPT !.fill = NoFrame]
<1>1. /\ Policy(q) /\ q.last = p.last /\ q.fill = NoFrame /\ q.end = p.end /\ q.fillAt = p.fillAt
  BY NoHold
<1> HIDE DEF q
<1>2. Quiet(p) = Result(q, {}, NoTime)
  BY DEF Quiet, q
<1>3. Quiet(p).policy = q /\ Quiet(p).sends = {} /\ Quiet(p).wake = NoTime
  BY <1>2 DEF Result
<1> QED BY <1>1, <1>3 DEF Decides, Folds, Policy, Times

\* One message for everyone, and the hold is dropped.
LEMMA ToAll ==
    ASSUME NEW p, Policy(p), NEW report, NEW frame \in Frames, NEW t \in Nat,
           NEW q, Policy(q), q.last = frame, q.fill = NoFrame,
           q.end # NoFrame => p.end # NoFrame \/ report.kind = "terminal",
           NEW m \in Sends, m.frame = frame, m.to = Users,
           IF m.why = "fill" THEN q.fillAt = t /\ WindowOpen(p, t) ELSE q.fillAt = p.fillAt,
           NEW r, r.policy = q, r.sends = {m}, r.wake \in Times
    PROVE  Decides(p, t, r) /\ Folds(p, report, frame, r)
<1>1. Decides(p, t, r)
  <2>1. \A s \in r.sends : s = m
    OBVIOUS
  <2>2. /\ r.policy \in Policies /\ r.sends \subseteq Sends /\ r.wake \in Times
        /\ (r.policy.end = NoFrame) = (r.policy.endAt = NoTime)
    BY DEF Policy
  <2>3. \A s \in r.sends : s.event = "end" \/ s.frame = r.policy.last
    BY <2>1
  <2>4. IF \E s \in r.sends : s.why = "fill" THEN r.policy.fillAt = t /\ WindowOpen(p, t)
        ELSE r.policy.fillAt = p.fillAt
    <3>1. (\E s \in r.sends : s.why = "fill") <=> m.why = "fill"
      OBVIOUS
    <3> QED BY <3>1
  <2> QED BY <2>2, <2>3, <2>4 DEF Decides
<1>2. Folds(p, report, frame, r)
  <2>1. Recipients(r.sends) = Users
    BY DEF Recipients
  <2> QED BY <2>1 DEF Folds
<1> QED BY <1>1, <1>2

LEMMA FoldDecides ==
    ASSUME NEW p, Policy(p), NEW report \in Reported, report.kind # "flush",
           NEW frame \in Frames, NEW t \in Nat
    PROVE  /\ Decides(p, t, Fold(p, report, frame, t))
           /\ Folds(p, report, frame, Fold(p, report, frame, t))
<1> DEFINE r == Fold(p, report, frame, t)
           s == Sent(p, frame, t)
           led == [s EXCEPT !.fill = NoFrame]
<1>1. /\ Policy(s) /\ s.last = frame /\ s.fill = p.fill /\ s.end = p.end /\ s.fillAt = p.fillAt
  BY SentPolicy
<1> HIDE DEF s
<1>2. /\ Policy(led) /\ led.last = frame /\ led.fill = NoFrame /\ led.end = p.end
      /\ led.fillAt = p.fillAt
  BY <1>1, NoHold
<1>3. NoTime \in Times /\ p \in Policies
  BY DEF Times, Policy
<1> HIDE DEF led
<1>4. CASE p.last = frame /\ report.kind \notin {"kick", "welcome"}
  <2>1. r = Quiet(p)
    BY <1>4 DEF Fold, OnPresence, OnFill, OnTerminal, Reported
  <2> QED BY <1>4, <2>1, QuietDecides
<1>5. CASE p.last # frame /\ report.kind = "presence"
  <2> DEFINE m == Send("update", "presence", frame, Users)
  <2>1. m \in Sends /\ m.frame = frame /\ m.to = Users /\ m.why = "presence"
    BY DEF Send, Sends
  <2>2. r = Result(led, {m}, NoTime)
    BY <1>5 DEF Fold, OnPresence, led, s
  <2> HIDE DEF m
  <2>3. r.policy = led /\ r.sends = {m} /\ r.wake \in Times
    BY <1>3, <2>2 DEF Result
  <2> HIDE DEF r
  <2>4. Decides(p, t, r) /\ Folds(p, report, frame, r)
    BY <1>2, <2>1, <2>3, ToAll
  <2> QED BY <2>4 DEF r
<1>6. CASE p.last # frame /\ report.kind = "fill" /\ WindowOpen(p, t)
  <2> DEFINE q == [s EXCEPT !.fillAt = t, !.fill = NoFrame]
  <2>1. Policy(q) /\ q.last = frame /\ q.fill = NoFrame /\ q.end = p.end /\ q.fillAt = t
    BY <1>1 DEF Policy, Policies, Times, MaybeFrames
  <2> DEFINE m == Send("update", "fill", frame, Users)
  <2>2. m \in Sends /\ m.frame = frame /\ m.to = Users /\ m.why = "fill"
    BY DEF Send, Sends
  <2>3. r = Result(q, {m}, NoTime)
    BY <1>6 DEF Fold, OnFill, s
  <2> HIDE DEF q, m
  <2>4. r.policy = q /\ r.sends = {m} /\ r.wake \in Times
    BY <1>3, <2>3 DEF Result
  <2> HIDE DEF r
  <2>5. Decides(p, t, r) /\ Folds(p, report, frame, r)
    BY <1>6, <2>1, <2>2, <2>4, ToAll
  <2> QED BY <2>5 DEF r
<1>7. CASE p.last # frame /\ report.kind = "fill" /\ ~ WindowOpen(p, t)
  <2> DEFINE q == Held(p, frame)
  <2>1. Policy(q) /\ q.last = p.last /\ q.fill = frame /\ q.end = p.end /\ q.fillAt = p.fillAt
    BY DEF Policy, Policies, MaybeFrames, Held
  <2>2. p.fillAt + Debounce \in Nat
    BY <1>3, <1>7, NotAFrame DEF WindowOpen, Policies, Times
  <2>3. r = Result(q, {}, p.fillAt + Debounce)
    BY <1>7 DEF Fold, OnFill
  <2> HIDE DEF q
  <2>4. r.policy = q /\ r.sends = {} /\ r.wake = p.fillAt + Debounce
    BY <2>3 DEF Result
  <2>5. r.wake \in Times /\ r.wake # NoTime
    BY <2>2, <2>4, NotAFrame DEF Times
  <2> HIDE DEF r
  <2>6. Decides(p, t, r)
    BY <2>1, <2>4, <2>5 DEF Decides, Policy
  <2>7. Folds(p, report, frame, r)
    BY <1>7, <2>1, <2>4, <2>5 DEF Folds
  <2> QED BY <2>6, <2>7 DEF r
<1>8. CASE p.last # frame /\ report.kind = "terminal" /\ frame.status = "completed"
  <2> DEFINE q == [s EXCEPT !.fill = NoFrame, !.end = frame, !.endAt = t + Announce]
  <2>1. t + Announce \in Nat /\ t + Announce # NoTime /\ frame # NoFrame
    BY NotAFrame
  <2>2. /\ Policy(q) /\ q.last = frame /\ q.fill = NoFrame /\ q.fillAt = p.fillAt
    BY <1>1, <2>1 DEF Policy, Policies, Times, MaybeFrames
  <2>3. t + Announce \in Times
    BY <2>1 DEF Times
  <2> DEFINE m == Send("update", "alert", frame, Users)
  <2>4. m \in Sends /\ m.frame = frame /\ m.to = Users /\ m.why = "alert"
    BY DEF Send, Sends
  <2>5. r = Result(q, {m}, t + Announce)
    BY <1>8 DEF Fold, OnTerminal, s
  <2> HIDE DEF q, m
  <2>6. r.policy = q /\ r.sends = {m} /\ r.wake \in Times
    BY <1>3, <2>3, <2>5 DEF Result
  <2> HIDE DEF r
  <2>7. Decides(p, t, r) /\ Folds(p, report, frame, r)
    BY <1>8, <2>2, <2>4, <2>6, ToAll
  <2> QED BY <2>7 DEF r
<1>9. CASE p.last # frame /\ report.kind = "terminal" /\ frame.status # "completed"
  <2> DEFINE q == Ended(s)
  <2>1. /\ Policy(q) /\ q.last = frame /\ q.fill = NoFrame /\ q.fillAt = p.fillAt /\ q.end = NoFrame
    BY <1>1 DEF Policy, Policies, Times, MaybeFrames, Ended
  <2> DEFINE m == Send("end", "end", frame, Users)
  <2>2. m \in Sends /\ m.frame = frame /\ m.to = Users /\ m.why = "end"
    BY DEF Send, Sends
  <2>3. r = Result(q, {m}, NoTime)
    BY <1>9 DEF Fold, OnTerminal, s
  <2> HIDE DEF q, m
  <2>4. r.policy = q /\ r.sends = {m} /\ r.wake \in Times
    BY <1>3, <2>3 DEF Result
  <2> HIDE DEF r
  <2>5. Decides(p, t, r) /\ Folds(p, report, frame, r)
    BY <1>9, <2>1, <2>2, <2>4, ToAll
  <2> QED BY <2>5 DEF r
<1>10. CASE report.kind = "kick" /\ p.last = frame
  <2> DEFINE q == [p EXCEPT !.fill = NoFrame]
             m == Send("end", "end", frame, {report.user})
  <2>1. /\ Policy(q) /\ q.last = p.last /\ q.fill = NoFrame /\ q.end = p.end /\ q.fillAt = p.fillAt
    BY NoHold
  <2>2. m \in Sends /\ m.event = "end" /\ m.why = "end"
    BY <1>10 DEF Send, Sends, Reported
  <2>3. r = Result(q, {m}, NoTime)
    BY <1>10 DEF Fold, OnKick
  <2> HIDE DEF q, m
  <2>4. r.policy = q /\ r.sends = {m} /\ r.wake = NoTime
    BY <2>3 DEF Result
  <2> HIDE DEF r
  <2>5. Decides(p, t, r)
    BY <1>3, <2>1, <2>2, <2>4 DEF Decides, Policy
  <2>6. Folds(p, report, frame, r)
    BY <1>10, <2>1, <2>4 DEF Folds
  <2> QED BY <2>5, <2>6 DEF r
<1>11. CASE report.kind = "kick" /\ p.last # frame
  <2> DEFINE m == Send("end", "end", frame, {report.user})
             n == Send("update", "presence", frame, Users \ {report.user})
  <2>1. /\ m \in Sends /\ m.event = "end" /\ m.why = "end" /\ m.to = {report.user}
        /\ n \in Sends /\ n.frame = frame /\ n.why = "presence" /\ n.to = Users \ {report.user}
    BY <1>11 DEF Send, Sends, Reported
  <2>2. r = Result(led, {m, n}, NoTime)
    BY <1>11 DEF Fold, OnKick, led, s
  <2> HIDE DEF m, n
  <2>3. r.policy = led /\ r.sends = {m, n} /\ r.wake = NoTime
    BY <2>2 DEF Result
  <2> HIDE DEF r
  <2>4. \A u \in Users : u \in Recipients(r.sends)
    BY <2>1, <2>3 DEF Recipients
  <2>5. Decides(p, t, r)
    <3>1. ~ (\E x \in r.sends : x.why = "fill")
      BY <2>1, <2>3
    <3>2. \A x \in r.sends : x.event = "end" \/ x.frame = r.policy.last
      BY <1>2, <2>1, <2>3
    <3>3. /\ r.policy \in Policies /\ r.sends \subseteq Sends /\ r.wake \in Times
          /\ (r.policy.end = NoFrame) = (r.policy.endAt = NoTime)
      BY <1>2, <1>3, <2>1, <2>3 DEF Policy
    <3> QED BY <1>2, <2>3, <3>1, <3>2, <3>3 DEF Decides
  <2>6. Folds(p, report, frame, r)
    BY <1>2, <2>3, <2>4 DEF Folds
  <2> QED BY <2>5, <2>6 DEF r
<1>12. CASE report.kind = "welcome"
  <2> DEFINE m == Send("update", "welcome", frame, {report.user})
  <2>1. m \in Sends /\ m.frame = frame /\ m.why = "welcome" /\ m.to = {report.user}
    BY <1>12 DEF Send, Sends, Reported
  <2>2. r = Result(s, {m}, NoTime)
    BY <1>12 DEF Fold, OnWelcome, s
  <2> HIDE DEF m
  <2>3. r.policy = s /\ r.sends = {m} /\ r.wake = NoTime
    BY <2>2 DEF Result
  <2> HIDE DEF r
  <2>4. Recipients(r.sends) = {report.user}
    BY <2>1, <2>3 DEF Recipients
  <2>5. Decides(p, t, r)
    BY <1>1, <1>3, <2>1, <2>3 DEF Decides, Policy
  <2>6. Folds(p, report, frame, r)
    BY <1>12, <1>1, <2>3, <2>4 DEF Folds
  <2> QED BY <2>5, <2>6 DEF r
<1> QED
  BY <1>4, <1>5, <1>6, <1>7, <1>8, <1>9, <1>10, <1>11, <1>12 DEF Reported

\* What working off the timer's turn does besides.
Flushes(p, r) ==
    /\ \/ r.policy.last = p.last
       \/ p.fill # NoFrame /\ r.policy.last = p.fill /\ Recipients(r.sends) = Users
    /\ p.fill # NoFrame => r.policy.last = p.fill \/ (r.policy.fill = p.fill /\ r.wake # NoTime)
    /\ r.policy.fill \in {p.fill, NoFrame}
    /\ r.policy.end # NoFrame => p.end # NoFrame

LEMMA FlushDecides ==
    ASSUME NEW p, Policy(p), p.end # NoFrame => p.fill = NoFrame, NEW t \in Nat
    PROVE  Decides(p, t, FlushPending(p, t)) /\ Flushes(p, FlushPending(p, t))
<1> DEFINE r == FlushPending(p, t)
<1>1. /\ NoTime \in Times /\ p \in Policies /\ p.endAt \in Times /\ p.fillAt \in Times
      /\ (p.end = NoFrame) = (p.endAt = NoTime)
  BY DEF Times, Policy, Policies
<1>2. ASSUME NEW wake \in Times, r = Result(p, {}, wake), p.fill # NoFrame => wake # NoTime
      PROVE  Decides(p, t, r) /\ Flushes(p, r)
  <2>1. r.policy = p /\ r.sends = {} /\ r.wake = wake
    BY <1>2 DEF Result
  <2> HIDE DEF r
  <2> QED BY <1>1, <1>2, <2>1 DEF Decides, Flushes
<1>3. CASE p.end # NoFrame /\ t < p.endAt
  <2>1. r = Result(p, {}, p.endAt)
    BY <1>3 DEF FlushPending
  <2> QED BY <1>1, <1>2, <1>3, <2>1
<1>4. CASE p.end # NoFrame /\ ~ (t < p.endAt)
  <2> DEFINE q == Ended(p)
             m == Send("end", "end", p.end, Users)
  <2>1. /\ q \in Policies /\ q.last = p.last /\ q.fill = NoFrame /\ q.end = NoFrame
        /\ q.endAt = NoTime /\ q.fillAt = p.fillAt
    BY <1>1 DEF Ended, Policies, MaybeFrames, Times
  <2>2. m \in Sends /\ m.event = "end" /\ m.why = "end"
    BY <1>1, <1>4 DEF Send, Sends, Policies, MaybeFrames
  <2>3. r = Result(q, {m}, NoTime)
    BY <1>4 DEF FlushPending
  <2> HIDE DEF q, m
  <2>4. r.policy = q /\ r.sends = {m} /\ r.wake = NoTime
    BY <2>3 DEF Result
  <2> HIDE DEF r
  <2>5. Decides(p, t, r)
    BY <1>1, <2>1, <2>2, <2>4 DEF Decides
  <2>6. Flushes(p, r)
    BY <1>4, <2>1, <2>4 DEF Flushes
  <2> QED BY <2>5, <2>6 DEF r
<1>5. CASE p.end = NoFrame /\ p.fill = NoFrame
  <2>1. r = Result(p, {}, NoTime)
    BY <1>5 DEF FlushPending
  <2> QED BY <1>1, <1>2, <1>5, <2>1
<1>6. CASE p.end = NoFrame /\ p.fill # NoFrame /\ ~ WindowOpen(p, t)
  <2>1. r = Result(p, {}, p.fillAt + Debounce)
    BY <1>6 DEF FlushPending
  <2>2. p.fillAt + Debounce \in Times /\ p.fillAt + Debounce # NoTime
    BY <1>1, <1>6, NotAFrame DEF WindowOpen, Times
  <2> QED BY <1>2, <2>1, <2>2
<1>7. CASE p.end = NoFrame /\ p.fill # NoFrame /\ p.last = p.fill
           /\ WindowOpen(p, t)
  <2> DEFINE q == [p EXCEPT !.fill = NoFrame]
  <2>1. q \in Policies /\ q.last = p.last /\ q.fill = NoFrame /\ q.end = p.end
        /\ q.endAt = p.endAt /\ q.fillAt = p.fillAt
    BY <1>1 DEF Policies, MaybeFrames
  <2>2. r = Result(q, {}, NoTime)
    BY <1>7 DEF FlushPending, Quiet
  <2> HIDE DEF q
  <2>3. r.policy = q /\ r.sends = {} /\ r.wake = NoTime
    BY <2>2 DEF Result
  <2> HIDE DEF r
  <2>4. Decides(p, t, r)
    BY <1>1, <2>1, <2>3 DEF Decides
  <2>5. Flushes(p, r)
    <3>1. r.policy.last = p.last /\ r.policy.last = p.fill /\ r.policy.fill = NoFrame /\ r.policy.end = p.end
      BY <1>7, <2>1, <2>3
    <3> QED BY <3>1 DEF Flushes
  <2> QED BY <2>4, <2>5 DEF r
<1>8. CASE p.end = NoFrame /\ p.fill # NoFrame /\ p.last # p.fill /\ WindowOpen(p, t)
  <2> DEFINE q == Flushed(p, t)
             m == Send("update", "fill", p.fill, Users)
  <2>1. p.fill \in Frames
    BY <1>1, <1>8 DEF Policies, MaybeFrames
  <2>2. /\ q \in Policies /\ q.last = p.fill /\ q.fill = NoFrame /\ q.end = p.end
        /\ q.endAt = p.endAt /\ q.fillAt = t
    BY <1>1, <2>1 DEF Flushed, Sent, Policies, MaybeFrames, Times
  <2>3. m \in Sends /\ m.frame = p.fill /\ m.why = "fill" /\ m.to = Users
    BY <2>1 DEF Send, Sends
  <2>4. r = Result(q, {m}, NoTime)
    BY <1>8 DEF FlushPending
  <2> HIDE DEF q, m
  <2>5. r.policy = q /\ r.sends = {m} /\ r.wake = NoTime
    BY <2>4 DEF Result
  <2> HIDE DEF r
  <2>6. Decides(p, t, r)
    BY <1>1, <1>8, <2>2, <2>3, <2>5 DEF Decides
  <2>7. Recipients(r.sends) = Users
    BY <2>3, <2>5 DEF Recipients
  <2>8. Flushes(p, r)
    <3>1. r.policy.last = p.fill /\ r.policy.fill = NoFrame /\ r.policy.end = p.end
      BY <2>2, <2>5
    <3> QED BY <1>8, <2>7, <3>1 DEF Flushes
  <2> QED BY <2>6, <2>8 DEF r
<1> QED BY <1>3, <1>4, <1>5, <1>6, <1>7, <1>8

\* The clock's turn changes nothing but when the last frame was sent.
ClockSends(p, first, c) ==
    /\ Policy(c.policy) /\ c.sends \subseteq Sends /\ c.wake \in Times
    /\ c.policy.last = p.last /\ c.policy.fill = p.fill /\ c.policy.end = p.end
    /\ c.policy.fillAt = p.fillAt
    /\ c.sends = {} => c.policy = p /\ c.wake = ClockWake(p, first)
    /\ \A s \in c.sends : s.frame = p.last /\ s.why = "clock"

LEMMA FlushClockSends ==
    ASSUME NEW p, Policy(p), NEW first \in Times, NEW t \in Nat
    PROVE  ClockSends(p, first, FlushClock(p, first, t))
<1> DEFINE c == FlushClock(p, first, t)
           due == ClockWake(p, first)
           q == [p EXCEPT !.lastAt = t]
           m == Send("update", "clock", p.last, Users)
<1>1. due \in Times /\ (due # NoTime => p.last \in Frames) /\ NoTime \in Times
  BY ClockWakes DEF Policy, Times
<1>2. /\ Policy(q) /\ q.last = p.last /\ q.fill = p.fill /\ q.end = p.end /\ q.fillAt = p.fillAt
  BY DEF Policy, Policies, Times
<1>3. due # NoTime => m \in Sends /\ m.frame = p.last /\ m.why = "clock"
  BY <1>1 DEF Send, Sends
<1>4. \/ c = Result(p, {}, due)
      \/ due # NoTime /\ c = Result(q, {m}, NoTime)
  BY DEF FlushClock
<1> HIDE DEF q, m, due
<1>5. \/ c.policy = p /\ c.sends = {} /\ c.wake = due
      \/ due # NoTime /\ c.policy = q /\ c.sends = {m} /\ c.wake = NoTime
  BY <1>4 DEF Result
<1> HIDE DEF c
<1>6. ClockSends(p, first, c)
  BY <1>1, <1>2, <1>3, <1>5 DEF ClockSends, due
<1> QED BY <1>6 DEF c

-----------------------------------------------------------------------------
(* The channel.                                                            *)

Tasks == [at : {"idle", "sending"}, sends : SUBSET Sends, wake : Times, clock : BOOLEAN,
          began : Nat]

\* What it takes to carry out a decision r: it is sent, or the clock gets its turn, or
\* the channel is idle again with the timer set.
Takes(r, first, t) ==
    /\ Policy(policy') /\ task' \in Tasks /\ timer' \in Times
    /\ policy'.last = r.policy.last /\ policy'.fill = r.policy.fill
    /\ policy'.end = r.policy.end /\ policy'.fillAt = r.policy.fillAt
    /\ \A s \in task'.sends : s.event = "end" \/ s.frame = policy'.last
    /\ SendsFill' <=> \E s \in r.sends : s.why = "fill"
    /\ SendsFill' => task'.began = t
    /\ Recipients(r.sends) \subseteq Recipients(task'.sends)
    /\ IdleSendsNothing'
    /\ task'.at = "idle" => Covers(timer', ClockWake(policy', first))
    /\ r.wake # NoTime => Wakes'

LEMMA IdleTask == NoTask \in Tasks /\ NoTask.at = "idle" /\ NoTask.sends = {}
BY DEF NoTask, Tasks, Times

LEMMA DecidedTakes ==
    ASSUME NEW r, Policy(r.policy), r.sends \subseteq Sends, r.wake \in Times,
           \A s \in r.sends : s.event = "end" \/ s.frame = r.policy.last,
           NEW clock \in BOOLEAN, NEW first \in Times, NEW t \in Nat, timer \in Times,
           Decided(r, clock, first, t)
    PROVE  Takes(r, first, t)
<1> DEFINE c == FlushClock(r.policy, first, t)
<1>0. r.policy \in Policies
  BY DEF Policy
<1>1. CASE r.sends # {}
  <2>1. /\ policy' = r.policy /\ timer' = timer
        /\ task' = [at |-> "sending", sends |-> r.sends, wake |-> r.wake, clock |-> clock,
                    began |-> t]
    BY <1>1 DEF Decided
  <2>2. /\ task' \in Tasks /\ task'.at = "sending" /\ task'.sends = r.sends
        /\ task'.wake = r.wake /\ task'.began = t
    BY <2>1 DEF Tasks
  <2> QED BY <2>1, <2>2 DEF Takes, SendsFill, IdleSendsNothing, Wakes
<1>2. ASSUME r.sends = {}, Policy(policy'), policy'.last = r.policy.last,
             policy'.fill = r.policy.fill, policy'.end = r.policy.end,
             policy'.fillAt = r.policy.fillAt, timer' \in Times, task' = NoTask,
             Covers(timer', ClockWake(policy', first)), r.wake # NoTime => timer' # NoTime
      PROVE  Takes(r, first, t)
  <2>1. Recipients(r.sends) = {}
    BY <1>2 DEF Recipients
  <2>2. task' \in Tasks /\ task'.at = "idle" /\ task'.sends = {}
    BY <1>2, IdleTask
  <2>3. ~ SendsFill' /\ ~ (\E s \in r.sends : s.why = "fill")
    BY <1>2, <2>2 DEF SendsFill
  <2>4. IdleSendsNothing' /\ (r.wake # NoTime => Wakes')
    BY <1>2, <2>2 DEF IdleSendsNothing, Wakes
  <2> QED BY <1>2, <2>1, <2>2, <2>3, <2>4 DEF Takes
<1>3. CASE r.sends = {} /\ ~ clock
  <2>1. /\ policy' = r.policy /\ task' = NoTask
        /\ timer' = MinWake(r.wake, ClockWake(r.policy, first))
    BY <1>3 DEF Decided, WakeAfterRun
  <2>2. ClockWake(r.policy, first) \in Times
    BY <1>0, ClockWakes
  <2>3. /\ timer' \in Times /\ Covers(timer', ClockWake(r.policy, first))
        /\ r.wake # NoTime => timer' # NoTime
    BY <2>1, <2>2, MinWakes
  <2>4. Covers(timer', ClockWake(policy', first))
    BY <2>1, <2>3
  <2> QED BY <1>2, <1>3, <2>1, <2>3, <2>4
<1>4. /\ Policy(c.policy) /\ c.sends \subseteq Sends /\ c.wake \in Times
      /\ c.policy.last = r.policy.last /\ c.policy.fill = r.policy.fill
      /\ c.policy.end = r.policy.end /\ c.policy.fillAt = r.policy.fillAt
      /\ c.sends = {} => c.policy = r.policy /\ c.wake = ClockWake(r.policy, first)
      /\ \A s \in c.sends : s.frame = r.policy.last /\ s.why = "clock"
  <2>1. ClockSends(r.policy, first, c)
    BY FlushClockSends
  <2> HIDE DEF c
  <2> QED BY <2>1 DEF ClockSends
<1>5. MinWake(r.wake, c.wake) \in Times /\ Covers(MinWake(r.wake, c.wake), c.wake)
      /\ (r.wake # NoTime => MinWake(r.wake, c.wake) # NoTime)
  BY <1>4, MinWakes
<1>6. CASE r.sends = {} /\ clock /\ c.sends = {}
  <2>1. policy' = c.policy /\ task' = NoTask /\ timer' = MinWake(r.wake, c.wake)
    BY <1>6 DEF Decided
  <2> HIDE DEF c
  <2>2. Covers(timer', ClockWake(policy', first))
    BY <1>4, <1>5, <1>6, <2>1
  <2> QED BY <1>2, <1>4, <1>5, <1>6, <2>1, <2>2
<1>7. CASE r.sends = {} /\ clock /\ c.sends # {}
  <2>1. /\ policy' = c.policy /\ timer' = timer
        /\ task' = [at |-> "sending", sends |-> c.sends, wake |-> MinWake(r.wake, c.wake),
                    clock |-> FALSE, began |-> t]
    BY <1>7 DEF Decided
  <2> HIDE DEF c
  <2>2. /\ task' \in Tasks /\ task'.at = "sending" /\ task'.sends = c.sends
        /\ task'.wake = MinWake(r.wake, c.wake)
    BY <1>4, <1>5, <2>1 DEF Tasks
  <2>3. ~ SendsFill' /\ ~ (\E s \in r.sends : s.why = "fill")
    BY <1>4, <1>7, <2>2 DEF SendsFill
  <2>4. Recipients(r.sends) \subseteq Recipients(task'.sends)
    BY <1>7 DEF Recipients
  <2>5. IdleSendsNothing' /\ (r.wake # NoTime => Wakes')
    BY <1>5, <2>2 DEF IdleSendsNothing, Wakes
  <2>6. \A s \in task'.sends : s.event = "end" \/ s.frame = policy'.last
    BY <1>4, <2>1, <2>2
  <2> QED BY <1>4, <2>1, <2>2, <2>3, <2>4, <2>5, <2>6 DEF Takes
<1> QED BY <1>1, <1>3, <1>6, <1>7

-----------------------------------------------------------------------------
(* The invariant.                                                          *)

LEMMA TailAt ==
    ASSUME NEW q \in Seq(Reported), q # <<>>
    PROVE  /\ Head(q) = q[1] /\ q[1] \in Reported /\ 1 \in DOMAIN q
           /\ Tail(q) \in Seq(Reported)
           /\ \A i : i \in DOMAIN Tail(q) <=> i \in Nat \ {0} /\ i + 1 \in DOMAIN q
           /\ \A i \in DOMAIN Tail(q) : Tail(q)[i] = q[i + 1]
<1>1. Len(q) \in Nat \ {0} /\ DOMAIN q = 1..Len(q)
  OBVIOUS
<1>2. Tail(q) \in Seq(Reported) /\ Len(Tail(q)) = Len(q) - 1
  OBVIOUS
<1>3. DOMAIN Tail(q) = 1..(Len(q) - 1)
  BY <1>2
<1>4. \A i \in 1..(Len(q) - 1) : Tail(q)[i] = q[i + 1]
  BY <1>1
<1>5. Head(q) = q[1] /\ q[1] \in Reported
  BY <1>1
<1> QED BY <1>1, <1>2, <1>3, <1>4, <1>5

LEMMA AppendAt ==
    ASSUME NEW q \in Seq(Reported), NEW e \in Reported
    PROVE  /\ Append(q, e) \in Seq(Reported) /\ Len(q) \in Nat /\ DOMAIN q = 1..Len(q)
           /\ DOMAIN Append(q, e) = DOMAIN q \cup {Len(q) + 1}
           /\ \A i \in DOMAIN q : Append(q, e)[i] = q[i] /\ i < Len(q) + 1 /\ i \in Nat
           /\ Append(q, e)[Len(q) + 1] = e
OBVIOUS

LEMMA FrameTyped ==
    ASSUME NEW members \in SUBSET Users, NEW report \in Reported
    PROVE  /\ report.facts.first \in Times /\ FrameOf(members, report.facts) \in Frames
BY DEF FrameOf, Frames, Reported

LEMMA Starts == Init => IInv
<1> SUFFICES ASSUME Init PROVE IInv
  OBVIOUS
<1>1. DOMAIN queue = {} /\ queue \in Seq(Reported)
  BY DEF Init
<1>2. TypeOK
  <2>1. task \in Tasks /\ policy \in Policies /\ policy.end = NoFrame /\ policy.endAt = NoTime
    BY IdleTask DEF Init, NoPolicy, Policies, Times, MaybeFrames
  <2>2. room \in [members : SUBSET Users, here : SUBSET Users, filled : 0..Cells,
                  status : Statuses, first : Times, told : BOOLEAN]
        /\ room.here \subseteq room.members
    BY PushAssumption DEF Init, Statuses, Times
  <2>3. island \in [Users -> [frame : MaybeFrames, over : BOOLEAN]]
    BY DEF Init, NoIsland, MaybeFrames
  <2>4. now \in 0..MaxTime /\ happened \in 0..MaxEvents /\ faults \in 0..MaxFaults
    BY PushAssumption DEF Init
  <2> QED BY <1>1, <2>1, <2>2, <2>3, <2>4 DEF Init, TypeOK, Tasks, Times
<1>3. IdleSendsNothing /\ Windowed /\ Remembered
  <2>1. task.sends = {} /\ task = NoTask
    BY IdleTask DEF Init
  <2>2. \A u \in tokens : FALSE
    BY DEF Init
  <2> QED BY <2>1, <2>2 DEF Init, IdleSendsNothing, Windowed, SendsFill, Remembered
<1>4. Clocked
  BY DEF Init, Clocked, ClockWake, NoPolicy, Covers
<1>5. EndIsLast
  BY <1>1 DEF Init, EndIsLast, NoPolicy
<1>6. Known
  <2>1. policy.last = NoFrame /\ policy.fill = NoFrame
    BY DEF Init, NoPolicy
  <2> QED BY <1>1, <2>1 DEF Known, Waiting
<1> QED BY <1>2, <1>3, <1>4, <1>5, <1>6 DEF IInv

\* A decision spaces the fills: what is sent as one was decided in an open window.
LEMMA DecidesSpaced ==
    ASSUME Windowed, TypeOK, NEW r, NEW first, Decides(policy, now, r), Takes(r, first, now),
           filledAt' = filledAt
    PROVE  Windowed'
<1>1. now \in Nat /\ filledAt \in Times /\ policy.fillAt \in Times
  BY PushAssumption DEF TypeOK, Policies
<1>2. policy'.fillAt = r.policy.fillAt /\ (SendsFill' => task'.began = now)
  BY DEF Takes
<1>3. CASE SendsFill'
  <2>1. policy'.fillAt = now /\ WindowOpen(policy, now)
    BY <1>2, <1>3 DEF Takes, Decides
  <2>2. filledAt # NoTime => filledAt + Debounce <= now /\ filledAt <= now
    BY <1>1, <2>1, NotAFrame DEF Windowed, WindowOpen, Times
  <2> QED BY <1>1, <1>2, <1>3, <2>1, <2>2, NotAFrame DEF Windowed
<1>4. CASE ~ SendsFill'
  <2>1. policy'.fillAt = policy.fillAt
    BY <1>2, <1>4 DEF Takes, Decides
  <2> QED BY <1>4, <2>1 DEF Windowed
<1> QED BY <1>3, <1>4

LEMMA QueueShrinks ==
    ASSUME queue \in Seq(Reported), queue # <<>>, queue' = Tail(queue)
    PROVE  /\ queue' \in Seq(Reported) /\ 1 \in DOMAIN queue
           /\ \A i : i \in DOMAIN queue' <=> i \in Nat \ {0} /\ i + 1 \in DOMAIN queue
           /\ \A i \in DOMAIN queue' : queue'[i] = queue[i + 1]
           /\ \A i \in Waiting' : i \in Nat /\ i + 1 \in Waiting
           /\ \A i \in Waiting : i \in Nat /\ (i = 1 \/ i - 1 \in Waiting')
           /\ queue[1].kind # "flush" => (FlushQueued => FlushQueued')
<1>1. /\ queue' \in Seq(Reported) /\ 1 \in DOMAIN queue
      /\ \A i : i \in DOMAIN queue' <=> i \in Nat \ {0} /\ i + 1 \in DOMAIN queue
      /\ \A i \in DOMAIN queue' : queue'[i] = queue[i + 1]
  BY TailAt
<1>2. \A i \in DOMAIN queue : i \in Nat /\ (i # 1 => i - 1 \in Nat \ {0} /\ (i - 1) + 1 = i)
  OBVIOUS
<1>3. \A i \in Waiting' : i \in Nat /\ i + 1 \in Waiting
  BY <1>1 DEF Waiting
<1>4. \A i \in DOMAIN queue : i # 1 => i - 1 \in DOMAIN queue' /\ queue'[i - 1] = queue[i]
  BY <1>1, <1>2
<1>5. \A i \in Waiting : i \in Nat /\ (i = 1 \/ i - 1 \in Waiting')
  BY <1>2, <1>4 DEF Waiting
<1>6. queue[1].kind # "flush" => (FlushQueued => FlushQueued')
  BY <1>4 DEF FlushQueued
<1> QED BY <1>1, <1>3, <1>5, <1>6

\* A queue without its first report keeps what follows it.
LEMMA EndStaysLast ==
    ASSUME EndIsLast, queue \in Seq(Reported), queue # <<>>, queue' = Tail(queue), room' = room,
           policy'.end # NoFrame =>
               policy'.fill = NoFrame /\ (policy.end # NoFrame \/ queue[1].kind = "terminal")
    PROVE  EndIsLast'
<1>1. /\ 1 \in DOMAIN queue
      /\ \A i \in DOMAIN queue' : i \in Nat \ {0} /\ i + 1 \in DOMAIN queue
                                  /\ queue'[i] = queue[i + 1]
  BY QueueShrinks
<1>2. /\ room'.told => room'.status # "ongoing"
      /\ policy'.end # NoFrame \/ (\E i \in DOMAIN queue' : queue'[i].kind = "terminal")
           => room'.status # "ongoing"
  BY <1>1 DEF EndIsLast
<1>3. \A i, j \in DOMAIN queue' : i < j /\ queue'[i].kind = "terminal" => queue'[j].kind # "fill"
  <2> SUFFICES ASSUME NEW i \in DOMAIN queue', NEW j \in DOMAIN queue', i < j,
                      queue'[i].kind = "terminal"
               PROVE  queue'[j].kind # "fill"
    OBVIOUS
  <2>1. i + 1 < j + 1
    BY <1>1
  <2> QED BY <1>1, <2>1 DEF EndIsLast
<1>4. policy'.end # NoFrame =>
           policy'.fill = NoFrame /\ \A i \in DOMAIN queue' : queue'[i].kind # "fill"
  <2>1. \A i \in DOMAIN queue' : 1 < i + 1
    BY <1>1
  <2> QED BY <1>1, <2>1 DEF EndIsLast
<1> QED BY <1>2, <1>3, <1>4 DEF EndIsLast

\* What is known of the reports that stay.
LEMMA ReportsStayKnown ==
    ASSUME Known, ~ broken, ~ EndIsDue, queue \in Seq(Reported), queue # <<>>,
           queue' = Tail(queue), room' = room
    PROVE  /\ \A i \in Waiting' :
                (\A j \in Waiting' : i < j => queue'[j].kind = "welcome")
                    => IsNow(queue[i].facts)'
           /\ (\A j \in Waiting' : queue'[j].kind = "welcome")
                => \A j \in Waiting : j = 1 \/ queue[j].kind = "welcome"
           /\ Waiting' = {} => \A j \in Waiting : j = 1
<1>1. /\ \A i \in Waiting' : i \in Nat /\ i + 1 \in Waiting /\ queue'[i] = queue[i + 1]
      /\ \A i \in Waiting : i \in Nat /\ (i = 1 \/ i - 1 \in Waiting')
  BY QueueShrinks DEF Waiting
<1>2. \A i \in Waiting : i # 1 => (i - 1) + 1 = i /\ i - 1 \in Nat
  BY <1>1
<1>3. \A i \in Waiting : i # 1 => i - 1 \in Waiting' /\ queue'[i - 1] = queue[i]
  BY <1>1, <1>2
<1>4. ASSUME NEW i \in Waiting', \A j \in Waiting' : i < j => queue'[j].kind = "welcome"
      PROVE  IsNow(queue[i].facts)'
  <2>1. ASSUME NEW j \in Waiting, i + 1 < j PROVE queue[j].kind = "welcome"
    <3>1. j # 1 /\ i < j - 1
      BY <1>1, <2>1
    <3> QED BY <1>3, <1>4, <3>1
  <2>2. i + 1 \in Waiting /\ queue'[i] = queue[i + 1]
    BY <1>1
  <2>3. IsNow(queue[i + 1].facts)
    BY <2>1, <2>2 DEF Known
  <2> QED BY <2>2, <2>3 DEF IsNow
<1> QED BY <1>3, <1>4

LEMMA RunKeeps == IInv /\ Run => IInv'
<1> SUFFICES ASSUME IInv, Run PROVE IInv'
  OBVIOUS
<1> DEFINE report == queue[1]
           first == report.facts.first
           frame == FrameOf(room.members, report.facts)
           r == Fold(policy, report, frame, now)
<1>1. /\ queue \in Seq(Reported) /\ queue # <<>> /\ room.members \in SUBSET Users
      /\ Policy(policy) /\ now \in Nat /\ timer \in Times /\ task = NoTask /\ room.here \in SUBSET Users
      /\ room.here \subseteq room.members
  BY PushAssumption DEF IInv, TypeOK, IdleSendsNothing, Run, Policy
<1>2. Head(queue) = report /\ report \in Reported
  BY <1>1, TailAt
<1>3. /\ report.kind # "flush" /\ anchor' = first /\ Decided(r, FALSE, first, now)
      /\ missed' = missed \cup Skipped(report, frame) /\ queue' = Tail(queue)
      /\ UNCHANGED <<room, tokens, notices, island, now, happened, faults, broken, filledAt>>
  BY <1>2 DEF Run
<1>4. first \in Times /\ frame \in Frames
  BY <1>1, <1>2, FrameTyped
<1> HIDE DEF report, first, frame
<1>5. Decides(policy, now, r) /\ Folds(policy, report, frame, r)
  BY <1>1, <1>2, <1>3, <1>4, FoldDecides
<1> HIDE DEF r
<1>6. Takes(r, first, now)
  BY <1>1, <1>3, <1>4, <1>5, DecidedTakes DEF Decides, Policy
<1>7. task.sends = {} /\ task.at = "idle"
  BY <1>1, IdleTask
<1>8. TypeOK'
  <2>1. queue' \in Seq(Reported)
    BY <1>1, <1>3, QueueShrinks
  <2>2. missed' \subseteq Users
    BY <1>3 DEF Skipped, IInv, TypeOK
  <2>3. /\ policy' \in Policies /\ (policy'.end = NoFrame) = (policy'.endAt = NoTime)
        /\ task' \in [at : {"idle", "sending"}, sends : SUBSET Sends, wake : Times,
                      clock : BOOLEAN, began : Nat]
        /\ timer' \in Times /\ anchor' \in Times
    BY <1>3, <1>4, <1>6 DEF Takes, Policy, Tasks
  <2> QED BY <1>3, <2>1, <2>2, <2>3 DEF IInv, TypeOK
<1>9. IdleSendsNothing' /\ Clocked'
  BY <1>3, <1>6 DEF Takes, Clocked
<1>10. Windowed'
  BY <1>3, <1>5, <1>6, DecidesSpaced DEF IInv
<1>11. EndIsLast'
  <2>1. policy'.end # NoFrame => policy'.fill = NoFrame /\ (policy.end # NoFrame \/ report.kind = "terminal")
    <3> SUFFICES ASSUME policy'.end # NoFrame
                 PROVE  policy'.fill = NoFrame /\ (policy.end # NoFrame \/ report.kind = "terminal")
      OBVIOUS
    <3>1. policy.end # NoFrame \/ report.kind = "terminal"
      BY <1>5, <1>6 DEF Takes, Folds
    <3>2. policy.end # NoFrame => policy.fill = NoFrame /\ report.kind # "fill"
      BY <1>1, TailAt DEF IInv, EndIsLast, report
    <3> QED BY <1>5, <1>6, <3>1, <3>2 DEF Takes, Folds
  <2> QED BY <1>1, <1>3, <2>1, EndStaysLast DEF IInv, report
<1>12. Remembered'
  <2> SUFFICES ASSUME ~ broken' PROVE
         /\ \A u \in tokens' \ missed' : u \notin Recipients(task'.sends) => HasLast(u)'
         /\ \A s \in task'.sends : s.event = "end" \/ s.frame = policy'.last
    BY DEF Remembered
  <2>1. ASSUME NEW u \in tokens' \ missed', u \notin Recipients(task'.sends) PROVE HasLast(u)'
    <3>1. u \in tokens \ missed /\ u \in Users /\ u \notin Skipped(report, frame)
      BY <1>3, <2>1 DEF IInv, TypeOK
    <3>2. u \notin Recipients(r.sends)
      BY <1>6, <2>1 DEF Takes
    <3>3. u \notin Recipients(task.sends)
      BY <1>7 DEF Recipients
    <3>4. HasLast(u)
      BY <1>3, <3>1, <3>3 DEF IInv, Remembered
    <3>5. policy'.last = policy.last
      BY <1>5, <1>6, <3>1, <3>2 DEF Takes, Folds, Skipped
    <3> QED BY <1>3, <3>4, <3>5 DEF HasLast
  <2> QED BY <1>6, <2>1 DEF Takes
<1>13. Known'
  <2> SUFFICES ASSUME ~ broken', ~ EndIsDue' PROVE
        /\ \A i \in Waiting' :
               (\A j \in Waiting' : i < j => queue'[j].kind = "welcome") => IsNow(queue[i].facts)'
        /\ (\A j \in Waiting' : queue'[j].kind = "welcome") /\ policy'.fill # NoFrame
               => ShowsRoom(policy.fill)'
        /\ Waiting' = {} =>
               \/ policy'.last = NoFrame \/ ShowsRoom(policy.last)'
               \/ ShowsRoom(policy.fill)' /\ (FlushQueued' \/ Wakes')
    BY DEF Known
  <2>1. ~ broken /\ ~ EndIsDue /\ Known
    BY <1>3 DEF EndIsDue, IInv
  <2>2. /\ \A i \in Waiting' :
               (\A j \in Waiting' : i < j => queue'[j].kind = "welcome")
                   => IsNow(queue[i].facts)'
        /\ (\A j \in Waiting' : queue'[j].kind = "welcome")
               => \A j \in Waiting : j = 1 \/ queue[j].kind = "welcome"
        /\ Waiting' = {} => \A j \in Waiting : j = 1
    BY <1>1, <1>3, <2>1, ReportsStayKnown
  <2>3. 1 \in Waiting
    BY <1>1, <1>3, TailAt DEF Waiting, report
  <2>4. IsNow(report.facts) => frame # NoFrame /\ frame.filled = room'.filled
                                /\ frame.status = room'.status /\ frame.here = room'.here
    BY <1>1, <1>3, <1>4, NotAFrame DEF IsNow, frame, FrameOf
  <2>5. (\A j \in Waiting : j = 1 \/ queue[j].kind = "welcome") => IsNow(report.facts)
    BY <2>1, <2>3 DEF Known, report
  <2>6. ASSUME \A j \in Waiting' : queue'[j].kind = "welcome", policy'.fill # NoFrame
        PROVE  ShowsRoom(policy.fill)'
    <3>1. CASE policy'.fill = frame
      BY <2>2, <2>4, <2>5, <2>6, <3>1 DEF ShowsRoom, Shows
    <3>2. CASE report.kind = "welcome" /\ policy'.fill = policy.fill
      <4>1. \A j \in Waiting : queue[j].kind = "welcome"
        BY <2>2, <2>6, <3>2 DEF report
      <4>2. ShowsRoom(policy.fill)
        BY <2>1, <2>6, <3>2, <4>1 DEF Known
      <4> QED BY <1>3, <3>2, <4>2 DEF ShowsRoom, Shows
    <3> QED BY <1>5, <1>6, <2>6, <3>1, <3>2 DEF Folds, Takes
  <2>7. ASSUME Waiting' = {}
        PROVE  \/ policy'.last = NoFrame \/ ShowsRoom(policy.last)'
               \/ ShowsRoom(policy.fill)' /\ (FlushQueued' \/ Wakes')
    <3>1. frame # NoFrame /\ frame.filled = room'.filled /\ frame.status = room'.status
          /\ frame.here = room'.here
      BY <2>2, <2>4, <2>5, <2>7
    <3>2. CASE policy'.last = frame
      BY <3>1, <3>2 DEF ShowsRoom, Shows
    <3>3. CASE policy'.fill = frame /\ r.wake # NoTime
      BY <1>6, <3>1, <3>3 DEF ShowsRoom, Shows, Takes
    <3> QED BY <1>5, <1>6, <3>2, <3>3 DEF Folds, Takes
  <2> QED BY <2>2, <2>6, <2>7
<1> QED BY <1>8, <1>9, <1>10, <1>11, <1>12, <1>13 DEF IInv

LEMMA FlushKeeps == IInv /\ Flush => IInv'
<1> SUFFICES ASSUME IInv, Flush PROVE IInv'
  OBVIOUS
<1> DEFINE r == FlushPending(policy, now)
<1>1. /\ queue \in Seq(Reported) /\ queue # <<>> /\ Policy(policy) /\ now \in Nat
      /\ timer \in Times /\ anchor \in Times /\ task = NoTask
      /\ policy.end # NoFrame => policy.fill = NoFrame
  BY PushAssumption DEF IInv, TypeOK, IdleSendsNothing, EndIsLast, Flush, Policy
<1>2. Head(queue) = queue[1]
  BY <1>1, TailAt
<1>3. /\ queue[1].kind = "flush" /\ Decided(r, TRUE, anchor, now) /\ queue' = Tail(queue)
      /\ UNCHANGED <<room, tokens, notices, anchor, island, now, happened, faults, broken, missed,
                     filledAt>>
  BY <1>2 DEF Flush, history
<1>4. Decides(policy, now, r) /\ Flushes(policy, r)
  BY <1>1, FlushDecides
<1> HIDE DEF r
<1>5. Takes(r, anchor, now)
  BY <1>1, <1>3, <1>4, DecidedTakes DEF Decides, Policy
<1>6. task.sends = {} /\ task.at = "idle"
  BY <1>1, IdleTask
<1>7. TypeOK'
  <2>1. queue' \in Seq(Reported)
    BY <1>1, <1>3, QueueShrinks
  <2>2. /\ policy' \in Policies /\ (policy'.end = NoFrame) = (policy'.endAt = NoTime)
        /\ task' \in [at : {"idle", "sending"}, sends : SUBSET Sends, wake : Times,
                      clock : BOOLEAN, began : Nat]
        /\ timer' \in Times
    BY <1>5 DEF Takes, Policy, Tasks
  <2> QED BY <1>3, <2>1, <2>2 DEF IInv, TypeOK
<1>8. IdleSendsNothing' /\ Clocked'
  BY <1>3, <1>5 DEF Takes, Clocked
<1>9. Windowed'
  BY <1>3, <1>4, <1>5, DecidesSpaced DEF IInv
<1>10. EndIsLast'
  <2>1. policy'.end # NoFrame => policy'.fill = NoFrame /\ policy.end # NoFrame
    BY <1>1, <1>4, <1>5 DEF Takes, Flushes
  <2> QED BY <1>1, <1>3, <2>1, EndStaysLast DEF IInv
<1>11. Remembered'
  <2> SUFFICES ASSUME ~ broken' PROVE
         /\ \A u \in tokens' \ missed' : u \notin Recipients(task'.sends) => HasLast(u)'
         /\ \A s \in task'.sends : s.event = "end" \/ s.frame = policy'.last
    BY DEF Remembered
  <2>1. ASSUME NEW u \in tokens' \ missed', u \notin Recipients(task'.sends) PROVE HasLast(u)'
    <3>1. u \in tokens \ missed /\ u \in Users
      BY <1>3, <2>1 DEF IInv, TypeOK
    <3>2. u \notin Recipients(r.sends)
      BY <1>5, <2>1 DEF Takes
    <3>3. u \notin Recipients(task.sends)
      BY <1>6 DEF Recipients
    <3>4. HasLast(u)
      BY <1>3, <3>1, <3>3 DEF IInv, Remembered
    <3>5. policy'.last = policy.last
      BY <1>4, <1>5, <3>1, <3>2 DEF Takes, Flushes
    <3> QED BY <1>3, <3>4, <3>5 DEF HasLast
  <2> QED BY <1>5, <2>1 DEF Takes
<1>12. Known'
  <2> SUFFICES ASSUME ~ broken', ~ EndIsDue' PROVE
        /\ \A i \in Waiting' :
               (\A j \in Waiting' : i < j => queue'[j].kind = "welcome") => IsNow(queue[i].facts)'
        /\ (\A j \in Waiting' : queue'[j].kind = "welcome") /\ policy'.fill # NoFrame
               => ShowsRoom(policy.fill)'
        /\ Waiting' = {} =>
               \/ policy'.last = NoFrame \/ ShowsRoom(policy.last)'
               \/ ShowsRoom(policy.fill)' /\ (FlushQueued' \/ Wakes')
    BY DEF Known
  <2>1. ~ broken /\ ~ EndIsDue /\ Known
    BY <1>3 DEF EndIsDue, IInv
  <2>2. 1 \notin Waiting
    BY <1>3 DEF Waiting
  <2>3. /\ \A i \in Waiting' :
               (\A j \in Waiting' : i < j => queue'[j].kind = "welcome")
                   => IsNow(queue[i].facts)'
        /\ (\A j \in Waiting' : queue'[j].kind = "welcome")
               => \A j \in Waiting : queue[j].kind = "welcome"
        /\ Waiting' = {} => Waiting = {}
    BY <1>1, <1>3, <2>1, <2>2, ReportsStayKnown
  <2>4. \A f : ShowsRoom(f) <=> f # NoFrame /\ f.filled = room'.filled /\ f.status = room'.status
                                /\ f.here = room'.here
    BY <1>3 DEF ShowsRoom, Shows
  <2>5. ASSUME \A j \in Waiting' : queue'[j].kind = "welcome", policy'.fill # NoFrame
        PROVE  ShowsRoom(policy.fill)'
    <3>1. policy'.fill = policy.fill
      BY <1>4, <1>5, <2>5 DEF Flushes, Takes
    <3>2. ShowsRoom(policy.fill)
      BY <2>1, <2>3, <2>5, <3>1 DEF Known
    <3> QED BY <1>3, <3>1, <3>2 DEF ShowsRoom, Shows
  <2>6. ASSUME Waiting' = {}
        PROVE  \/ policy'.last = NoFrame \/ ShowsRoom(policy.last)'
               \/ ShowsRoom(policy.fill)' /\ (FlushQueued' \/ Wakes')
    <3>1. policy.fill # NoFrame => ShowsRoom(policy.fill)
      BY <2>1, <2>3, <2>6 DEF Known
    <3>2. CASE policy.fill # NoFrame
      <4>1. CASE policy'.last = policy.fill
        BY <1>3, <3>1, <3>2, <4>1 DEF ShowsRoom, Shows
      <4>2. CASE policy'.fill = policy.fill /\ r.wake # NoTime
        BY <1>3, <1>5, <3>1, <3>2, <4>2 DEF ShowsRoom, Shows, Takes
      <4> QED BY <1>4, <1>5, <3>2, <4>1, <4>2 DEF Flushes, Takes
    <3>3. CASE policy.fill = NoFrame
      <4>1. policy'.last = policy.last
        BY <1>4, <1>5, <3>3 DEF Flushes, Takes
      <4>2. policy.last = NoFrame \/ ShowsRoom(policy.last)
        BY <2>1, <2>3, <2>6, <3>3 DEF Known, ShowsRoom
      <4> QED BY <1>3, <4>1, <4>2 DEF ShowsRoom, Shows
    <3> QED BY <3>2, <3>3
  <2> QED BY <2>3, <2>5, <2>6
<1> QED BY <1>7, <1>8, <1>9, <1>10, <1>11, <1>12 DEF IInv

\* What a dispatch carries on with: nothing more to send, and the wake that was set.
LEMMA DispatchTakes ==
    ASSUME IInv, Dispatch
    PROVE  Takes(Result(policy, {}, task.wake), anchor, task.began)
<1> DEFINE r == Result(policy, {}, task.wake)
<1>1. /\ Policy(policy) /\ timer \in Times /\ anchor \in Times /\ task \in Tasks
  BY DEF IInv, TypeOK, Policy, Tasks
<1>2. task.wake \in Times /\ task.began \in Nat
  BY <1>1 DEF Tasks
<1>3. r.policy = policy /\ r.sends = {} /\ r.wake = task.wake
  BY DEF Result
<1>4. task.clock => Decided(r, TRUE, anchor, task.began)
  BY DEF Dispatch
<1>5. ~ task.clock => /\ task' = NoTask /\ policy' = policy
                      /\ timer' = WakeAfterRun(task.wake, policy, anchor)
  BY DEF Dispatch
<1> HIDE DEF r
<1>6. ~ task.clock => Decided(r, FALSE, anchor, task.began)
  BY <1>3, <1>5 DEF Decided
<1>7. task.clock \in BOOLEAN
  BY <1>1 DEF Tasks
<1>8. Takes(r, anchor, task.began)
  <2>1. \A s \in r.sends : s.event = "end" \/ s.frame = r.policy.last
    BY <1>3
  <2>2. Policy(r.policy) /\ r.sends \subseteq Sends /\ r.wake \in Times
    BY <1>1, <1>2, <1>3
  <2>3. PICK clock \in BOOLEAN : Decided(r, clock, anchor, task.began)
    BY <1>4, <1>6
  <2> QED BY <1>1, <1>2, <2>1, <2>2, <2>3, DecidedTakes
<1> QED BY <1>8 DEF r

LEMMA DispatchKeeps == IInv /\ Dispatch => IInv'
<1> SUFFICES ASSUME IInv, Dispatch PROVE IInv'
  OBVIOUS
<1> DEFINE r == Result(policy, {}, task.wake)
<1>1. PICK failed \in SUBSET Targets :
          /\ faults + Cardinality(failed) <= MaxFaults
          /\ faults' = faults + Cardinality(failed)
          /\ island' = Delivered(failed)
          /\ missed' = (missed \ Targets) \cup failed
  BY DEF Dispatch
<1>2. /\ task.at = "sending" /\ UNCHANGED <<room, tokens, notices, queue, anchor, now, happened, broken>>
      /\ filledAt' = IF SendsFill THEN task.began ELSE filledAt
  BY DEF Dispatch, SendsFill
<1>3. r.policy = policy /\ r.sends = {} /\ r.wake = task.wake
  BY DEF Result
<1>4. Takes(r, anchor, task.began)
  BY DispatchTakes
<1> HIDE DEF r
<1>5. /\ tokens \subseteq Users /\ IsFiniteSet(Users) /\ task \in Tasks
      /\ island \in [Users -> [frame : MaybeFrames, over : BOOLEAN]] /\ faults \in 0..MaxFaults
  BY PushAssumption DEF IInv, TypeOK, Tasks
<1>6. policy'.last = policy.last /\ policy'.fill = policy.fill /\ policy'.end = policy.end
      /\ policy'.fillAt = policy.fillAt /\ ~ SendsFill'
  BY <1>3, <1>4 DEF Takes
<1>7. Targets \subseteq Users /\ failed \subseteq Users
  BY <1>5 DEF Targets
<1>8. ASSUME NEW u \in Users
      PROVE  \/ island'[u] = island[u] /\ (island[u].over \/ u \notin Targets \/ u \in failed)
             \/ \E s \in task.sends :
                    island'[u] = [frame |-> s.frame, over |-> s.event = "end"]
  <2>1. CASE u \notin Targets \ failed \/ island[u].over
    BY <1>1, <2>1 DEF Delivered
  <2>2. CASE u \in Targets \ failed /\ ~ island[u].over
    <3> DEFINE s == CHOOSE x \in task.sends : u \in x.to
    <3>1. island'[u] = [frame |-> s.frame, over |-> s.event = "end"]
      BY <1>1, <2>2 DEF Delivered
    <3>2. \E x \in task.sends : u \in x.to
      BY <2>2 DEF Targets
    <3>3. s \in task.sends
      BY <3>2
    <3> HIDE DEF s
    <3> QED BY <3>1, <3>3
  <2> QED BY <2>1, <2>2
<1>9. TypeOK'
  <2>1. IsFiniteSet(failed)
    BY <1>5, <1>7, FS_Subset
  <2>2. faults' \in 0..MaxFaults
    BY <1>1, <1>5, <2>1, FS_CardinalityType, PushAssumption
  <2>3. island' \in [Users -> [frame : MaybeFrames, over : BOOLEAN]]
    <3>1. ASSUME NEW u \in Users PROVE island'[u] \in [frame : MaybeFrames, over : BOOLEAN]
      <4>1. \A s \in task.sends : s.frame \in MaybeFrames
        BY <1>5 DEF Tasks, Sends, MaybeFrames
      <4>2. CASE island'[u] = island[u]
        BY <1>5, <4>2
      <4>3. ASSUME NEW s \in task.sends,
                   island'[u] = [frame |-> s.frame, over |-> s.event = "end"]
            PROVE  island'[u] \in [frame : MaybeFrames, over : BOOLEAN]
        <5>1. s.frame \in MaybeFrames /\ (s.event = "end") \in BOOLEAN
          BY <4>1
        <5> QED BY <4>3, <5>1
      <4> QED BY <1>8, <4>2, <4>3
    <3>2. island' = [u \in Users |-> island'[u]]
      BY <1>1 DEF Delivered
    <3> QED BY <3>1, <3>2
  <2>4. filledAt' \in Times /\ missed' \subseteq Users
    BY <1>1, <1>2, <1>5, <1>7 DEF Tasks, IInv, TypeOK, Times
  <2>5. /\ policy' \in Policies /\ (policy'.end = NoFrame) = (policy'.endAt = NoTime)
        /\ task' \in [at : {"idle", "sending"}, sends : SUBSET Sends, wake : Times,
                      clock : BOOLEAN, began : Nat]
        /\ timer' \in Times
    BY <1>4 DEF Takes, Policy, Tasks
  <2> QED BY <1>2, <2>2, <2>3, <2>4, <2>5 DEF IInv, TypeOK
<1>10. IdleSendsNothing' /\ Clocked'
  BY <1>2, <1>4 DEF Takes, Clocked
<1>11. Windowed'
  <2>1. task.began \in Nat /\ filledAt \in Times
    BY <1>5 DEF Tasks, IInv, TypeOK
  <2>2. CASE SendsFill
    BY <1>2, <1>6, <2>1, <2>2, NotAFrame DEF IInv, Windowed
  <2>3. CASE ~ SendsFill
    BY <1>2, <1>6, <2>3 DEF IInv, Windowed
  <2> QED BY <2>2, <2>3
<1>12. EndIsLast'
  BY <1>2, <1>6 DEF IInv, EndIsLast
<1>13. Remembered'
  <2> SUFFICES ASSUME ~ broken' PROVE
         /\ \A u \in tokens' \ missed' : u \notin Recipients(task'.sends) => HasLast(u)'
         /\ \A s \in task'.sends : s.event = "end" \/ s.frame = policy'.last
    BY DEF Remembered
  <2>1. /\ \A u \in tokens \ missed : u \notin Recipients(task.sends) => HasLast(u)
        /\ \A s \in task.sends : s.event = "end" \/ s.frame = policy.last
    BY <1>2 DEF IInv, Remembered
  <2>2. ASSUME NEW u \in tokens' \ missed' PROVE HasLast(u)'
    <3>1. u \in tokens /\ u \in Users /\ u \notin failed
      BY <1>1, <1>2, <1>5, <2>2
    <3>2. CASE \E s \in task.sends : island'[u] = [frame |-> s.frame, over |-> s.event = "end"]
      <4>1. PICK s \in task.sends : island'[u] = [frame |-> s.frame, over |-> s.event = "end"]
        BY <3>2
      <4>2. island'[u].frame = s.frame /\ island'[u].over = (s.event = "end")
        BY <4>1
      <4>3. s.event = "end" \/ s.frame = policy.last
        BY <2>1
      <4> QED BY <1>6, <4>2, <4>3 DEF HasLast
    <3>3. CASE island'[u] = island[u] /\ island[u].over
      BY <3>3 DEF HasLast
    <3>4. CASE island'[u] = island[u] /\ u \notin Targets
      <4>1. u \notin Recipients(task.sends) /\ u \notin missed
        BY <1>1, <2>2, <3>1, <3>4 DEF Targets, Recipients
      <4>2. HasLast(u)
        BY <2>1, <3>1, <4>1
      <4> QED BY <1>6, <3>4, <4>2 DEF HasLast
    <3> QED BY <1>8, <3>1, <3>2, <3>3, <3>4
  <2> QED BY <1>4, <2>2 DEF Takes
<1>14. Known'
  <2>1. Waiting' = Waiting /\ FlushQueued' = FlushQueued /\ EndIsDue' = EndIsDue
    BY <1>2 DEF Waiting, FlushQueued, EndIsDue
  <2>2. Wakes => Wakes'
    BY <1>2, <1>3, <1>4 DEF Takes, Wakes
  <2>3. ShowsRoom(policy.fill)' = ShowsRoom(policy.fill) /\ ShowsRoom(policy.last)' = ShowsRoom(policy.last)
    BY <1>2, <1>6 DEF ShowsRoom, Shows
  <2>4. Known
    BY DEF IInv
  <2> QED BY <1>2, <1>6, <2>1, <2>2, <2>3, <2>4 DEF Known, IsNow
<1> QED BY <1>9, <1>10, <1>11, <1>12, <1>13, <1>14 DEF IInv

LEMMA DropsKeeps == IInv /\ Drops => IInv'
<1> SUFFICES ASSUME IInv, Drops PROVE IInv'
  OBVIOUS
<1>1. /\ broken' = TRUE /\ faults' = faults + 1 /\ faults < MaxFaults
      /\ UNCHANGED <<room, tokens, notices, policy, timer, island, now, happened, missed, filledAt>>
  BY DEF Drops
<1>2. /\ queue \in Seq(Reported) /\ task \in Tasks /\ faults \in 0..MaxFaults /\ anchor \in Times
      /\ IdleSendsNothing
  BY DEF IInv, TypeOK, Tasks
<1>3. \/ /\ queue # <<>> /\ queue' = Tail(queue) /\ anchor' = Head(queue).facts.first /\ task' = task
      \/ task' = NoTask /\ queue' = queue /\ anchor' = anchor
  BY DEF Drops
<1>4. task' \in Tasks /\ IdleSendsNothing'
  BY <1>2, <1>3, IdleTask DEF IdleSendsNothing
<1>5. queue' \in Seq(Reported) /\ anchor' \in Times
  <2>1. CASE queue # <<>> /\ queue' = Tail(queue) /\ anchor' = Head(queue).facts.first
    <3>1. queue' \in Seq(Reported) /\ Head(queue) \in Reported
      BY <1>2, <2>1, TailAt
    <3>2. anchor' \in Times
      BY <2>1, <3>1 DEF Reported
    <3> QED BY <3>1, <3>2
  <2>2. CASE queue' = queue /\ anchor' = anchor
    BY <1>2, <2>2
  <2> QED BY <1>3, <2>1, <2>2
<1>6. TypeOK'
  <2>1. faults' \in 0..MaxFaults
    BY <1>1, <1>2, PushAssumption
  <2>2. task' \in [at : {"idle", "sending"}, sends : SUBSET Sends, wake : Times,
                   clock : BOOLEAN, began : Nat]
    BY <1>4 DEF Tasks
  <2> QED BY <1>1, <1>5, <2>1, <2>2 DEF IInv, TypeOK
<1>7. Windowed'
  <2>1. SendsFill' => SendsFill /\ task' = task
    BY <1>3, IdleTask DEF SendsFill
  <2> QED BY <1>1, <2>1 DEF IInv, Windowed
<1>8. EndIsLast'
  <2>1. CASE queue # <<>> /\ queue' = Tail(queue)
    <3>1. policy'.end # NoFrame => policy'.fill = NoFrame /\ policy.end # NoFrame
      BY <1>1 DEF IInv, EndIsLast
    <3> QED BY <1>1, <1>2, <2>1, <3>1, EndStaysLast DEF IInv
  <2>2. CASE queue' = queue
    BY <1>1, <2>2 DEF IInv, EndIsLast
  <2> QED BY <1>3, <2>1, <2>2
<1>9. Clocked' /\ Remembered' /\ Known'
  BY <1>1 DEF Clocked, Remembered, Known
<1> QED BY <1>4, <1>6, <1>7, <1>8, <1>9 DEF IInv

\* The queue with one more report, or one more turn of the timer.
LEMMA QueueGrows ==
    ASSUME queue \in Seq(Reported), NEW e \in Reported, queue' = Append(queue, e)
    PROVE  /\ queue' \in Seq(Reported) /\ Len(queue) \in Nat
           /\ DOMAIN queue' = DOMAIN queue \cup {Len(queue) + 1}
           /\ \A i \in DOMAIN queue : queue'[i] = queue[i] /\ i < Len(queue) + 1 /\ i \in Nat
           /\ queue'[Len(queue) + 1] = e
BY AppendAt

\* A longer queue has the terminal report last.
LEMMA EndComesLast ==
    ASSUME EndIsLast, queue \in Seq(Reported), NEW e \in Reported, queue' = Append(queue, e),
           policy' = policy, room'.told => room'.status # "ongoing",
           room.status # "ongoing" => room'.status # "ongoing",
           e.kind = "terminal" => room'.status # "ongoing",
           e.kind = "fill" => room.status = "ongoing"
    PROVE  EndIsLast'
<1>1. /\ DOMAIN queue' = DOMAIN queue \cup {Len(queue) + 1} /\ Len(queue) \in Nat
      /\ \A i \in DOMAIN queue : queue'[i] = queue[i] /\ i < Len(queue) + 1 /\ i \in Nat
      /\ queue'[Len(queue) + 1] = e
  BY QueueGrows
<1>2. policy'.end # NoFrame \/ (\E i \in DOMAIN queue' : queue'[i].kind = "terminal")
           => room'.status # "ongoing"
  BY <1>1 DEF EndIsLast
<1>3. \A i, j \in DOMAIN queue' : i < j /\ queue'[i].kind = "terminal" => queue'[j].kind # "fill"
  <2> SUFFICES ASSUME NEW i \in DOMAIN queue', NEW j \in DOMAIN queue', i < j,
                      queue'[i].kind = "terminal"
               PROVE  queue'[j].kind # "fill"
    OBVIOUS
  <2>1. i \in DOMAIN queue /\ queue[i].kind = "terminal"
    BY <1>1
  <2> QED BY <1>1, <2>1 DEF EndIsLast
<1>4. policy'.end # NoFrame =>
           policy'.fill = NoFrame /\ \A i \in DOMAIN queue' : queue'[i].kind # "fill"
  BY <1>1 DEF EndIsLast
<1> QED BY <1>2, <1>3, <1>4 DEF EndIsLast

LEMMA TimerKeeps == IInv /\ TimerFires => IInv'
<1> SUFFICES ASSUME IInv, TimerFires PROVE IInv'
  OBVIOUS
<1> DEFINE e == [kind |-> "flush", user |-> NoUser, facts |-> Facts(room)]
<1>1. /\ timer' = NoTime /\ queue' = Append(queue, e)
      /\ UNCHANGED <<room, tokens, notices, task, policy, anchor, island, now, happened, faults,
                     broken, missed, filledAt>>
  BY DEF TimerFires, Reports, history
<1>2. e \in Reported /\ e.kind = "flush" /\ queue \in Seq(Reported)
  BY DEF IInv, TypeOK, Facts, Reported
<1> HIDE DEF e
<1>3. queue' \in Seq(Reported) /\ FlushQueued' /\ Waiting' = Waiting
      /\ \A i \in Waiting : queue'[i] = queue[i]
  <2>1. /\ queue' \in Seq(Reported) /\ DOMAIN queue' = DOMAIN queue \cup {Len(queue) + 1}
        /\ \A i \in DOMAIN queue : queue'[i] = queue[i]
        /\ queue'[Len(queue) + 1].kind = "flush"
    BY <1>1, <1>2, QueueGrows
  <2> QED BY <2>1 DEF Waiting, FlushQueued
<1>4. TypeOK'
  BY <1>1, <1>3 DEF IInv, TypeOK, Times
<1>5. IdleSendsNothing' /\ Clocked' /\ Windowed'
  BY <1>1, <1>3 DEF IInv, IdleSendsNothing, Clocked, Windowed, SendsFill
<1>6. EndIsLast'
  BY <1>1, <1>2, EndComesLast DEF IInv, EndIsLast
<1>7. Remembered'
  BY <1>1 DEF IInv, Remembered, HasLast
<1>8. Known'
  <2>1. EndIsDue' = EndIsDue /\ ShowsRoom(policy.fill)' = ShowsRoom(policy.fill)
        /\ ShowsRoom(policy.last)' = ShowsRoom(policy.last)
    BY <1>1 DEF EndIsDue, ShowsRoom, Shows
  <2>2. Known
    BY DEF IInv
  <2>3. \A i \in Waiting' : IsNow(queue[i].facts)' <=> IsNow(queue[i].facts)
    BY <1>1, <1>3 DEF IsNow
  <2>4. policy' = policy /\ broken' = broken
    BY <1>1
  <2> QED BY <1>3, <2>1, <2>2, <2>3, <2>4 DEF Known
<1> QED BY <1>4, <1>5, <1>6, <1>7, <1>8 DEF IInv

-----------------------------------------------------------------------------
(* The room and the API.                                                   *)

RoomTyped(r) ==
    /\ r \in [members : SUBSET Users, here : SUBSET Users, filled : 0..Cells, status : Statuses,
              first : Times, told : BOOLEAN]
    /\ r.here \subseteq r.members

\* What the channel is left with when the room or the API moves.
ChannelStays == UNCHANGED <<task, policy, timer, anchor, broken, filledAt>>

\* The game does not begin again.
NoWayBack == /\ room'.told => room'.status # "ongoing"
             /\ room.status # "ongoing" => room'.status # "ongoing"

\* A report of the room as it now is.
LEMMA ReportKeeps ==
    ASSUME IInv, TypeOK', ChannelStays, NoWayBack, UNCHANGED <<tokens, island, missed>>,
           NEW e \in Reported, e.kind # "flush", queue' = Append(queue, e),
           e.facts.filled = room'.filled, e.facts.status = room'.status,
           e.facts.here = room'.here,
           e.kind = "terminal" => room'.status # "ongoing",
           e.kind = "fill" => room.status = "ongoing",
           e.kind = "welcome" => room' = room
    PROVE  IInv'
<1>1. queue \in Seq(Reported)
  BY DEF IInv, TypeOK
<1>2. /\ DOMAIN queue' = DOMAIN queue \cup {Len(queue) + 1} /\ Len(queue) \in Nat
      /\ \A i \in DOMAIN queue : queue'[i] = queue[i] /\ i < Len(queue) + 1 /\ i \in Nat
      /\ queue'[Len(queue) + 1] = e /\ FlushQueued' = FlushQueued
      /\ Waiting' = Waiting \cup {Len(queue) + 1}
  <2>1. /\ DOMAIN queue' = DOMAIN queue \cup {Len(queue) + 1} /\ Len(queue) \in Nat
        /\ \A i \in DOMAIN queue : queue'[i] = queue[i] /\ i < Len(queue) + 1 /\ i \in Nat
        /\ queue'[Len(queue) + 1] = e
    BY <1>1, QueueGrows
  <2>2. FlushQueued' = FlushQueued
    BY <2>1 DEF FlushQueued
  <2>3. Waiting' = Waiting \cup {Len(queue) + 1}
    BY <2>1 DEF Waiting
  <2> QED BY <2>1, <2>2, <2>3
<1>3. IdleSendsNothing' /\ Clocked' /\ Windowed'
  BY <1>2 DEF IInv, IdleSendsNothing, Clocked, Windowed, SendsFill, ChannelStays
<1>4. EndIsLast'
  BY <1>1, EndComesLast DEF IInv, NoWayBack, ChannelStays
<1>5. Remembered'
  BY DEF IInv, Remembered, HasLast, ChannelStays
<1>6. Known'
  <2> SUFFICES ASSUME ~ broken', ~ EndIsDue' PROVE
        /\ \A i \in Waiting' :
               (\A j \in Waiting' : i < j => queue'[j].kind = "welcome") => IsNow(queue[i].facts)'
        /\ (\A j \in Waiting' : queue'[j].kind = "welcome") /\ policy'.fill # NoFrame
               => ShowsRoom(policy.fill)'
        /\ Waiting' = {} =>
               \/ policy'.last = NoFrame \/ ShowsRoom(policy.last)'
               \/ ShowsRoom(policy.fill)' /\ (FlushQueued' \/ Wakes')
    BY DEF Known
  <2>1. Waiting' # {}
    BY <1>2
  <2>2. \A i \in Waiting : i \in DOMAIN queue
    BY DEF Waiting
  <2>3. CASE e.kind # "welcome"
    <3>1. ~ (\A j \in Waiting' : queue'[j].kind = "welcome")
      BY <1>2, <2>3
    <3>2. ASSUME NEW i \in Waiting', \A j \in Waiting' : i < j => queue'[j].kind = "welcome"
          PROVE  queue'[i] = e
      BY <1>2, <2>2, <2>3, <3>2
    <3>3. \A i \in Waiting' :
               (\A j \in Waiting' : i < j => queue'[j].kind = "welcome") => IsNow(queue[i].facts)'
      BY <3>2 DEF IsNow
    <3> QED BY <2>1, <3>1, <3>3
  <2>4. CASE e.kind = "welcome"
    <3>1. room' = room /\ ~ broken /\ ~ EndIsDue /\ Known /\ policy' = policy
      BY <2>4 DEF IInv, EndIsDue, ChannelStays
    <3>2. ASSUME NEW i \in Waiting', \A j \in Waiting' : i < j => queue'[j].kind = "welcome"
          PROVE  IsNow(queue[i].facts)'
      <4>1. CASE i = Len(queue) + 1
        BY <1>2, <4>1 DEF IsNow
      <4>2. CASE i \in Waiting
        <5>1. \A j \in Waiting : i < j => queue[j].kind = "welcome"
          BY <1>2, <2>2, <3>2
        <5>2. IsNow(queue[i].facts)
          BY <3>1, <4>2, <5>1 DEF Known
        <5> QED BY <1>2, <2>2, <3>1, <4>2, <5>2 DEF IsNow
      <4> QED BY <1>2, <4>1, <4>2
    <3>3. ASSUME \A j \in Waiting' : queue'[j].kind = "welcome", policy'.fill # NoFrame
          PROVE  ShowsRoom(policy.fill)'
      <4>1. \A j \in Waiting : queue[j].kind = "welcome"
        BY <1>2, <2>2, <3>3
      <4>2. ShowsRoom(policy.fill)
        BY <3>1, <3>3, <4>1 DEF Known
      <4> QED BY <3>1, <4>2 DEF ShowsRoom, Shows
    <3> QED BY <2>1, <3>2, <3>3
  <2> QED BY <2>3, <2>4
<1> QED BY <1>3, <1>4, <1>5, <1>6 DEF IInv

\* A step that reports nothing: the room it leaves shows the same, or awaits its end.
LEMMA SilenceKeeps ==
    ASSUME IInv, TypeOK', ChannelStays, NoWayBack, queue' = queue,
           \A u \in tokens' \ missed' :
               \/ u \in tokens \ missed /\ island'[u] = island[u]
               \/ island'[u] = NoIsland,
           \/ EndIsDue'
           \/ /\ room'.filled = room.filled /\ room'.status = room.status
              /\ room'.here = room.here /\ room'.told = room.told
    PROVE  IInv'
<1>1. FlushQueued' = FlushQueued /\ Waiting' = Waiting
  BY DEF FlushQueued, Waiting
<1>2. IdleSendsNothing' /\ Clocked' /\ Windowed'
  BY <1>1 DEF IInv, IdleSendsNothing, Clocked, Windowed, SendsFill, ChannelStays
<1>3. EndIsLast'
  BY DEF IInv, EndIsLast, NoWayBack, ChannelStays
<1>4. Remembered'
  <2> SUFFICES ASSUME ~ broken' PROVE
         /\ \A u \in tokens' \ missed' : u \notin Recipients(task'.sends) => HasLast(u)'
         /\ \A s \in task'.sends : s.event = "end" \/ s.frame = policy'.last
    BY DEF Remembered
  <2>1. /\ \A u \in tokens \ missed : u \notin Recipients(task.sends) => HasLast(u)
        /\ \A s \in task.sends : s.event = "end" \/ s.frame = policy.last
        /\ task' = task /\ policy' = policy
    BY DEF IInv, Remembered, ChannelStays
  <2>2. ASSUME NEW u \in tokens' \ missed', u \notin Recipients(task'.sends) PROVE HasLast(u)'
    <3>1. CASE u \in tokens \ missed /\ island'[u] = island[u]
      BY <2>1, <2>2, <3>1 DEF HasLast
    <3>2. CASE island'[u] = NoIsland
      BY <3>2 DEF HasLast, NoIsland
    <3> QED BY <2>2, <3>1, <3>2
  <2> QED BY <2>1, <2>2
<1>5. Known'
  <2>1. CASE EndIsDue'
    BY <2>1 DEF Known
  <2>2. CASE /\ room'.filled = room.filled /\ room'.status = room.status
             /\ room'.here = room.here /\ room'.told = room.told
    <3>1. /\ EndIsDue' = EndIsDue /\ ShowsRoom(policy.fill)' = ShowsRoom(policy.fill)
          /\ ShowsRoom(policy.last)' = ShowsRoom(policy.last) /\ Wakes' = Wakes
          /\ policy' = policy /\ broken' = broken
      BY <2>2 DEF EndIsDue, ShowsRoom, Shows, Wakes, ChannelStays
    <3>2. \A i : IsNow(queue[i].facts)' <=> IsNow(queue[i].facts)
      BY <2>2 DEF IsNow
    <3>3. Known
      BY DEF IInv
    <3> QED BY <1>1, <3>1, <3>2, <3>3 DEF Known
  <2> QED BY <2>1, <2>2
<1> QED BY <1>2, <1>3, <1>4, <1>5 DEF IInv

LEMMA ReportOf ==
    ASSUME NEW r, RoomTyped(r),
           NEW kind \in {"presence", "fill", "terminal", "kick", "welcome"},
           NEW user \in Users \cup {NoUser}, kind \in {"kick", "welcome"} => user \in Users,
           NEW e, e = [kind |-> kind, user |-> user, facts |-> Facts(r)]
    PROVE  /\ e \in Reported /\ e.kind = kind /\ e.facts.filled = r.filled
           /\ e.facts.status = r.status /\ e.facts.here = r.here
<1>1. Facts(r) \in [here : SUBSET Users, filled : 0..Cells, status : Statuses, first : Times]
      /\ Facts(r).filled = r.filled /\ Facts(r).status = r.status /\ Facts(r).here = r.here
  BY DEF Facts, RoomTyped
<1> QED BY <1>1 DEF Reported

\* A report is typed as the room it tells of.
LEMMA ReportTyped ==
    ASSUME IInv, RoomTyped(room'), tokens' \subseteq Users, notices' \subseteq Users,
           happened' \in 0..MaxEvents,
           UNCHANGED <<task, policy, timer, anchor, island, now, faults, broken, missed, filledAt>>,
           NEW kind \in {"presence", "fill", "terminal", "kick", "welcome"},
           NEW user \in Users \cup {NoUser}, kind \in {"kick", "welcome"} => user \in Users,
           Reports(kind, user, room'), NoWayBack, tokens' = tokens,
           kind = "terminal" => room'.status # "ongoing",
           kind = "fill" => room.status = "ongoing",
           kind = "welcome" => room' = room
    PROVE  IInv'
<1>1. PICK e : e = [kind |-> kind, user |-> user, facts |-> Facts(room')]
  OBVIOUS
<1>2. queue' = Append(queue, e) /\ queue \in Seq(Reported)
  BY <1>1 DEF Reports, IInv, TypeOK
<1>3. /\ e \in Reported /\ e.kind = kind /\ e.facts.filled = room'.filled
      /\ e.facts.status = room'.status /\ e.facts.here = room'.here
  BY <1>1, ReportOf
<1>4. queue' \in Seq(Reported)
  BY <1>2, <1>3, AppendAt
<1>5. TypeOK'
  BY <1>4 DEF IInv, TypeOK, RoomTyped
<1>6. ChannelStays /\ UNCHANGED <<tokens, island, missed>>
  BY DEF ChannelStays
<1> QED BY <1>2, <1>3, <1>5, <1>6, ReportKeeps

LEMMA RoomIsTyped == IInv => RoomTyped(room)
BY DEF IInv, TypeOK, RoomTyped

LEMMA Counted == IInv /\ Happens => happened' \in 0..MaxEvents
BY PushAssumption DEF IInv, TypeOK, Happens

\* A step of the room that reports nothing and leaves the game and the sockets, or ends it.
LEMMA SilentRoom ==
    ASSUME IInv, RoomTyped(room'), NoWayBack, happened' \in 0..MaxEvents,
           UNCHANGED <<tokens, notices, queue, channel>>,
           \/ EndIsDue'
           \/ /\ room'.filled = room.filled /\ room'.status = room.status
              /\ room'.here = room.here /\ room'.told = room.told
    PROVE  IInv'
<1>1. TypeOK'
  BY DEF IInv, TypeOK, RoomTyped, channel, history
<1>2. ChannelStays /\ queue' = queue
      /\ \A u \in tokens' \ missed' : u \in tokens \ missed /\ island'[u] = island[u]
  BY DEF ChannelStays, channel, history
<1> QED BY <1>1, <1>2, SilenceKeeps

LEMMA EventsKeep == IInv /\ Events => IInv'
<1> SUFFICES ASSUME IInv, Events PROVE IInv'
  OBVIOUS
<1>1. /\ RoomTyped(room) /\ room.told \in BOOLEAN /\ room.here \subseteq Users
      /\ tokens \subseteq Users /\ notices \subseteq Users /\ now \in Nat
      /\ (room.told => room.status # "ongoing") /\ happened \in 0..MaxEvents
  BY RoomIsTyped, PushAssumption DEF IInv, TypeOK, EndIsLast
<1>2. ASSUME RoomTyped(room'), NoWayBack, happened' \in 0..MaxEvents, notices' \subseteq Users,
             UNCHANGED <<tokens, channel>>,
             NEW kind \in {"presence", "fill", "terminal", "kick", "welcome"},
             NEW user \in Users \cup {NoUser}, kind \in {"kick", "welcome"} => user \in Users,
             Reports(kind, user, room'),
             kind = "terminal" => room'.status # "ongoing",
             kind = "fill" => room.status = "ongoing",
             kind = "welcome" => room' = room
      PROVE  IInv'
  <2>1. /\ tokens' = tokens /\ tokens' \subseteq Users
        /\ UNCHANGED <<task, policy, timer, anchor, island, now, faults, broken, missed, filledAt>>
    BY <1>1, <1>2 DEF channel, history
  <2> QED BY <1>2, <2>1, ReportTyped
<1>3. ASSUME NEW u \in Users, Connect(u) PROVE IInv'
  <2>1. RoomTyped(room') /\ NoWayBack
    BY <1>1, <1>3 DEF Connect, RoomTyped, NoWayBack
  <2>2. Reports("presence", u, room') /\ UNCHANGED <<tokens, channel>> /\ notices' \subseteq Users
    BY <1>1, <1>3 DEF Connect
  <2>3. happened' \in 0..MaxEvents
    BY <1>3, Counted DEF Connect
  <2> QED BY <1>2, <2>1, <2>2, <2>3
<1>4. ASSUME NEW u \in Users, Disconnect(u) PROVE IInv'
  <2>1. RoomTyped(room') /\ NoWayBack
    BY <1>1, <1>4 DEF Disconnect, RoomTyped, NoWayBack
  <2>2. Reports("presence", u, room') /\ UNCHANGED <<tokens, channel>> /\ notices' \subseteq Users
    BY <1>1, <1>4 DEF Disconnect
  <2>3. happened' \in 0..MaxEvents
    BY <1>4, Counted DEF Disconnect
  <2> QED BY <1>2, <2>1, <2>2, <2>3
<1>5. ASSUME Fill PROVE IInv'
  <2>1. PICK n \in {room.filled + 1} \cup {k \in 0..Cells : k + 1 = room.filled} :
            /\ n < Cells
            /\ room' = [room EXCEPT !.filled = n, !.first = IF @ = NoTime THEN now ELSE @]
    BY <1>5 DEF Fill
  <2>2. n \in 0..Cells /\ (IF room.first = NoTime THEN now ELSE room.first) \in Times
    BY <1>1, <2>1, PushAssumption DEF RoomTyped, Times
  <2>3. RoomTyped(room') /\ NoWayBack
    BY <1>1, <2>1, <2>2 DEF RoomTyped, NoWayBack
  <2>4. /\ Reports("fill", NoUser, room') /\ UNCHANGED <<tokens, channel>> /\ notices' \subseteq Users
        /\ room.status = "ongoing"
    BY <1>1, <1>5 DEF Fill
  <2>5. happened' \in 0..MaxEvents
    BY <1>5, Counted DEF Fill
  <2> QED BY <1>2, <2>3, <2>4, <2>5
<1>6. ASSUME Durable PROVE IInv'
  <2>1. RoomTyped(room') /\ NoWayBack /\ room'.status # "ongoing"
    BY <1>1, <1>6 DEF Durable, RoomTyped, NoWayBack
  <2>2. Reports("terminal", NoUser, room') /\ UNCHANGED <<tokens, channel>> /\ notices' \subseteq Users
        /\ happened' \in 0..MaxEvents
    BY <1>1, <1>6 DEF Durable
  <2> QED BY <1>2, <2>1, <2>2
<1>7. ASSUME NEW u \in Users, Notice(u) PROVE IInv'
  <2>1. RoomTyped(room') /\ NoWayBack /\ room' = room
    BY <1>1, <1>7 DEF Notice, NoWayBack
  <2>2. Reports("welcome", u, room') /\ UNCHANGED <<tokens, channel>> /\ notices' \subseteq Users
        /\ happened' \in 0..MaxEvents
    BY <1>1, <1>7, <2>1 DEF Notice, Reports
  <2> QED BY <1>2, <2>1, <2>2
<1>8. ASSUME NEW u \in Users, Kick(u) PROVE IInv'
  <2>1. RoomTyped(room') /\ NoWayBack
    BY <1>1, <1>8 DEF Kick, RoomTyped, NoWayBack
  <2>2. UNCHANGED <<tokens, notices, channel>> /\ happened' \in 0..MaxEvents
    BY <1>8, Counted DEF Kick
  <2>3. CASE u \in room.here
    <3>1. Reports("kick", u, room') /\ notices' \subseteq Users /\ UNCHANGED <<tokens, channel>>
      BY <1>1, <1>8, <2>2, <2>3 DEF Kick
    <3> QED BY <1>2, <2>1, <2>2, <3>1
  <2>4. CASE u \notin room.here
    <3>1. UNCHANGED <<tokens, notices, queue, channel>>
      BY <1>8, <2>2, <2>4 DEF Kick
    <3>2. room'.filled = room.filled /\ room'.status = room.status /\ room'.here = room.here
          /\ room'.told = room.told
      BY <1>1, <1>8, <2>4 DEF Kick, RoomTyped
    <3> QED BY <2>1, <2>2, <3>1, <3>2, SilentRoom
  <2> QED BY <2>3, <2>4
<1>9. ASSUME Complete PROVE IInv'
  <2>1. (IF room.first = NoTime THEN now ELSE room.first) \in Times /\ Cells \in 0..Cells
    BY <1>1, PushAssumption DEF RoomTyped, Times
  <2>2. RoomTyped(room') /\ NoWayBack /\ EndIsDue'
    BY <1>1, <1>9, <2>1 DEF Complete, RoomTyped, NoWayBack, EndIsDue, Statuses
  <2>3. UNCHANGED <<tokens, notices, queue, channel>> /\ happened' \in 0..MaxEvents
    BY <1>9, Counted DEF Complete
  <2> QED BY <2>2, <2>3, SilentRoom
<1>10. ASSUME Abandon PROVE IInv'
  <2>1. RoomTyped(room') /\ NoWayBack /\ EndIsDue'
    BY <1>1, <1>10 DEF Abandon, RoomTyped, NoWayBack, EndIsDue, Statuses
  <2>2. UNCHANGED <<tokens, notices, queue, channel>> /\ happened' \in 0..MaxEvents
    BY <1>10, Counted DEF Abandon
  <2> QED BY <2>1, <2>2, SilentRoom
<1>11. ASSUME NEW u \in Users, Register(u) PROVE IInv'
  <2>1. /\ tokens' = tokens \cup {u} /\ notices' = notices \cup {u}
        /\ island' = [island EXCEPT ![u] = NoIsland] /\ missed' = missed \ {u}
        /\ UNCHANGED <<room, queue, task, policy, timer, anchor, now, faults, broken, filledAt>>
    BY <1>11 DEF Register
  <2>2. happened' \in 0..MaxEvents
    BY <1>11, Counted DEF Register
  <2>3. /\ island \in [Users -> [frame : MaybeFrames, over : BOOLEAN]]
        /\ NoIsland \in [frame : MaybeFrames, over : BOOLEAN]
    BY DEF IInv, TypeOK, NoIsland, MaybeFrames
  <2>4. TypeOK'
    <3>1. island' \in [Users -> [frame : MaybeFrames, over : BOOLEAN]]
      BY <2>1, <2>3
    <3> QED BY <1>1, <2>1, <2>2, <3>1 DEF IInv, TypeOK
  <2>5. \A v \in tokens' \ missed' :
            (v \in tokens \ missed /\ island'[v] = island[v]) \/ island'[v] = NoIsland
    BY <1>1, <2>1, <2>3
  <2>6. ChannelStays /\ NoWayBack /\ queue' = queue
    BY <1>1, <2>1 DEF ChannelStays, NoWayBack
  <2>7. room'.filled = room.filled /\ room'.status = room.status /\ room'.here = room.here
        /\ room'.told = room.told
    BY <2>1
  <2> QED BY <2>4, <2>5, <2>6, <2>7, SilenceKeeps
<1>12. ASSUME NEW u \in Users, Unregister(u) PROVE IInv'
  <2>1. tokens' = tokens \ {u} /\ UNCHANGED <<room, notices, queue, channel>>
    BY <1>12 DEF Unregister
  <2>2. happened' \in 0..MaxEvents
    BY <1>12, Counted DEF Unregister
  <2>3. TypeOK'
    BY <1>1, <2>1, <2>2 DEF IInv, TypeOK, channel, history
  <2>4. \A v \in tokens' \ missed' : v \in tokens \ missed /\ island'[v] = island[v]
    BY <2>1 DEF channel, history
  <2>5. ChannelStays /\ NoWayBack /\ queue' = queue
    BY <1>1, <2>1 DEF ChannelStays, NoWayBack, channel, history
  <2>6. room'.filled = room.filled /\ room'.status = room.status /\ room'.here = room.here
        /\ room'.told = room.told
    BY <2>1
  <2> QED BY <2>3, <2>4, <2>5, <2>6, SilenceKeeps
<1> QED
  BY <1>3, <1>4, <1>5, <1>6, <1>7, <1>8, <1>9, <1>10, <1>11, <1>12 DEF Events

LEMMA TickKeeps == IInv /\ Tick => IInv'
<1> SUFFICES ASSUME IInv, Tick PROVE IInv'
  OBVIOUS
<1>1. /\ now < MaxTime /\ now' = now + 1
      /\ UNCHANGED <<room, tokens, notices, queue, task, policy, timer, anchor, island, happened,
                     faults, broken, missed, filledAt>>
  BY DEF Tick, history
<1>2. now' \in 0..MaxTime
  BY <1>1, PushAssumption DEF IInv, TypeOK
<1>3. TypeOK'
  BY <1>1, <1>2 DEF IInv, TypeOK
<1>4. ChannelStays /\ NoWayBack
  BY <1>1 DEF ChannelStays, NoWayBack, IInv, EndIsLast
<1> QED BY <1>1, <1>3, <1>4, SilenceKeeps

LEMMA StutterKeeps == IInv /\ UNCHANGED vars => IInv'
<1> SUFFICES ASSUME IInv, UNCHANGED vars PROVE IInv'
  OBVIOUS
<1>1. UNCHANGED <<room, tokens, notices, queue, task, policy, timer, anchor, island, now, happened,
                  faults, broken, missed, filledAt>>
  BY DEF vars, history
<1>2. TypeOK'
  BY <1>1 DEF IInv, TypeOK
<1>3. ChannelStays /\ NoWayBack
  BY <1>1 DEF ChannelStays, NoWayBack, IInv, EndIsLast
<1> QED BY <1>1, <1>2, <1>3, SilenceKeeps

\* The inductive invariant holds of every behaviour.
THEOREM Invariance == Spec => []IInv
<1>1. IInv /\ [Next]_vars => IInv'
  BY RunKeeps, FlushKeeps, DispatchKeeps, DropsKeeps, TimerKeeps, EventsKeep, TickKeeps, StutterKeeps
     DEF Next, Works
<1> QED BY Starts, <1>1, PTL DEF Spec

-----------------------------------------------------------------------------
(* What follows.                                                           *)

\* The room, the chain, the policy and the islands are well formed, and a frame holds
\* counts and members only: no letter of the board reaches a lock screen.
THEOREM TypeCorrect == Spec => []TypeOK
BY Invariance, PTL DEF IInv

\* The hour boundary carries a guarantee: while an island wants a push past it, the idle
\* channel's timer (armTimer after each run) fires no later than it.
THEOREM HourIsTimed == Spec => []ClockIsTimed
<1>1. IInv => ClockIsTimed
  <2> SUFFICES ASSUME IInv, Idle, ~ broken, ClockWake(policy, anchor) # NoTime
               PROVE  timer # NoTime /\ timer <= ClockWake(policy, anchor)
    BY DEF ClockIsTimed
  <2>1. ~ FlushQueued
    BY DEF Idle, FlushQueued
  <2> QED BY <2>1 DEF IInv, Clocked, Covers, Idle
<1> QED BY Invariance, <1>1, PTL

\* The dedupe never costs an island its news: when every report is worked off, an island
\* shows the room, or a held fill or the terminal report is on its way.
THEOREM IslandsStayCurrent == Spec => []IslandsAreCurrent
<1>1. IInv => IslandsAreCurrent
  <2> SUFFICES ASSUME IInv, Idle, ~ broken, NEW u \in tokens \ missed,
                      island[u].frame # NoFrame, ~ island[u].over, ~ EndIsDue
               PROVE  Shows(island[u].frame) \/ (policy.fill # NoFrame /\ timer # NoTime)
    BY DEF IslandsAreCurrent, EndIsDue
  <2>1. task.sends = {} /\ task.at = "idle"
    BY IdleTask DEF IInv, IdleSendsNothing, Idle
  <2>2. island[u].frame = policy.last
    BY <2>1 DEF IInv, Remembered, Recipients, HasLast
  <2>3. Waiting = {} /\ ~ FlushQueued
    BY DEF Idle, Waiting, FlushQueued
  <2>4. \/ ShowsRoom(policy.last)
        \/ ShowsRoom(policy.fill) /\ Wakes
    BY <2>2, <2>3 DEF IInv, Known
  <2> QED BY <2>1, <2>2, <2>4 DEF ShowsRoom, Wakes
<1> QED BY Invariance, <1>1, PTL

\* Fills inside the window coalesce: two fill pushes of a room are a debounce window
\* apart, led by a report or flushed by the timer, whatever comes between.
THEOREM FillsStaySpaced == Spec => FillsAreSpaced
<1>1. IInv /\ [Next]_vars
      => [filledAt' # filledAt /\ filledAt # NoTime => filledAt' >= filledAt + Debounce]_vars
  <2> SUFFICES ASSUME IInv, Next, filledAt' # filledAt, filledAt # NoTime
               PROVE  filledAt' >= filledAt + Debounce
    BY DEF vars, history
  <2>1. Dispatch
    BY DEF Next, Events, Works, Fill, Complete, Abandon, Durable, Connect, Disconnect, Kick,
           Register, Unregister, Notice, Run, Flush, Drops, TimerFires, Tick, channel, history
  <2>2. SendsFill /\ filledAt' = task.began
    BY <2>1 DEF Dispatch, SendsFill
  <2>3. filledAt \in Nat /\ task.began \in Nat
    BY DEF IInv, TypeOK, Times
  <2> QED BY <2>2, <2>3, NotAFrame DEF IInv, Windowed
<1> QED BY Invariance, <1>1, PTL DEF Spec, FillsAreSpaced
=============================================================================
