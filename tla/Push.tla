-------------------------------- MODULE Push --------------------------------
(***************************************************************************)
(* The Live Activity push of one room (apps/session/src/push): what the    *)
(* actor and the sockets report, the channel that works the reports off    *)
(* one after another, the policy that decides who is sent what and when,   *)
(* the one timer, and the islands on the members' lock screens.            *)
(*                                                                         *)
(* A report carries the facts of when it was made; the members and the     *)
(* tokens are read when its turn comes.  Time is a counter; a timer may    *)
(* fire late.  One token per member.                                       *)
(***************************************************************************)
EXTENDS Naturals, Sequences, FiniteSets

CONSTANTS
    Users, Cells,      \* the members at the start, the cells to fill
    NoUser, NoFrame, NoTime,
    Debounce,          \* DEBOUNCE_MS
    Announce,          \* ANNOUNCE_MS
    Boundary,          \* CLOCK_REGISTER_BOUNDARY_MS + CLOCK_PUSH_GRACE_MS
    MaxTime, MaxEvents, MaxFaults  \* bounds: the clock, what happens in the room, failures

Statuses == {"ongoing", "completed", "abandoned"}
Frames == [here : SUBSET Users, away : SUBSET Users, filled : 0..Cells, status : Statuses]

ASSUME PushAssumption ==
    /\ IsFiniteSet(Users) /\ NoUser \notin Users /\ Cells \in Nat \ {0}
    /\ NoTime \notin Nat /\ NoFrame \notin Frames
    /\ {Debounce, Announce, Boundary, MaxTime, MaxEvents, MaxFaults} \subseteq Nat

VARIABLES
    room,      \* members, live sockets, fill count, status, first fill; terminal reported
    tokens,    \* live_activity_tokens
    notices,   \* registrations the session has not been told of yet
    queue,     \* the channel's chain of reports
    task,      \* the report being worked off
    policy,    \* PolicyState
    timer,     \* when the channel's timer fires
    anchor,    \* the channel's anchorMs
    island,    \* what each member's island was last sent
    now, happened, faults,  \* the clock, and counters for the bounds
    broken,    \* a read failed under a report (history)
    missed,    \* who has not been sent what the policy remembers as sent (history)
    filledAt   \* when the last fill was pushed (history)

history == <<broken, missed, filledAt>>
vars == <<room, tokens, notices, queue, task, policy, timer, anchor, island, now, happened,
          faults, history>>

Facts(r) == [here |-> r.here, filled |-> r.filled, status |-> r.status, first |-> r.first]

\* buildContentState: pucks of the members, and counts.
FrameOf(members, facts) ==
    [here |-> facts.here \cap members, away |-> members \ facts.here,
     filled |-> facts.filled, status |-> facts.status]

NoPolicy == [last |-> NoFrame, lastAt |-> NoTime, fillAt |-> NoTime, fill |-> NoFrame,
             end |-> NoFrame, endAt |-> NoTime]
NoTask == [at |-> "idle", sends |-> {}, wake |-> NoTime, clock |-> FALSE, began |-> 0]
NoIsland == [frame |-> NoFrame, over |-> FALSE]

Init ==
    /\ room = [members |-> Users, here |-> {}, filled |-> 0, status |-> "ongoing",
               first |-> NoTime, told |-> FALSE]
    /\ tokens = {} /\ notices = {} /\ queue = <<>> /\ task = NoTask /\ policy = NoPolicy
    /\ timer = NoTime /\ anchor = NoTime /\ island = [u \in Users |-> NoIsland]
    /\ now = 0 /\ happened = 0 /\ faults = 0
    /\ broken = FALSE /\ missed = {} /\ filledAt = NoTime

-----------------------------------------------------------------------------
(* The policy: a fold over what is reported.                               *)

Result(p, sends, wake) == [policy |-> p, sends |-> sends, wake |-> wake]
Send(event, why, frame, to) == [event |-> event, why |-> why, frame |-> frame, to |-> to]
Quiet(p) == Result([p EXCEPT !.fill = NoFrame], {}, NoTime)
Sent(p, frame, t) == [p EXCEPT !.last = frame, !.lastAt = t]
WindowOpen(p, t) == p.fillAt = NoTime \/ t >= p.fillAt + Debounce

\* presence: to everyone at once, with the counts a held fill waits to send.
OnPresence(p, frame, t) ==
    IF p.last = frame THEN Quiet(p)
    ELSE Result([Sent(p, frame, t) EXCEPT !.fill = NoFrame],
                {Send("update", "presence", frame, Users)}, NoTime)

\* Mutant: the first of the fills is held, the later ones are dropped.
Held_First(p, frame) == [p EXCEPT !.fill = IF @ = NoFrame THEN frame ELSE @]

Held(p, frame) == [p EXCEPT !.fill = frame]

\* fill: the first after a quiet window leads, the latest of the others is held.
OnFill(p, frame, t) ==
    IF p.last = frame THEN Quiet(p)
    ELSE IF WindowOpen(p, t)
    THEN Result([Sent(p, frame, t) EXCEPT !.fillAt = t, !.fill = NoFrame],
                {Send("update", "fill", frame, Users)}, NoTime)
    ELSE Result(Held(p, frame), {}, p.fillAt + Debounce)

Ended(p) == [p EXCEPT !.fill = NoFrame, !.end = NoFrame, !.endAt = NoTime]

\* terminal: a completion is announced and its end held; an abandonment just ends.
OnTerminal(p, frame, t) ==
    IF p.last = frame THEN Quiet(p)
    ELSE IF frame.status = "completed"
    THEN Result([Sent(p, frame, t) EXCEPT !.fill = NoFrame, !.end = frame, !.endAt = t + Announce],
                {Send("update", "alert", frame, Users)}, t + Announce)
    ELSE Result(Ended(Sent(p, frame, t)),
                {Send("end", "end", frame, Users)}, NoTime)

\* kick: an end for the one, presence for the others.
OnKick(p, user, frame, t) ==
    LET ended == Send("end", "end", frame, {user})
    IN  IF p.last = frame THEN Result([p EXCEPT !.fill = NoFrame], {ended}, NoTime)
        ELSE Result([Sent(p, frame, t) EXCEPT !.fill = NoFrame],
                    {ended, Send("update", "presence", frame, Users \ {user})}, NoTime)

\* welcome: to the one, whatever was sent before; remembered as sent to all.
OnWelcome(p, user, frame, t) ==
    Result(Sent(p, frame, t), {Send("update", "welcome", frame, {user})}, NoTime)

Fold(p, report, frame, t) ==
    CASE report.kind = "presence" -> OnPresence(p, frame, t)
      [] report.kind = "fill"     -> OnFill(p, frame, t)
      [] report.kind = "terminal" -> OnTerminal(p, frame, t)
      [] report.kind = "kick"     -> OnKick(p, report.user, frame, t)
      [] report.kind = "welcome"  -> OnWelcome(p, report.user, frame, t)

\* Mutant: a flushed fill does not open a new window.
Flushed_KeepsWindow(p, t) == [Sent(p, p.fill, t) EXCEPT !.fill = NoFrame]

Flushed(p, t) == [Sent(p, p.fill, t) EXCEPT !.fillAt = t, !.fill = NoFrame]

\* flushPending: what was held becomes due, the end first.
FlushPending(p, t) ==
    IF p.end # NoFrame
    THEN IF t < p.endAt THEN Result(p, {}, p.endAt)
         ELSE Result(Ended(p), {Send("end", "end", p.end, Users)}, NoTime)
    ELSE IF p.fill = NoFrame THEN Result(p, {}, NoTime)
    ELSE IF ~ WindowOpen(p, t) THEN Result(p, {}, p.fillAt + Debounce)
    ELSE IF p.last = p.fill THEN Quiet(p)
    ELSE Result(Flushed(p, t), {Send("update", "fill", p.fill, Users)}, NoTime)

\* clockWakeAtMs: the hour boundary wants a push, and none has gone out since.
ClockWake(p, first) ==
    IF \/ first = NoTime \/ p.last = NoFrame \/ p.end # NoFrame
       \/ p.last # NoFrame /\ p.last.status # "ongoing"
       \/ p.lastAt # NoTime /\ p.lastAt >= first + Boundary
    THEN NoTime ELSE first + Boundary

\* flushClock: the last frame once more, for the render it causes.
FlushClock(p, first, t) ==
    LET due == ClockWake(p, first)
    IN  IF due = NoTime THEN Result(p, {}, NoTime)
        ELSE IF t < due THEN Result(p, {}, due)
        ELSE Result([p EXCEPT !.lastAt = t], {Send("update", "clock", p.last, Users)}, NoTime)

-----------------------------------------------------------------------------
(* The room and the API.                                                   *)

Happens == happened < MaxEvents /\ happened' = happened + 1
Reports(kind, user, r) ==
    queue' = Append(queue, [kind |-> kind, user |-> user, facts |-> Facts(r)])
channel == <<task, policy, timer, anchor, island, now, faults, history>>

\* A member's first socket, or their last one gone.
Connect(u) ==
    /\ u \in room.members \ room.here /\ Happens
    /\ room' = [room EXCEPT !.here = @ \cup {u}]
    /\ Reports("presence", u, room')
    /\ UNCHANGED <<tokens, notices, channel>>

Disconnect(u) ==
    /\ u \in room.here /\ Happens
    /\ room' = [room EXCEPT !.here = @ \ {u}]
    /\ Reports("presence", u, room')
    /\ UNCHANGED <<tokens, notices, channel>>

\* placeLetter or clearCell that does not end the game.
Fill ==
    /\ room.here # {} /\ room.status = "ongoing" /\ Happens
    /\ \E n \in {room.filled + 1} \cup {k \in 0..Cells : k + 1 = room.filled} :
          /\ n < Cells
          /\ room' = [room EXCEPT !.filled = n, !.first = IF @ = NoTime THEN now ELSE @]
    /\ Reports("fill", NoUser, room')
    /\ UNCHANGED <<tokens, notices, channel>>

\* The game ends in the actor's memory.  Sockets and notices see it while the
\* terminal flush is still awaited.
Complete ==
    /\ room.here # {} /\ room.status = "ongoing" /\ room.filled + 1 = Cells /\ Happens
    /\ room' = [room EXCEPT !.filled = Cells, !.status = "completed",
                            !.first = IF @ = NoTime THEN now ELSE @]
    /\ UNCHANGED <<tokens, notices, queue, channel>>

Abandon ==
    /\ room.status = "ongoing" /\ Happens
    /\ room' = [room EXCEPT !.status = "abandoned"]
    /\ UNCHANGED <<tokens, notices, queue, channel>>

\* The terminal flush is durable: the last report of the game.
Durable ==
    /\ room.status # "ongoing" /\ ~ room.told
    /\ room' = [room EXCEPT !.told = TRUE]
    /\ Reports("terminal", NoUser, room')
    /\ UNCHANGED <<tokens, notices, happened, channel>>

\* The membership goes; disconnectUser reports a kick only if a socket was held.
Kick(u) ==
    /\ u \in room.members /\ Happens
    /\ room' = [room EXCEPT !.members = @ \ {u}, !.here = @ \ {u}]
    /\ IF u \in room.here THEN Reports("kick", u, room') ELSE UNCHANGED queue
    /\ UNCHANGED <<tokens, notices, channel>>

\* POST /live-activity-tokens: the row, then a call to the session service.  (A
\* registration over an existing row is an unregistration and a registration.)
Register(u) ==
    /\ u \in room.members \ tokens /\ Happens
    /\ tokens' = tokens \cup {u} /\ notices' = notices \cup {u}
    /\ island' = [island EXCEPT ![u] = NoIsland]
    /\ missed' = missed \ {u}
    /\ UNCHANGED <<room, queue, task, policy, timer, anchor, now, faults, broken, filledAt>>

Unregister(u) ==
    /\ u \in tokens /\ Happens
    /\ tokens' = tokens \ {u}
    /\ UNCHANGED <<room, notices, queue, channel>>

\* handleLiveActivityRegistered.  (A call that is lost is one that never arrives.)
Notice(u) ==
    /\ u \in notices
    /\ notices' = notices \ {u}
    /\ Reports("welcome", u, room)
    /\ UNCHANGED <<room, tokens, happened, channel>>

-----------------------------------------------------------------------------
(* The channel.                                                            *)

MinWake(a, b) == IF a = NoTime THEN b ELSE IF b = NoTime THEN a ELSE IF a < b THEN a ELSE b

\* Mutant: the timer is armed for what the fold wants, not for the clock.
WakeAfterRun_NoClock(wake, p, first) == wake

WakeAfterRun(wake, p, first) == MinWake(wake, ClockWake(p, first))

\* A decision is made.  With nothing to send the timer is set at once, or, in a
\* flush, the clock gets its turn first.
Decided(result, clock, first, t) ==
    IF result.sends # {}
    THEN /\ policy' = result.policy
         /\ task' = [at |-> "sending", sends |-> result.sends, wake |-> result.wake,
                     clock |-> clock, began |-> t]
         /\ UNCHANGED timer
    ELSE IF ~ clock
    THEN /\ policy' = result.policy /\ task' = NoTask
         /\ timer' = WakeAfterRun(result.wake, result.policy, first)
    ELSE LET c == FlushClock(result.policy, first, t)
         IN  /\ policy' = c.policy
             /\ IF c.sends # {}
                THEN task' = [at |-> "sending", sends |-> c.sends,
                              wake |-> MinWake(result.wake, c.wake), clock |-> FALSE,
                              began |-> t] /\ UNCHANGED timer
                ELSE task' = NoTask /\ timer' = MinWake(result.wake, c.wake)

\* Who is not sent the frame the policy will remember as the last one sent.
Skipped(report, frame) ==
    IF report.kind = "welcome" /\ frame # policy.last THEN Users \ {report.user} ELSE {}

\* run: the members are read, the report is folded.
Run ==
    /\ task.at = "idle" /\ queue # <<>> /\ Head(queue).kind # "flush"
    /\ LET report == Head(queue)
           frame == FrameOf(room.members, report.facts)
       IN  /\ anchor' = report.facts.first
           /\ Decided(Fold(policy, report, frame, now), FALSE, report.facts.first, now)
           /\ missed' = missed \cup Skipped(report, frame)
    /\ queue' = Tail(queue)
    /\ UNCHANGED <<room, tokens, notices, island, now, happened, faults, broken, filledAt>>

\* flush: the timer's turn on the chain.
Flush ==
    /\ task.at = "idle" /\ queue # <<>> /\ Head(queue).kind = "flush"
    /\ Decided(FlushPending(policy, now), TRUE, anchor, now)
    /\ queue' = Tail(queue)
    /\ UNCHANGED <<room, tokens, notices, anchor, island, now, happened, faults, history>>

Targets == tokens \cap UNION {s.to : s \in task.sends}

Delivered(failed) ==
    [u \in Users |->
        IF u \notin Targets \ failed \/ island[u].over THEN island[u]
        ELSE LET sent == CHOOSE s \in task.sends : u \in s.to
             IN  [frame |-> sent.frame, over |-> sent.event = "end"]]

\* dispatch: the tokens are read, each send succeeds or is logged and dropped;
\* then the clock's turn, or the timer.
Dispatch ==
    /\ task.at = "sending"
    /\ \E failed \in SUBSET Targets :
          /\ faults + Cardinality(failed) <= MaxFaults
          /\ faults' = faults + Cardinality(failed)
          /\ island' = Delivered(failed)
          /\ missed' = (missed \ Targets) \cup failed
    /\ filledAt' = IF \E s \in task.sends : s.why = "fill" THEN task.began ELSE filledAt
    /\ IF task.clock
       THEN Decided(Result(policy, {}, task.wake), TRUE, anchor, task.began)
       ELSE /\ task' = NoTask /\ UNCHANGED policy
            /\ timer' = WakeAfterRun(task.wake, policy, anchor)
    /\ UNCHANGED <<room, tokens, notices, queue, anchor, now, happened, broken>>

\* The members or the tokens cannot be read: the report is logged and dropped,
\* with what the policy already remembers, and the timer stays as it is.
Drops ==
    /\ faults < MaxFaults /\ faults' = faults + 1 /\ broken' = TRUE
    /\ \/ /\ task.at = "idle" /\ queue # <<>> /\ Head(queue).kind # "flush"
          /\ queue' = Tail(queue) /\ anchor' = Head(queue).facts.first /\ UNCHANGED task
       \/ task.at = "sending" /\ task' = NoTask /\ UNCHANGED <<queue, anchor>>
    /\ UNCHANGED <<room, tokens, notices, policy, timer, island, now, happened, missed, filledAt>>

TimerFires ==
    /\ timer # NoTime /\ now >= timer
    /\ timer' = NoTime
    /\ Reports("flush", NoUser, room)
    /\ UNCHANGED <<room, tokens, notices, task, policy, anchor, island, now, happened, faults,
                   history>>

Tick ==
    /\ now < MaxTime /\ now' = now + 1
    /\ UNCHANGED <<room, tokens, notices, queue, task, policy, timer, anchor, island, happened,
                   faults, history>>

-----------------------------------------------------------------------------

Events ==
    \/ Fill \/ Complete \/ Abandon \/ Durable
    \/ \E u \in Users : \/ Connect(u) \/ Disconnect(u) \/ Kick(u) \/ Register(u)
                        \/ Unregister(u) \/ Notice(u)

Works == Run \/ Flush \/ Dispatch \/ Drops \/ TimerFires

Next == Events \/ Works \/ Tick

Spec == Init /\ [][Next]_vars

-----------------------------------------------------------------------------
(* What must hold.                                                         *)

Idle == task.at = "idle" /\ queue = <<>>
Times == Nat \cup {NoTime}
MaybeFrames == Frames \cup {NoFrame}
Policies ==
    [last : MaybeFrames, lastAt : Times, fillAt : Times, fill : MaybeFrames,
     end : MaybeFrames, endAt : Times]
Sends ==
    [event : {"update", "end"}, why : {"presence", "fill", "alert", "end", "welcome", "clock"},
     frame : Frames, to : SUBSET Users]
Reported ==
    {r \in [kind : {"presence", "fill", "terminal", "kick", "welcome", "flush"},
            user : Users \cup {NoUser},
            facts : [here : SUBSET Users, filled : 0..Cells, status : Statuses, first : Times]] :
        r.kind \in {"kick", "welcome"} => r.user \in Users}

\* The state is well formed, and no board content is in a frame: counts only.
TypeOK ==
    /\ room \in [members : SUBSET Users, here : SUBSET Users, filled : 0..Cells,
                  status : Statuses, first : Times, told : BOOLEAN]
    /\ room.here \subseteq room.members /\ tokens \subseteq Users /\ notices \subseteq Users
    /\ queue \in Seq(Reported) /\ policy \in Policies
    /\ task \in [at : {"idle", "sending"}, sends : SUBSET Sends, wake : Times,
                  clock : BOOLEAN, began : Nat]
    /\ (policy.end = NoFrame) = (policy.endAt = NoTime)
    /\ timer \in Times /\ anchor \in Times
    /\ island \in [Users -> [frame : MaybeFrames, over : BOOLEAN]]
    /\ now \in 0..MaxTime /\ happened \in 0..MaxEvents /\ faults \in 0..MaxFaults
    /\ broken \in BOOLEAN /\ missed \subseteq Users /\ filledAt \in Times

\* PROTOCOL 12a: fills inside the window coalesce.  Two fill pushes of a room
\* are a debounce window apart, led or flushed, whatever comes between.
FillsAreSpaced ==
    [][filledAt' # filledAt /\ filledAt # NoTime => filledAt' >= filledAt + Debounce]_vars

Shows(frame) ==
    frame.filled = room.filled /\ frame.status = room.status /\ frame.here = room.here

\* The dedupe never costs an island its news: when the channel has worked off
\* every report, each island that was ever sent a frame shows the room as it
\* is, a fill is held for it with the timer running, or the terminal report is
\* still to come, unless a send to it failed, or a welcome made the policy
\* remember a frame only the welcomed member was sent.
IslandsAreCurrent ==
    Idle /\ ~ broken =>
        \A u \in tokens \ missed :
            \/ island[u].frame = NoFrame \/ island[u].over \/ Shows(island[u].frame)
            \/ policy.fill # NoFrame /\ timer # NoTime
            \/ room.status # "ongoing" /\ ~ room.told

\* PROTOCOL 12a: the hour boundary carries a guarantee.  While the islands still
\* want a push past it, the idle channel's timer runs and fires no later, however
\* fills, holds, welcomes and flushes re-armed it, unless a read failed.
ClockIsTimed ==
    Idle /\ ~ broken /\ ClockWake(policy, anchor) # NoTime =>
        timer # NoTime /\ timer <= ClockWake(policy, anchor)

\* PROTOCOL 12a: after the announcement the end follows.  A held end has the
\* timer running.
EndFollows == Idle /\ ~ broken /\ policy.end # NoFrame => timer # NoTime

=============================================================================
