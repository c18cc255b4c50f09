------------------------------- MODULE Registry -------------------------------
(***************************************************************************)
(* The actors of one game over time (apps/session/src/registry.ts): lazy   *)
(* hydration through a cached promise, the passivation sweep, eviction,    *)
(* the attach loop of a handshake, the abandon call that hydrates on       *)
(* demand, and the SIGTERM drain of server.ts and main.ts.                 *)
(*                                                                         *)
(* GameActor.tla models one actor in full.  Here an actor is only a        *)
(* counter of accepted commands, a terminal flag, the number of buffered   *)
(* events and its mailbox: what decides whether two actors of one game can *)
(* get in each other's way.  Everything between two awaits is one step:    *)
(* sockets, requests and timers act only when no mailbox can run a task    *)
(* and no drain has just been answered (Settled).                          *)
(***************************************************************************)
EXTENDS Naturals, Sequences

CONSTANTS
    Sockets,         \* sockets that may be opened to the game
    FlushThreshold,  \* FLUSH_EVENT_THRESHOLD: buffered events that force a flush
    MaxTries,        \* the handshake's bound on attach attempts
    MaxActors,       \* bound: actors hydrated
    MaxCommands,     \* bound: commands and abandons submitted
    MaxFaults        \* bound: flushes and hydrations that fail

ASSUME RegistryAssumption ==
    /\ FlushThreshold \in Nat \ {0} /\ MaxTries \in Nat \ {0} /\ MaxActors \in Nat \ {0}
    /\ MaxCommands \in Nat /\ MaxFaults \in Nat

VARIABLES
    entry,      \* actors.get(gameId): the number of an actor, 0 for none
    made,       \* the actors created so far are 1..made
    actor,      \* their state
    row,        \* the game_state row: last seq, terminal or not
    socket,     \* each socket and its handshake
    asker,      \* the actor an abandon request waits for (0: none)
    sweep,      \* the passivation in progress: its actor and how far it is
    stop,       \* the shutdown: the actor it drains and how far it is
    told,       \* the last seq broadcast to an open socket (history)
    promised,   \* told when the signal arrived (history)
    late,       \* a task was queued behind a passivation's drain (history)
    sent, faults  \* counters for the bounds

history == <<told, promised, late>>
vars == <<entry, made, actor, row, socket, asker, sweep, stop, history, sent, faults>>

Actors == 1..MaxActors

\* An actor that has not been asked for, and one whose hydration has begun.
Unborn == [phase |-> "unborn", evicted |-> FALSE, seq |-> 0, over |-> FALSE, pending |-> 0,
           mailbox |-> <<>>, awaiting |-> "none", committed |-> FALSE, timer |-> FALSE,
           idle |-> FALSE]
Loading == [Unborn EXCEPT !.phase = "loading"]

Closed == [at |-> "closed", actor |-> 0, tries |-> 0, open |-> FALSE]

Init ==
    /\ entry = 0 /\ made = 0 /\ actor = [a \in Actors |-> Unborn]
    /\ row = [seq |-> 0, over |-> FALSE]
    /\ socket = [s \in Sockets |-> Closed]
    /\ asker = 0
    /\ sweep = [of |-> 0, at |-> "none"] /\ stop = [of |-> 0, at |-> "up"]
    /\ told = 0 /\ promised = 0 /\ late = FALSE /\ sent = 0 /\ faults = 0

-----------------------------------------------------------------------------

Live(a) == actor[a].phase = "live"
Runnable(a) == Live(a) /\ actor[a].awaiting = "none" /\ actor[a].mailbox # <<>>
Attached(a) == {s \in Sockets : socket[s].at = "attached" /\ socket[s].actor = a}

\* The event loop may turn to sockets, requests and timers.
Settled ==
    /\ \A a \in Actors : ~ Runnable(a)
    /\ sweep.at # "drained" /\ stop.at \notin {"drained", "exited"}

\* getOrHydrate: the actor a caller ends up with.
Resolved == IF entry # 0 THEN entry ELSE made + 1

\* Mutant: only a resolved actor is cached, so two callers hydrate twice.
GetOrHydrate_CachesResolved ==
    IF entry # 0 /\ Live(entry)
    THEN UNCHANGED <<entry, made, actor>>
    ELSE /\ made < MaxActors
         /\ made' = made + 1 /\ entry' = made + 1
         /\ actor' = [actor EXCEPT ![made + 1] = Loading]

\* getOrHydrate: the promise is cached, resolved or not.
GetOrHydrate ==
    IF entry # 0
    THEN UNCHANGED <<entry, made, actor>>
    ELSE /\ made < MaxActors
         /\ made' = made + 1 /\ entry' = made + 1
         /\ actor' = [actor EXCEPT ![made + 1] = Loading]

\* A socket that resolves its actor: it waits for a hydration or goes on to the
\* denylist and membership reads.
Resolving(s, tries, open) ==
    [socket EXCEPT ![s] =
        [at |-> IF entry # 0 /\ Live(entry) THEN "checking" ELSE "resolving",
         actor |-> Resolved, tries |-> tries, open |-> open]]

\* Post to the mailbox of a; what comes behind a passivation's drain is late.
Behind(a) == sweep.at = "draining" /\ sweep.of = a
Queued(a, task) == [actor EXCEPT ![a].mailbox = Append(@, task)]

-----------------------------------------------------------------------------
(* Sockets and requests.                                                   *)

\* An upgrade followed by hello; while draining, new sockets get a 503.
Hello(s) ==
    /\ Settled /\ socket[s] = Closed /\ stop.at = "up"
    /\ GetOrHydrate
    /\ socket' = Resolving(s, 0, TRUE)
    /\ UNCHANGED <<row, asker, sweep, stop, history, sent, faults>>

\* loadGameRow and loadGameState answer: the actor is built from the row, and
\* everyone who waits for the promise goes on.
HydrateSucceeds(a) ==
    /\ Settled /\ actor[a].phase = "loading"
    /\ actor' = [actor EXCEPT ![a] =
                    [Unborn EXCEPT !.phase = "live", !.seq = row.seq, !.over = row.over,
                                   !.mailbox = IF asker = a THEN << "abandon" >> ELSE <<>>]]
    /\ socket' = [s \in Sockets |-> IF socket[s].at = "resolving" /\ socket[s].actor = a
                                    THEN [socket[s] EXCEPT !.at = "checking"] ELSE socket[s]]
    /\ asker' = IF asker = a THEN 0 ELSE asker
    /\ UNCHANGED <<entry, made, row, sweep, stop, history, sent, faults>>

\* Mutant: the rejected promise stays in the map.
HydrateFails_Cached(a) ==
    /\ Settled /\ actor[a].phase = "loading" /\ faults < MaxFaults
    /\ faults' = faults + 1
    /\ actor' = [actor EXCEPT ![a].phase = "gone"]
    /\ socket' = [s \in Sockets |-> IF socket[s].at = "resolving" /\ socket[s].actor = a
                                    THEN Closed ELSE socket[s]]
    /\ asker' = IF asker = a THEN 0 ELSE asker
    /\ UNCHANGED <<entry, made, row, sweep, stop, history, sent>>

\* The hydration rejects or finds no game: the entry is dropped, handshakes end
\* and the abandon request fails.
HydrateFails(a) ==
    /\ Settled /\ actor[a].phase = "loading" /\ faults < MaxFaults
    /\ faults' = faults + 1
    /\ actor' = [actor EXCEPT ![a].phase = "gone"]
    /\ entry' = 0
    /\ socket' = [s \in Sockets |-> IF socket[s].at = "resolving" /\ socket[s].actor = a
                                    THEN Closed ELSE socket[s]]
    /\ asker' = IF asker = a THEN 0 ELSE asker
    /\ UNCHANGED <<made, row, sweep, stop, history, sent>>

\* Mutant: an evicted actor still takes sockets.
Refuses_Never(a) == FALSE

\* addConnection on an actor the registry has dropped.
Refuses(a) == actor[a].evicted

\* The membership reads of a handshake answered: attach, or resolve again when
\* the actor was evicted meanwhile, three attempts in all.
Attach(s) ==
    /\ Settled /\ socket[s].at = "checking"
    /\ LET a == socket[s].actor
           tries == socket[s].tries + 1
       IN  IF ~ Refuses(a)
           THEN /\ socket' = [socket EXCEPT ![s].at = "attached"]
                /\ actor' = [actor EXCEPT ![a].idle = FALSE]
                /\ UNCHANGED <<entry, made>>
           ELSE IF tries < MaxTries
           THEN GetOrHydrate /\ socket' = Resolving(s, tries, socket[s].open)
           ELSE socket' = [socket EXCEPT ![s] = Closed] /\ UNCHANGED <<entry, made, actor>>
    /\ UNCHANGED <<row, asker, sweep, stop, history, sent, faults>>

\* The socket closes.  One still in its handshake has no connection to remove,
\* and the handshake goes on.
Close(s) ==
    /\ Settled /\ socket[s].open
    /\ IF socket[s].at = "attached"
       THEN /\ socket' = [socket EXCEPT ![s] = Closed]
            /\ actor' = [actor EXCEPT ![socket[s].actor].idle = FALSE]
       ELSE socket' = [socket EXCEPT ![s].open = FALSE] /\ UNCHANGED actor
    /\ UNCHANGED <<entry, made, row, asker, sweep, stop, history, sent, faults>>

Command(s) ==
    /\ Settled /\ socket[s].open /\ socket[s].at = "attached" /\ sent < MaxCommands
    /\ actor' = Queued(socket[s].actor, "command")
    /\ late' = (late \/ Behind(socket[s].actor))
    /\ sent' = sent + 1
    /\ UNCHANGED <<entry, made, row, socket, asker, sweep, stop, told, promised, faults>>

\* applyMembershipChange for an abandon: hydrate on demand, then post.
Abandon ==
    /\ Settled /\ asker = 0 /\ sent < MaxCommands /\ stop.at = "up"
    /\ sent' = sent + 1
    /\ IF entry # 0 /\ Live(entry)
       THEN /\ actor' = Queued(entry, "abandon")
            /\ late' = (late \/ Behind(entry))
            /\ UNCHANGED <<entry, made, asker>>
       ELSE GetOrHydrate /\ asker' = Resolved /\ UNCHANGED late
    /\ UNCHANGED <<row, socket, sweep, stop, told, promised, faults>>

FlushTimerFires(a) ==
    /\ Settled /\ Live(a) /\ actor[a].timer
    /\ actor' = [Queued(a, "flush") EXCEPT ![a].timer = FALSE]
    /\ late' = (late \/ Behind(a))
    /\ UNCHANGED <<entry, made, row, socket, asker, sweep, stop, told, promised, sent, faults>>

\* The idle window is over: no socket for PASSIVATE_AFTER_MS, which is much
\* longer than the flush interval and than any answer of the database.
IdleWindowPasses(a) ==
    /\ Settled /\ Live(a) /\ ~ actor[a].idle /\ ~ actor[a].evicted
    /\ Attached(a) = {} /\ ~ actor[a].timer /\ actor[a].awaiting = "none"
    /\ actor' = [actor EXCEPT ![a].idle = TRUE]
    /\ UNCHANGED <<entry, made, row, socket, asker, sweep, stop, history, sent, faults>>

-----------------------------------------------------------------------------
(* Mailbox tasks and flushes.                                              *)

\* Mutant: sweeping is not reset when the drain rejects.
Answered_KeepsSweeping(task, failed) ==
    /\ sweep' = IF task # "sweepDrain" THEN sweep
                ELSE [sweep EXCEPT !.at = IF failed THEN "faulted" ELSE "drained"]
    /\ stop' = IF task = "stopDrain" THEN [stop EXCEPT !.at = "drained"] ELSE stop

\* A drain was answered, or its flush failed: who waits for it goes on.
Answered(task, failed) ==
    /\ sweep' = IF task # "sweepDrain" THEN sweep
                ELSE IF failed THEN [of |-> 0, at |-> "none"] ELSE [sweep EXCEPT !.at = "drained"]
    /\ stop' = IF task = "stopDrain" THEN [stop EXCEPT !.at = "drained"] ELSE stop

Broadcast(a, seq) ==
    told' = IF stop.at # "closing" /\ seq > told /\ \E s \in Attached(a) : socket[s].open
            THEN seq ELSE told

\* The head of the mailbox runs up to its first await on the database.
RunTask(a) ==
    /\ Runnable(a)
    /\ LET task == Head(actor[a].mailbox)
           rest == [actor[a] EXCEPT !.mailbox = Tail(@)]
           accepted == [rest EXCEPT !.seq = @ + 1, !.pending = @ + 1]
           full == accepted.pending >= FlushThreshold
       IN  \/ /\ task = "command" /\ ~ rest.over
              /\ actor' = [actor EXCEPT ![a] =
                    IF full THEN [accepted EXCEPT !.awaiting = task, !.timer = FALSE]
                    ELSE [accepted EXCEPT !.timer = TRUE]]
              /\ Broadcast(a, accepted.seq) /\ UNCHANGED <<sweep, stop>>
           \/ /\ task = "abandon" /\ ~ rest.over
              /\ actor' = [actor EXCEPT ![a] =
                    [rest EXCEPT !.seq = @ + 1, !.over = TRUE, !.awaiting = task]]
              /\ UNCHANGED <<told, sweep, stop>>
           \/ /\ task \in {"command", "abandon"} /\ rest.over
              /\ actor' = [actor EXCEPT ![a] = rest] /\ UNCHANGED <<told, sweep, stop>>
           \/ /\ task \in {"flush", "sweepDrain", "stopDrain"}
              /\ actor' = [actor EXCEPT ![a] =
                    [rest EXCEPT !.timer = FALSE,
                                 !.awaiting = IF rest.pending = 0 THEN "none" ELSE task]]
              /\ IF rest.pending = 0 THEN Answered(task, FALSE) ELSE UNCHANGED <<sweep, stop>>
              /\ UNCHANGED told
    /\ UNCHANGED <<entry, made, row, socket, asker, promised, late, sent, faults>>

\* upsertSnapshot's tripwire.
RowAccepts(a) == actor[a].seq >= row.seq /\ (row.over => actor[a].over)

DbCommits(a) ==
    /\ Live(a) /\ actor[a].awaiting # "none" /\ ~ actor[a].committed /\ RowAccepts(a)
    /\ row' = [seq |-> actor[a].seq, over |-> actor[a].over]
    /\ actor' = [actor EXCEPT ![a].committed = TRUE]
    /\ UNCHANGED <<entry, made, socket, asker, sweep, stop, history, sent, faults>>

FlushSucceeds(a) ==
    /\ Live(a) /\ actor[a].committed
    /\ LET task == actor[a].awaiting
       IN  /\ actor' = [actor EXCEPT ![a] =
                 [actor[a] EXCEPT !.awaiting = "none", !.committed = FALSE, !.pending = 0,
                                  !.timer = @ /\ task # "abandon"]]
           /\ IF task = "abandon" THEN Broadcast(a, actor[a].seq) ELSE UNCHANGED told
           /\ Answered(task, FALSE)
    /\ UNCHANGED <<entry, made, row, socket, asker, promised, late, sent, faults>>

\* The transaction is refused by the tripwire, or fails: the buffer is kept.
FlushFails(a) ==
    /\ Live(a) /\ actor[a].awaiting # "none"
    /\ IF ~ actor[a].committed /\ ~ RowAccepts(a) THEN UNCHANGED faults
       ELSE faults < MaxFaults /\ faults' = faults + 1
    /\ actor' = [actor EXCEPT ![a] = [@ EXCEPT !.awaiting = "none", !.committed = FALSE]]
    /\ Answered(actor[a].awaiting, TRUE)
    /\ UNCHANGED <<entry, made, row, socket, asker, history, sent>>

-----------------------------------------------------------------------------
(* The sweep.                                                              *)

\* One pass reaches the entry: an idle actor is drained through its mailbox.
SweepDrains ==
    /\ Settled /\ sweep.at = "none" /\ stop.at = "up"
    /\ entry # 0 /\ Live(entry) /\ actor[entry].idle
    /\ actor' = [Queued(entry, "sweepDrain") EXCEPT ![entry].timer = FALSE]
    /\ sweep' = [of |-> entry, at |-> "draining"]
    /\ UNCHANGED <<entry, made, row, socket, asker, stop, history, sent, faults>>

\* Mutant: eviction does not look at the sockets again.
MayEvict_Unchecked(a) == entry = a

\* The synchronous recheck after the drain.
MayEvict(a) == Attached(a) = {} /\ entry = a

\* The drain was answered: recheck, mark and delete without an await between.
Evict ==
    /\ sweep.at = "drained"
    /\ IF MayEvict(sweep.of)
       THEN actor' = [actor EXCEPT ![sweep.of].evicted = TRUE] /\ entry' = 0
       ELSE UNCHANGED <<actor, entry>>
    /\ sweep' = [of |-> 0, at |-> "none"]
    /\ UNCHANGED <<made, row, socket, asker, stop, history, sent, faults>>

-----------------------------------------------------------------------------
(* Shutdown.                                                               *)

\* SIGTERM: no new sockets, no more sweeps; the actors in the map, hydrations
\* in flight included, are the ones to drain.
Signal ==
    /\ Settled /\ stop.at = "up"
    /\ stop' = [of |-> entry, at |-> IF entry = 0 THEN "closing" ELSE "listing"]
    /\ promised' = told
    /\ UNCHANGED <<entry, made, actor, row, socket, asker, sweep, told, late, sent, faults>>

\* Mutant: the sockets are closed and the process goes without awaiting drains.
StopDrains_NotAwaited ==
    /\ Settled /\ stop.at = "listing" /\ actor[stop.of].phase # "loading"
    /\ stop' = [stop EXCEPT !.at = "closing"]
    /\ UNCHANGED <<entry, made, actor, row, socket, asker, sweep, history, sent, faults>>

\* liveActors has resolved: drain the actor, unless its hydration failed.
StopDrains ==
    /\ Settled /\ stop.at = "listing" /\ actor[stop.of].phase # "loading"
    /\ IF Live(stop.of)
       THEN /\ actor' = [Queued(stop.of, "stopDrain") EXCEPT ![stop.of].timer = FALSE]
            /\ late' = (late \/ Behind(stop.of))
            /\ stop' = [stop EXCEPT !.at = "draining"]
       ELSE stop' = [stop EXCEPT !.at = "closing"] /\ UNCHANGED <<actor, late>>
    /\ UNCHANGED <<entry, made, row, socket, asker, sweep, told, promised, sent, faults>>

\* The drain settled, whether its flush failed or not: every socket is told to close.
StopCloses ==
    /\ stop.at = "drained" /\ stop' = [stop EXCEPT !.at = "closing"]
    /\ UNCHANGED <<entry, made, actor, row, socket, asker, sweep, history, sent, faults>>

\* The sockets are closed, the pool has ended behind its last transaction.
Exit ==
    /\ Settled /\ stop.at = "closing"
    /\ \A s \in Sockets : ~ socket[s].open
    /\ \A a \in Actors : actor[a].awaiting = "none"
    /\ stop' = [stop EXCEPT !.at = "exited"]
    /\ UNCHANGED <<entry, made, actor, row, socket, asker, sweep, history, sent, faults>>

-----------------------------------------------------------------------------

Clients ==
    \/ Abandon \/ Signal
    \/ \E s \in Sockets : Hello(s) \/ Close(s) \/ Command(s)

Process ==
    \/ SweepDrains \/ Evict \/ StopDrains \/ StopCloses \/ Exit
    \/ \E s \in Sockets : Attach(s)
    \/ \E a \in Actors :
          \/ HydrateSucceeds(a) \/ FlushTimerFires(a) \/ IdleWindowPasses(a)
          \/ RunTask(a) \/ DbCommits(a) \/ FlushSucceeds(a)

Failures == \E a \in Actors : HydrateFails(a) \/ FlushFails(a)

Next == Clients \/ Process \/ Failures

Spec == Init /\ [][Next]_vars

\* The event loop does not rest while a task can run, an answer or a timer is
\* due or the sweep has an actor to look at.  Sockets and callers owe nothing.
Fairness == WF_vars(Process \/ Failures)

FairSpec == Spec /\ Fairness

-----------------------------------------------------------------------------
(* What must hold.                                                         *)

Tasks == {"command", "abandon", "flush", "sweepDrain", "stopDrain"}

\* The state is well formed, and a socket in its handshake or attached names an
\* actor that has been asked for.
TypeOK ==
    /\ entry \in 0..made /\ made \in 0..MaxActors
    /\ actor \in [Actors -> [phase : {"unborn", "loading", "live", "gone"}, evicted : BOOLEAN,
                             seq : Nat, over : BOOLEAN, pending : Nat, mailbox : Seq(Tasks),
                             awaiting : Tasks \cup {"none"}, committed : BOOLEAN,
                             timer : BOOLEAN, idle : BOOLEAN]]
    /\ row \in [seq : Nat, over : BOOLEAN]
    /\ socket \in [Sockets -> [at : {"closed", "resolving", "checking", "attached"},
                               actor : 0..made, tries : 0..MaxTries, open : BOOLEAN]]
    /\ \A s \in Sockets : socket[s].at # "closed" => socket[s].actor # 0
    /\ asker \in 0..made
    /\ sweep \in [of : 0..made, at : {"none", "draining", "drained"}]
    /\ stop \in [of : 0..made,
                 at : {"up", "listing", "draining", "drained", "closing", "exited"}]
    /\ told \in Nat /\ promised \in 0..told /\ late \in BOOLEAN
    /\ sent \in 0..MaxCommands /\ faults \in 0..MaxFaults

\* INV-2 and INV-7 for the players: all live sockets of a game, whenever their
\* handshakes began, sit on one actor, the one the registry still hands out.
OneActor ==
    \A a \in Actors : Attached(a) # {} => entry = a /\ Live(a) /\ ~ actor[a].evicted

\* registry.ts: eviction preserves the single writer.  The actor the registry
\* hands out is never behind the row, so nothing it writes is refused.
SingleWriter ==
    \A a \in Actors : Live(a) /\ ~ actor[a].evicted => RowAccepts(a)

\* registry.ts: an evicted actor held zero sockets and an empty buffer; nor is
\* anything left for it to write.
EvictedIsEmpty ==
    \A a \in Actors : actor[a].evicted =>
        Attached(a) = {} /\ actor[a].awaiting = "none" /\ actor[a].pending = 0

\* Both hold, whichever flush failed before, unless something was queued behind
\* the drain of a passivation.
QuietEviction == ~ late => SingleWriter /\ EvictedIsEmpty

\* INV-5 across a graceful stop: what any socket had been told when the signal
\* arrived is in the row when the process exits, if no flush failed and nothing
\* was queued behind a passivation's drain.  What is accepted later, behind the
\* actor's own drain, is ShutdownLosesNothing's.
ShutdownKeepsTold ==
    stop.at = "exited" /\ faults = 0 /\ ~ late => row.seq >= promised

\* main.ts: a graceful shutdown loses nothing.
ShutdownLosesNothing ==
    stop.at = "exited" /\ faults = 0 /\ ~ late => row.seq >= told

\* DESIGN 6: an entry nobody is connected to leaves the map in the end, whichever
\* hydration or flush failed on the way, unless a socket attaches or the process
\* is stopping.
IdleIsEvicted ==
    \A a \in Actors :
        (entry = a /\ Attached(a) = {})
            ~> (entry # a \/ Attached(a) # {} \/ stop.at # "up")

=============================================================================
