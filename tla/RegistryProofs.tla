---------------------------- MODULE RegistryProofs ----------------------------
(***************************************************************************)
(* The registry and the stop of the process, for any number of sockets,    *)
(* hydrations, passivations, commands and failures: the sockets of a game  *)
(* sit on one actor, the one the registry hands out (IInv); an evicted     *)
(* actor has nothing left to write, so the next one is the only writer     *)
(* (Quiet, which needs the types); and a graceful stop leaves in the row   *)
(* what sockets had been told when it began (Kept).                        *)
(***************************************************************************)
EXTENDS Registry, TLAPS, SequenceTheorems

\* What the argument needs of the types.
Fields == {"phase", "evicted", "seq", "over", "pending", "mailbox", "awaiting", "committed",
           "timer", "idle"}
IsActor(x) == DOMAIN x = Fields /\ x = [f \in Fields |-> x[f]]

Shape ==
    /\ made \in 0..MaxActors /\ entry \in 0..made
    /\ actor = [a \in Actors |-> actor[a]] /\ \A a \in Actors : IsActor(actor[a])
    /\ socket \in [Sockets -> [at : {"closed", "resolving", "checking", "attached"}, actor : Nat,
                               tries : Nat, open : BOOLEAN]]

\* An actor that is being hydrated, or lives and is not evicted, is in the map.
OnlyTheEntry ==
    \A a \in Actors : actor[a].phase = "loading" \/ (Live(a) /\ ~ actor[a].evicted) => entry = a

\* The next actor has not been asked for.
NextIsUnborn == \A a \in Actors : a > made => actor[a].phase = "unborn"

\* A handshake past the hydration knows a live actor, an attached socket one that
\* is not evicted either.
Placed ==
    \A s \in Sockets : socket[s].at \in {"checking", "attached"} =>
        /\ socket[s].actor \in Actors /\ Live(socket[s].actor)
        /\ socket[s].at = "attached" => ~ actor[socket[s].actor].evicted

IInv == Shape /\ OnlyTheEntry /\ NextIsUnborn /\ Placed

\* The actor a passivation drains was live when it began, and a live actor stays so.
Sweeps == [of : Nat, at : {"none", "draining", "drained"}]
SweptIsLive == sweep \in Sweeps /\ (sweep.of # 0 => sweep.of \in Actors /\ Live(sweep.of))

LEMMA InitIInv == Init => IInv
<1> SUFFICES ASSUME Init PROVE IInv
  OBVIOUS
<1>1. IsActor(Unborn)
  BY DEF IsActor, Unborn, Fields
<1>2. Shape
  BY <1>1, RegistryAssumption DEF Init, Shape, Closed
<1>3. QED
  BY <1>2 DEF Init, IInv, OnlyTheEntry, NextIsUnborn, Placed, Live, Unborn, Closed

\* x becomes y without being born, hydrated, evicted or dropped.
Keeps(x, y) == IsActor(y) /\ y.phase = x.phase /\ y.evicted = x.evicted

\* No step ends the life of an actor.
LiveStays == \A a \in Actors : Live(a) => Live(a)'

\* What changes no actor's phase, no eviction, no entry and attaches nobody.
LEMMA AloneStep ==
    ASSUME IInv, UNCHANGED <<entry, made>>, actor' = [a \in Actors |-> actor'[a]],
           \A a \in Actors : Keeps(actor[a], actor'[a]),
           socket' \in [Sockets -> [at : {"closed", "resolving", "checking", "attached"},
                                    actor : Nat, tries : Nat, open : BOOLEAN]],
           \A s \in Sockets : socket'[s].at \in {"checking", "attached"} =>
               socket'[s].at = socket[s].at /\ socket'[s].actor = socket[s].actor
    PROVE  IInv' /\ LiveStays
<1> USE DEF IInv, Keeps
<1>1. Shape'
  BY DEF Shape
<1>2. OnlyTheEntry' /\ NextIsUnborn'
  BY DEF OnlyTheEntry, NextIsUnborn, Live
<1>3. Placed'
  BY DEF Placed, Live, Shape
<1>4. QED
  BY <1>1, <1>2, <1>3 DEF LiveStays, Live

\* One actor changes, and only in what the invariant does not speak of.
LEMMA OneChanges ==
    ASSUME IInv, NEW a \in Actors, NEW new, actor' = [actor EXCEPT ![a] = new], Keeps(actor[a], new),
           UNCHANGED <<entry, made, socket>>
    PROVE  IInv' /\ LiveStays
<1>1. actor' = [b \in Actors |-> actor'[b]] /\ \A b \in Actors : Keeps(actor[b], actor'[b])
  BY DEF IInv, Shape, Keeps
<1>2. QED
  BY <1>1, AloneStep DEF IInv, Shape

\* A task in a mailbox, the timer and the idle window.
LEMMA QueueStep ==
    ASSUME IInv, NEW a \in Actors, NEW task, UNCHANGED <<entry, made, socket>>,
           actor' = Queued(a, task) \/ actor' = [Queued(a, task) EXCEPT ![a].timer = FALSE]
    PROVE  IInv' /\ LiveStays
<1>1. PICK mailbox, timer : 
          actor' = [actor EXCEPT ![a] = [actor[a] EXCEPT !.mailbox = mailbox, !.timer = timer]]
  <2> DEFINE queued == [actor[a] EXCEPT !.mailbox = Append(@, task)]
  <2>1. Queued(a, task) = [actor EXCEPT ![a] = queued]
    BY DEF Queued, IInv, Shape
  <2>2. queued = [actor[a] EXCEPT !.mailbox = Append(actor[a].mailbox, task), !.timer = actor[a].timer]
    BY DEF IInv, Shape, IsActor, Fields
  <2>3. [queued EXCEPT !.timer = FALSE] =
            [actor[a] EXCEPT !.mailbox = Append(actor[a].mailbox, task), !.timer = FALSE]
    BY DEF IInv, Shape, IsActor, Fields
  <2> HIDE DEF queued
  <2>4. [Queued(a, task) EXCEPT ![a].timer = FALSE] = [actor EXCEPT ![a] = [queued EXCEPT !.timer = FALSE]]
    BY <2>1 DEF IInv, Shape
  <2>5. CASE actor' = Queued(a, task)
    BY <2>1, <2>2, <2>5
  <2>6. CASE actor' = [Queued(a, task) EXCEPT ![a].timer = FALSE]
    BY <2>3, <2>4, <2>6
  <2>7. QED
    BY <2>5, <2>6
<1>2. Keeps(actor[a], [actor[a] EXCEPT !.mailbox = mailbox, !.timer = timer])
  BY DEF IInv, Shape, IsActor, Fields, Keeps
<1>3. QED
  BY <1>1, <1>2, OneChanges

\* A task runs up to its await.
LEMMA RunTaskStep == ASSUME IInv, NEW a \in Actors, RunTask(a) PROVE IInv' /\ LiveStays
<1> DEFINE rest == [actor[a] EXCEPT !.mailbox = Tail(@)]
           accepted == [rest EXCEPT !.seq = @ + 1, !.pending = @ + 1]
           task == Head(actor[a].mailbox)
<1>1. PICK new \in {rest, [accepted EXCEPT !.awaiting = task, !.timer = FALSE],
                    [accepted EXCEPT !.timer = TRUE],
                    [rest EXCEPT !.seq = @ + 1, !.over = TRUE, !.awaiting = task],
                    [rest EXCEPT !.timer = FALSE, !.awaiting = "none"],
                    [rest EXCEPT !.timer = FALSE, !.awaiting = task]} :
          actor' = [actor EXCEPT ![a] = new]
  BY DEF RunTask
<1>2. IsActor(actor[a])
  BY DEF IInv, Shape
<1>3. Keeps(actor[a], rest)
  BY <1>2 DEF Keeps, IsActor, Fields
<1>4. Keeps(actor[a], accepted)
  BY <1>3 DEF Keeps, IsActor, Fields
<1> HIDE DEF rest, accepted, task
<1>5. Keeps(actor[a], new)
  BY <1>1, <1>3, <1>4 DEF Keeps, IsActor, Fields
<1>6. QED
  BY <1>1, <1>5, OneChanges DEF RunTask

LEMMA FlushSucceedsStep == ASSUME IInv, NEW a \in Actors, FlushSucceeds(a) PROVE IInv' /\ LiveStays
<1>1. PICK timer : actor' = [actor EXCEPT ![a] = [@ EXCEPT !.awaiting = "none", !.committed = FALSE,
                                                          !.pending = 0, !.timer = timer]]
  BY DEF FlushSucceeds
<1>2. Keeps(actor[a], [actor[a] EXCEPT !.awaiting = "none", !.committed = FALSE, !.pending = 0,
                                       !.timer = timer])
  BY DEF IInv, Shape, Keeps, IsActor, Fields
<1>3. QED
  BY <1>1, <1>2, OneChanges DEF FlushSucceeds

LEMMA FlushFailsStep == ASSUME IInv, NEW a \in Actors, FlushFails(a) PROVE IInv' /\ LiveStays
<1>1. Keeps(actor[a], [actor[a] EXCEPT !.awaiting = "none", !.committed = FALSE])
  BY DEF IInv, Shape, Keeps, IsActor, Fields
<1>2. QED
  BY <1>1, OneChanges DEF FlushFails

LEMMA DbCommitsStep == ASSUME IInv, NEW a \in Actors, DbCommits(a) PROVE IInv' /\ LiveStays
<1>1. Keeps(actor[a], [actor[a] EXCEPT !.committed = TRUE])
  BY DEF IInv, Shape, Keeps, IsActor, Fields
<1>2. actor' = [actor EXCEPT ![a] = [actor[a] EXCEPT !.committed = TRUE]]
  BY DEF DbCommits, IInv, Shape
<1>3. QED
  BY <1>1, <1>2, OneChanges DEF DbCommits

LEMMA IdleStep ==
    ASSUME IInv, NEW a \in Actors, NEW idle \in BOOLEAN, actor' = [actor EXCEPT ![a].idle = idle]
    PROVE  /\ actor' = [b \in Actors |-> actor'[b]]
           /\ \A b \in Actors : Keeps(actor[b], actor'[b])
<1>1. Keeps(actor[a], [actor[a] EXCEPT !.idle = idle])
  BY DEF IInv, Shape, Keeps, IsActor, Fields
<1>2. actor' = [actor EXCEPT ![a] = [actor[a] EXCEPT !.idle = idle]]
  BY DEF IInv, Shape
<1>3. QED
  BY <1>1, <1>2 DEF IInv, Shape, Keeps

\* getOrHydrate gives the cached actor, or a new one that becomes the entry: only
\* when there is none, so that no other is alive.
LEMMA GetOrHydrateGives ==
    ASSUME IInv, GetOrHydrate
    PROVE  /\ made' \in 0..MaxActors /\ entry' \in 0..made' /\ Resolved \in Nat
           /\ actor' = [a \in Actors |-> actor'[a]] /\ \A a \in Actors : IsActor(actor'[a])
           /\ OnlyTheEntry' /\ NextIsUnborn'
           /\ \A a \in Actors : Live(a) => actor'[a] = actor[a]
<1> USE RegistryAssumption DEF IInv, Shape
<1>1. CASE entry # 0
  BY <1>1 DEF GetOrHydrate, Resolved, OnlyTheEntry, NextIsUnborn, Live, Actors
<1>2. CASE entry = 0
  <2>1. made + 1 \in Actors /\ IsActor(Loading) /\ Loading.phase = "loading"
    BY <1>2 DEF GetOrHydrate, Actors, IsActor, Loading, Unborn, Fields
  <2>2. actor' = [actor EXCEPT ![made + 1] = Loading] /\ made' = made + 1 /\ entry' = made + 1
    BY <1>2 DEF GetOrHydrate
  <2>3. actor[made + 1].phase = "unborn"
    BY <2>1 DEF NextIsUnborn
  <2>4. \A a \in Actors : IF a = made + 1 THEN actor'[a] = Loading ELSE actor'[a] = actor[a]
    BY <2>1, <2>2
  <2>5. OnlyTheEntry'
    BY <1>2, <2>2, <2>4 DEF OnlyTheEntry, Live, Actors
  <2>6. NextIsUnborn'
    BY <2>2, <2>4 DEF NextIsUnborn, Actors
  <2>7. actor' = [a \in Actors |-> actor'[a]] /\ \A a \in Actors : IsActor(actor'[a])
    BY <2>1, <2>2, <2>4
  <2>8. \A a \in Actors : Live(a) => actor'[a] = actor[a]
    BY <2>3, <2>4 DEF Live
  <2>9. made' \in 0..MaxActors /\ entry' \in 0..made' /\ Resolved \in Nat
    BY <1>2, <2>1, <2>2 DEF Resolved, Actors
  <2>10. QED
    BY <2>5, <2>6, <2>7, <2>8, <2>9
<1>3. QED
  BY <1>1, <1>2

\* A socket that resolves its actor is not attached, and past it only with a live one.
LEMMA ResolvingStep ==
    ASSUME IInv, GetOrHydrate, NEW s \in Sockets, NEW tries \in Nat, NEW open \in BOOLEAN,
           socket' = Resolving(s, tries, open)
    PROVE  IInv' /\ LiveStays
<1> DEFINE new == [at |-> IF entry # 0 /\ Live(entry) THEN "checking" ELSE "resolving",
                   actor |-> Resolved, tries |-> tries, open |-> open]
<1>1. socket' = [socket EXCEPT ![s] = new]
  BY DEF Resolving
<1>2. /\ new.at \in {"checking", "resolving"} /\ new.actor \in Nat
      /\ new \in [at : {"closed", "resolving", "checking", "attached"}, actor : Nat, tries : Nat,
                  open : BOOLEAN]
  BY GetOrHydrateGives
<1>3. new.at = "checking" => new.actor \in Actors /\ Live(new.actor)
  <2>1. SUFFICES ASSUME new.at = "checking" PROVE new.actor \in Actors /\ Live(new.actor)
    OBVIOUS
  <2>2. entry # 0 /\ Live(entry)
    BY <2>1
  <2>3. QED
    BY <2>2, RegistryAssumption DEF Resolved, IInv, Shape, Actors
<1> HIDE DEF new
<1>4. Shape'
  BY <1>1, <1>2, GetOrHydrateGives DEF IInv, Shape
<1>5. Placed'
  <2>1. \A r \in Sockets : IF r = s THEN socket'[r] = new ELSE socket'[r] = socket[r]
    BY <1>1 DEF IInv, Shape
  <2>2. \A a \in Actors : Live(a) => Live(a)' /\ actor'[a] = actor[a]
    BY GetOrHydrateGives DEF Live
  <2>3. QED
    BY <1>2, <1>3, <2>1, <2>2 DEF IInv, Placed
<1>6. QED
  BY <1>4, <1>5, GetOrHydrateGives DEF IInv, LiveStays, Live

LEMMA HelloStep == ASSUME IInv, NEW s \in Sockets, Hello(s) PROVE IInv' /\ LiveStays
BY ResolvingStep DEF Hello

\* The hydrated actor was the entry while it was loading.
LEMMA HydrateSucceedsStep == ASSUME IInv, NEW a \in Actors, HydrateSucceeds(a) PROVE IInv' /\ LiveStays
<1>1. PICK mailbox : actor' = [actor EXCEPT ![a] =
                       [Unborn EXCEPT !.phase = "live", !.seq = row.seq, !.over = row.over,
                                      !.mailbox = mailbox]]
  BY DEF HydrateSucceeds
<1> DEFINE new == [Unborn EXCEPT !.phase = "live", !.seq = row.seq, !.over = row.over,
                                 !.mailbox = mailbox]
<1>2. IsActor(new) /\ new.phase = "live" /\ ~ new.evicted
  BY DEF IsActor, Unborn, Fields
<1> HIDE DEF new
<1>3. \A b \in Actors : IF b = a THEN actor'[b] = new ELSE actor'[b] = actor[b]
  BY <1>1 DEF new, IInv, Shape
<1>4. actor[a].phase = "loading" /\ entry = a /\ a <= made /\ a \in Nat
  BY DEF HydrateSucceeds, IInv, OnlyTheEntry, Shape, Actors
<1>5. \A s \in Sockets : IF socket[s].at = "resolving" /\ socket[s].actor = a
                         THEN socket'[s] = [socket[s] EXCEPT !.at = "checking"]
                         ELSE socket'[s] = socket[s]
  BY DEF HydrateSucceeds
<1>6. Shape'
  <2>1. actor' = [b \in Actors |-> actor'[b]] /\ \A b \in Actors : IsActor(actor'[b])
    BY <1>1, <1>2, <1>3 DEF IInv, Shape
  <2>2. socket' \in [Sockets -> [at : {"closed", "resolving", "checking", "attached"}, actor : Nat,
                                 tries : Nat, open : BOOLEAN]]
    BY DEF HydrateSucceeds, IInv, Shape
  <2>3. QED
    BY <2>1, <2>2 DEF HydrateSucceeds, IInv, Shape
<1>7. OnlyTheEntry' /\ NextIsUnborn'
  BY <1>2, <1>3, <1>4 DEF HydrateSucceeds, IInv, OnlyTheEntry, NextIsUnborn, Live, Shape
<1>8. Placed'
  <2>1. \A s \in Sockets : socket[s] \in [at : {"closed", "resolving", "checking", "attached"},
                                           actor : Nat, tries : Nat, open : BOOLEAN]
    BY DEF IInv, Shape
  <2>2. \A s \in Sockets : socket'[s] = socket[s] \/ (socket'[s].at = "checking" /\ socket'[s].actor = a)
    BY <1>5, <2>1
  <2>3. QED
    BY <1>2, <1>3, <1>4, <2>2 DEF IInv, Placed, Live
<1>9. LiveStays
  BY <1>2, <1>3, <1>4 DEF LiveStays, Live
<1>10. QED
  BY <1>6, <1>7, <1>8, <1>9 DEF IInv

\* Nobody is past the hydration of the actor that fails to load.
LEMMA HydrateFailsStep == ASSUME IInv, NEW a \in Actors, HydrateFails(a) PROVE IInv' /\ LiveStays
<1> DEFINE new == [actor[a] EXCEPT !.phase = "gone"]
<1>1. IsActor(new) /\ new.phase = "gone"
  BY DEF IInv, Shape, IsActor, Fields
<1>2. actor' = [actor EXCEPT ![a] = new]
  BY DEF HydrateFails, IInv, Shape
<1> HIDE DEF new
<1>3. \A b \in Actors : IF b = a THEN actor'[b] = new ELSE actor'[b] = actor[b]
  BY <1>2 DEF IInv, Shape
<1>4. actor[a].phase = "loading" /\ entry = a
  BY DEF HydrateFails, IInv, OnlyTheEntry
<1>5. \A s \in Sockets : socket'[s] = Closed \/ socket'[s] = socket[s]
  BY DEF HydrateFails
<1>6. Shape'
  <2>1. socket' \in [Sockets -> [at : {"closed", "resolving", "checking", "attached"}, actor : Nat,
                                 tries : Nat, open : BOOLEAN]]
    BY DEF HydrateFails, Closed, IInv, Shape
  <2>2. QED
    BY <1>1, <1>2, <1>3, <2>1 DEF HydrateFails, IInv, Shape
<1>7. OnlyTheEntry' /\ NextIsUnborn'
  <2>1. \A b \in Actors : b > made => b # a
    BY <1>4 DEF IInv, NextIsUnborn
  <2>2. QED
    BY <1>1, <1>3, <1>4, <2>1 DEF HydrateFails, IInv, OnlyTheEntry, NextIsUnborn, Live
<1>8. Placed'
  BY <1>3, <1>4, <1>5 DEF IInv, Placed, Live, Closed
<1>9. LiveStays
  BY <1>3, <1>4 DEF LiveStays, Live
<1>10. QED
  BY <1>6, <1>7, <1>8, <1>9 DEF IInv

\* An actor that takes a socket is live and not evicted, so it is the entry.
LEMMA AttachStep == ASSUME IInv, NEW s \in Sockets, Attach(s) PROVE IInv' /\ LiveStays
<1> DEFINE a == socket[s].actor
<1>1. a \in Actors /\ Live(a)
  BY DEF Attach, IInv, Placed
<1>2. socket[s].tries \in Nat /\ socket[s].open \in BOOLEAN
  BY DEF IInv, Shape
<1>3. CASE ~ Refuses(a)
  <2>1. actor' = [actor EXCEPT ![a].idle = FALSE] /\ socket' = [socket EXCEPT ![s].at = "attached"]
    BY <1>3 DEF Attach
  <2>2. actor' = [b \in Actors |-> actor'[b]] /\ \A b \in Actors : Keeps(actor[b], actor'[b])
    BY <1>1, <2>1, IdleStep
  <2>3. Shape'
    <3>1. made' \in 0..MaxActors /\ entry' \in 0..made'
      BY <1>3 DEF Attach, IInv, Shape
    <3>2. socket' \in [Sockets -> [at : {"closed", "resolving", "checking", "attached"},
                                   actor : Nat, tries : Nat, open : BOOLEAN]]
      BY <2>1 DEF IInv, Shape
    <3>3. \A b \in Actors : IsActor(actor'[b])
      BY <2>2 DEF Keeps
    <3> QED BY <2>2, <3>1, <3>2, <3>3 DEF Shape
  <2>4. OnlyTheEntry' /\ NextIsUnborn'
    BY <1>3, <2>2 DEF Attach, IInv, OnlyTheEntry, NextIsUnborn, Keeps, Live
  <2>5. ~ actor[a].evicted
    BY <1>3 DEF Refuses
  <2>6. \A r \in Sockets : IF r = s THEN socket'[r].at = "attached" /\ socket'[r].actor = a
                            ELSE socket'[r] = socket[r]
    BY <2>1 DEF IInv, Shape
  <2> HIDE DEF a
  <2>7. Placed'
    BY <1>1, <2>2, <2>5, <2>6 DEF IInv, Placed, Keeps, Live
  <2>8. QED
    BY <2>2, <2>3, <2>4, <2>7 DEF IInv, LiveStays, Keeps, Live
<1>4. CASE Refuses(a) /\ socket[s].tries + 1 < MaxTries
  <2>1. GetOrHydrate /\ socket' = Resolving(s, socket[s].tries + 1, socket[s].open)
    BY <1>4 DEF Attach
  <2>2. QED
    BY <1>2, <2>1, ResolvingStep
<1>5. CASE Refuses(a) /\ ~ (socket[s].tries + 1 < MaxTries)
  <2>1. socket' = [socket EXCEPT ![s] = Closed] /\ UNCHANGED <<entry, made, actor>>
    BY <1>5 DEF Attach
  <2>2. QED
    BY <2>1, AloneStep DEF Closed, IInv, Shape, Keeps
<1>6. QED
  BY <1>3, <1>4, <1>5

LEMMA CloseStep == ASSUME IInv, NEW s \in Sockets, Close(s) PROVE IInv' /\ LiveStays
<1>1. CASE socket[s].at = "attached"
  <2>1. socket[s].actor \in Actors
    BY <1>1 DEF IInv, Placed
  <2>2. actor' = [b \in Actors |-> actor'[b]] /\ \A b \in Actors : Keeps(actor[b], actor'[b])
    BY <1>1, <2>1, IdleStep DEF Close
  <2>3. socket' = [socket EXCEPT ![s] = Closed]
    BY <1>1 DEF Close
  <2>4. socket' \in [Sockets -> [at : {"closed", "resolving", "checking", "attached"}, actor : Nat,
                                 tries : Nat, open : BOOLEAN]]
    BY <2>3 DEF Closed, IInv, Shape
  <2>5. \A r \in Sockets : socket'[r] = socket[r] \/ socket'[r].at = "closed"
    BY <2>3 DEF Closed, IInv, Shape
  <2>6. QED
    BY <2>2, <2>4, <2>5, AloneStep DEF Close
<1>2. CASE socket[s].at # "attached"
  <2>1. socket' = [socket EXCEPT ![s].open = FALSE] /\ UNCHANGED <<entry, made, actor>>
    BY <1>2 DEF Close
  <2>2. socket' \in [Sockets -> [at : {"closed", "resolving", "checking", "attached"}, actor : Nat,
                                 tries : Nat, open : BOOLEAN]]
    BY <2>1 DEF IInv, Shape
  <2>3. \A r \in Sockets : socket'[r].at = socket[r].at /\ socket'[r].actor = socket[r].actor
    BY <2>1 DEF IInv, Shape
  <2>4. QED
    BY <2>1, <2>2, <2>3, AloneStep DEF IInv, Shape, Keeps
<1>3. QED
  BY <1>1, <1>2

\* abandon hydrates on demand, or queues a task.
LEMMA AbandonStep == ASSUME IInv, Abandon PROVE IInv' /\ LiveStays
<1>1. CASE entry # 0 /\ Live(entry)
  BY <1>1, QueueStep, RegistryAssumption DEF Abandon, IInv, Shape, Actors
<1>2. CASE ~ (entry # 0 /\ Live(entry))
  <2>1. GetOrHydrate /\ UNCHANGED socket
    BY <1>2 DEF Abandon
  <2>2. Shape' /\ Placed'
    BY <2>1, GetOrHydrateGives DEF IInv, Shape, Placed, Live
  <2>3. QED
    BY <2>1, <2>2, GetOrHydrateGives DEF IInv, LiveStays, Live
<1>3. QED
  BY <1>1, <1>2

\* Eviction rechecks the sockets and the entry, and drops the entry with the actor.
LEMMA EvictStep == ASSUME IInv, SweptIsLive, Evict PROVE IInv' /\ LiveStays
<1> DEFINE a == sweep.of
<1>1. CASE MayEvict(a)
  <2>0. entry' = 0 /\ made' = made /\ socket' = socket
    BY <1>1 DEF Evict
  <2>1. entry = a /\ actor' = [actor EXCEPT ![a].evicted = TRUE]
    BY <1>1 DEF Evict, MayEvict
  <2>2. CASE a \in Actors
    <3> DEFINE new == [actor[a] EXCEPT !.evicted = TRUE]
    <3>1. IsActor(new) /\ new.phase = actor[a].phase /\ new.evicted
      BY <2>2 DEF IInv, Shape, IsActor, Fields
    <3>2. actor' = [actor EXCEPT ![a] = new]
      BY <2>1, <2>2 DEF IInv, Shape
    <3> HIDE DEF new, a
    <3>3. \A b \in Actors : IF b = a THEN actor'[b] = new ELSE actor'[b] = actor[b]
      BY <3>2 DEF IInv, Shape
    <3>4. Shape'
      <4>1. actor' = [b \in Actors |-> actor'[b]] /\ \A b \in Actors : IsActor(actor'[b])
        BY <3>1, <3>2, <3>3 DEF IInv, Shape
      <4>2. QED
        BY <2>0, <4>1, RegistryAssumption DEF IInv, Shape
    <3>5. \A s \in Sockets : socket[s].at = "attached" => socket[s].actor # a
      BY <1>1 DEF MayEvict, Attached
    <3>6. OnlyTheEntry' /\ NextIsUnborn'
      <4>1. Live(a) /\ a <= made
        BY <2>1, <2>2, RegistryAssumption DEF a, IInv, Shape, Actors, SweptIsLive
      <4>2. QED
        BY <2>0, <2>1, <3>1, <3>3, <4>1 DEF IInv, OnlyTheEntry, NextIsUnborn, Live
    <3>7. Placed'
      BY <2>0, <3>1, <3>3, <3>5 DEF IInv, Placed, Live
    <3>8. QED
      BY <3>1, <3>3, <3>4, <3>6, <3>7 DEF IInv, LiveStays, Live
  <2>3. CASE a \notin Actors
    <3>1. actor' = actor
      BY <2>1, <2>3 DEF IInv, Shape
    <3>2. QED
      <4>1. \A b \in Actors : b # entry
        BY <2>1, <2>3
      <4>2. Shape'
        BY <2>0, <3>1, RegistryAssumption DEF IInv, Shape
      <4>3. QED
        BY <2>0, <3>1, <4>1, <4>2
           DEF IInv, OnlyTheEntry, NextIsUnborn, Placed, Live, LiveStays
  <2>4. QED
    BY <2>2, <2>3
<1>2. CASE ~ MayEvict(a)
  BY <1>2, AloneStep DEF Evict, IInv, Shape, Keeps
<1>3. QED
  BY <1>1, <1>2

LEMMA ClientsStep == IInv /\ Clients => IInv' /\ LiveStays
<1> SUFFICES ASSUME IInv, Clients PROVE IInv' /\ LiveStays
  OBVIOUS
<1>1. CASE Abandon
  BY <1>1, AbandonStep
<1>2. CASE Signal
  BY <1>2, AloneStep DEF Signal, IInv, Shape, Keeps
<1>3. CASE \E s \in Sockets : Hello(s) \/ Close(s)
  BY <1>3, HelloStep, CloseStep
<1>4. CASE \E s \in Sockets : Command(s)
  <2>1. PICK s \in Sockets : Command(s)
    BY <1>4
  <2>2. socket[s].actor \in Actors
    BY <2>1 DEF Command, IInv, Placed
  <2>3. QED
    BY <2>1, <2>2, QueueStep DEF Command
<1>5. QED
  BY <1>1, <1>2, <1>3, <1>4 DEF Clients

LEMMA ProcessStep == IInv /\ SweptIsLive /\ Process => IInv' /\ LiveStays
<1> SUFFICES ASSUME IInv, SweptIsLive, Process PROVE IInv' /\ LiveStays
  OBVIOUS
<1>1. CASE SweepDrains
  <2>1. entry \in Actors
    BY <1>1, RegistryAssumption DEF SweepDrains, IInv, Shape, Actors
  <2>2. QED
    BY <1>1, <2>1, QueueStep DEF SweepDrains
<1>2. CASE Evict
  BY <1>2, EvictStep
<1>3. CASE StopDrains
  <2>1. CASE Live(stop.of) /\ stop.of \in Actors
    BY <1>3, <2>1, QueueStep DEF StopDrains
  <2>2. CASE Live(stop.of) /\ stop.of \notin Actors
    <3>1. actor' = actor /\ UNCHANGED <<entry, made, socket>>
      BY <1>3, <2>2 DEF StopDrains, Queued, IInv, Shape
    <3>2. QED
      BY <3>1, AloneStep DEF IInv, Shape, Keeps
  <2>3. CASE ~ Live(stop.of)
    BY <1>3, <2>3, AloneStep DEF StopDrains, IInv, Shape, Keeps
  <2>4. QED
    BY <2>1, <2>2, <2>3
<1>4. CASE StopCloses \/ Exit
  BY <1>4, AloneStep DEF StopCloses, Exit, IInv, Shape, Keeps
<1>5. CASE \E s \in Sockets : Attach(s)
  BY <1>5, AttachStep
<1>6. CASE \E a \in Actors :
               HydrateSucceeds(a) \/ RunTask(a) \/ DbCommits(a) \/ FlushSucceeds(a)
  BY <1>6, HydrateSucceedsStep, RunTaskStep, DbCommitsStep, FlushSucceedsStep
<1>7. CASE \E a \in Actors : FlushTimerFires(a)
  BY <1>7, QueueStep DEF FlushTimerFires
<1>8. CASE \E a \in Actors : IdleWindowPasses(a)
  <2>1. PICK a \in Actors : IdleWindowPasses(a)
    BY <1>8
  <2>2. actor' = [b \in Actors |-> actor'[b]] /\ \A b \in Actors : Keeps(actor[b], actor'[b])
    BY <2>1, IdleStep DEF IdleWindowPasses
  <2>3. QED
    BY <2>1, <2>2, AloneStep DEF IdleWindowPasses, IInv, Shape
<1>9. QED
  BY <1>1, <1>2, <1>3, <1>4, <1>5, <1>6, <1>7, <1>8 DEF Process

\* A sweep turns to a live actor, and ends otherwise.
LEMMA SweepStep ==
    ASSUME IInv, SweptIsLive, Next
    PROVE  /\ sweep' \in Sweeps
           /\ sweep'.of # 0 => sweep'.of = sweep.of \/ (sweep'.of \in Actors /\ Live(sweep'.of))
<1>1. ASSUME NEW task, NEW failed, Answered(task, failed)
      PROVE  sweep' \in Sweeps /\ (sweep'.of # 0 => sweep'.of = sweep.of)
  BY <1>1 DEF Answered, SweptIsLive, Sweeps
<1>2. CASE SweepDrains
  BY <1>2, RegistryAssumption DEF SweepDrains, Sweeps, IInv, Shape, Actors, Live
<1>3. CASE Evict
  BY <1>3 DEF Evict, Sweeps
<1>4. CASE \E a \in Actors : RunTask(a) \/ FlushSucceeds(a) \/ FlushFails(a)
  <2>1. (\E task, failed : Answered(task, failed)) \/ UNCHANGED sweep
    BY <1>4 DEF RunTask, FlushSucceeds, FlushFails
  <2>2. QED
    BY <1>1, <2>1 DEF SweptIsLive
<1>5. CASE UNCHANGED sweep
  BY <1>5 DEF SweptIsLive
<1>6. ASSUME ~ SweepDrains, ~ Evict,
             ~ \E a \in Actors : RunTask(a) \/ FlushSucceeds(a) \/ FlushFails(a)
      PROVE  UNCHANGED sweep
  BY <1>6 DEF Next, Clients, Process, Failures, Abandon, Signal, Hello, Close, Command, StopDrains,
              StopCloses, Exit, Attach, HydrateSucceeds, HydrateFails, FlushTimerFires,
              IdleWindowPasses, DbCommits
<1>7. QED
  BY <1>2, <1>3, <1>4, <1>5, <1>6

LEMMA NextIInv == IInv /\ SweptIsLive /\ [Next]_vars => (IInv /\ SweptIsLive)'
<1> SUFFICES ASSUME IInv, SweptIsLive, [Next]_vars PROVE (IInv /\ SweptIsLive)'
  OBVIOUS
<1>1. CASE Next
  <2>1. ASSUME Failures PROVE IInv' /\ LiveStays
    BY <2>1, HydrateFailsStep, FlushFailsStep DEF Failures
  <2>2. IInv' /\ LiveStays
    BY <1>1, <2>1, ClientsStep, ProcessStep DEF Next
  <2>3. QED
    BY <1>1, <2>2, SweepStep DEF SweptIsLive, LiveStays, Live
<1>2. CASE UNCHANGED vars
  <2>1. IInv'
    BY <1>2, AloneStep DEF vars, IInv, Shape, Keeps
  <2>2. QED
    BY <1>2, <2>1 DEF vars, SweptIsLive, Live
<1>3. QED
  BY <1>1, <1>2

\* All live sockets of a game sit on one actor, the one the registry hands out,
\* however hydrations, handshakes, passivations, failures and the shutdown interleave.
THEOREM SocketsShareOneActor == Spec => []OneActor
<1>1. Init => SweptIsLive
  BY DEF Init, SweptIsLive, Sweeps
<1>2. Spec => [](IInv /\ SweptIsLive)
  BY InitIInv, NextIInv, <1>1, PTL DEF Spec
<1>3. IInv => OneActor
  BY DEF IInv, OneActor, OnlyTheEntry, Placed, Attached
<1>4. QED
  BY <1>2, <1>3, PTL

-----------------------------------------------------------------------------
(* Types, and what each step does to the actor it touches.                 *)

ActorType == [phase : {"unborn", "loading", "live", "gone"}, evicted : BOOLEAN,
              seq : Nat, over : BOOLEAN, pending : Nat, mailbox : Seq(Tasks),
              awaiting : Tasks \cup {"none"}, committed : BOOLEAN,
              timer : BOOLEAN, idle : BOOLEAN]

\* Only actor a changes, and stays typed.
Touches(a) ==
    /\ actor' \in [Actors -> ActorType]
    /\ \A b \in Actors : b # a => actor'[b] = actor[b]

\* y is x as far as the game, its flush and its life go.
SameGame(x, y) ==
    /\ y.phase = x.phase /\ y.evicted = x.evicted /\ y.seq = x.seq /\ y.over = x.over
    /\ y.pending = x.pending /\ y.awaiting = x.awaiting /\ y.committed = x.committed

SameTasks(x, y) == SameGame(x, y) /\ y.mailbox = x.mailbox /\ y.timer = x.timer

LEMMA UnbornIsTyped == Unborn \in ActorType /\ Loading \in ActorType
<1>1. <<>> \in Seq(Tasks)
  OBVIOUS
<1>2. Unborn \in ActorType
  BY <1>1 DEF Unborn, ActorType
<1> QED BY <1>2 DEF Loading, ActorType

LEMMA Replaced ==
    ASSUME TypeOK, NEW a \in Actors, NEW new \in ActorType, actor' = [actor EXCEPT ![a] = new]
    PROVE  Touches(a) /\ actor'[a] = new
BY DEF Touches, TypeOK, ActorType

LEMMA QueueEffect ==
    ASSUME TypeOK, NEW a \in Actors, NEW task \in Tasks,
           actor' = Queued(a, task) \/ actor' = [Queued(a, task) EXCEPT ![a].timer = FALSE]
    PROVE  /\ Touches(a) /\ SameGame(actor[a], actor'[a])
           /\ actor'[a].mailbox = Append(actor[a].mailbox, task)
           /\ actor'[a].timer \in {actor[a].timer, FALSE}
<1> DEFINE x == actor[a]
           m == Append(x.mailbox, task)
           q == [x EXCEPT !.mailbox = m]
<1>1. x \in ActorType /\ actor \in [Actors -> ActorType]
  BY DEF TypeOK, ActorType
<1>2. m \in Seq(Tasks)
  BY <1>1 DEF ActorType
<1>3. Queued(a, task) = [actor EXCEPT ![a] = q]
  BY <1>1 DEF Queued
<1> HIDE DEF m, x
<1>4. /\ q \in ActorType /\ SameGame(x, q) /\ q.mailbox = m /\ q.timer = x.timer
  BY <1>1, <1>2 DEF ActorType, SameGame
<1> HIDE DEF q
<1>5. CASE actor' = Queued(a, task)
  <2>1. actor' = [actor EXCEPT ![a] = q]
    BY <1>3, <1>5
  <2>2. Touches(a) /\ actor'[a] = q
    BY <1>4, <2>1, Replaced
  <2> QED BY <1>4, <2>2 DEF x, m
<1>6. CASE actor' = [Queued(a, task) EXCEPT ![a].timer = FALSE]
  <2> DEFINE r == [q EXCEPT !.timer = FALSE]
  <2>1. r \in ActorType /\ SameGame(x, r) /\ r.mailbox = m /\ r.timer = FALSE
    BY <1>4 DEF ActorType, SameGame
  <2>2. actor' = [actor EXCEPT ![a] = r]
    BY <1>1, <1>3, <1>4, <1>6
  <2> HIDE DEF r
  <2> QED BY <2>1, <2>2, Replaced DEF x, m
<1> QED BY <1>5, <1>6

LEMMA IdleEffect ==
    ASSUME TypeOK, NEW a \in Actors, NEW idle \in BOOLEAN, actor' = [actor EXCEPT ![a].idle = idle]
    PROVE  Touches(a) /\ SameTasks(actor[a], actor'[a])
<1> DEFINE x == actor[a]
           y == [x EXCEPT !.idle = idle]
<1>1. x \in ActorType /\ actor' = [actor EXCEPT ![a] = y]
  BY DEF TypeOK, ActorType
<1> HIDE DEF x
<1>2. y \in ActorType /\ SameTasks(x, y)
  BY <1>1 DEF ActorType, SameTasks, SameGame
<1> HIDE DEF y
<1> QED BY <1>1, <1>2, Replaced DEF x

\* What the head of the mailbox does, task by task.
RanCommand(x, y) ==
    /\ Head(x.mailbox) = "command" /\ y.seq = x.seq + 1 /\ y.over = x.over
    /\ y.pending = x.pending + 1 /\ y.awaiting \in {"none", "command"}

RanAbandon(x, y) ==
    /\ Head(x.mailbox) = "abandon" /\ y.seq = x.seq + 1 /\ y.over /\ ~ x.over
    /\ y.pending = x.pending /\ y.awaiting = "abandon" /\ y.timer = x.timer

RanNothing(x, y) ==
    /\ Head(x.mailbox) \in {"command", "abandon"} /\ y.seq = x.seq /\ y.over = x.over
    /\ y.pending = x.pending /\ y.awaiting = "none" /\ y.timer = x.timer

RanFlush(x, y) ==
    /\ Head(x.mailbox) \in {"flush", "sweepDrain", "stopDrain"}
    /\ y.seq = x.seq /\ y.over = x.over
    /\ y.pending = x.pending /\ ~ y.timer
    /\ y.awaiting = IF x.pending = 0 THEN "none" ELSE Head(x.mailbox)

Ran(a) ==
    LET x == actor[a]
        y == actor'[a]
    IN  \/ RanCommand(x, y) /\ Broadcast(a, y.seq) /\ UNCHANGED <<sweep, stop>>
        \/ RanAbandon(x, y) /\ UNCHANGED <<told, sweep, stop>>
        \/ RanNothing(x, y) /\ UNCHANGED <<told, sweep, stop>>
        \/ RanFlush(x, y) /\ x.pending = 0 /\ Answered(Head(x.mailbox), FALSE) /\ UNCHANGED told
        \/ RanFlush(x, y) /\ x.pending # 0 /\ UNCHANGED <<told, sweep, stop>>

LEMMA RunTaskEffect ==
    ASSUME TypeOK, NEW a \in Actors, RunTask(a)
    PROVE  /\ Touches(a) /\ Live(a) /\ actor[a].mailbox # <<>> /\ actor[a].awaiting = "none"
           /\ actor'[a].phase = actor[a].phase /\ actor'[a].evicted = actor[a].evicted
           /\ actor'[a].committed = actor[a].committed
           /\ actor'[a].mailbox = Tail(actor[a].mailbox)
           /\ Ran(a)
           /\ UNCHANGED <<entry, made, row, socket, asker, promised, late, sent, faults>>
<1> DEFINE x == actor[a]
           task == Head(x.mailbox)
           rest == [x EXCEPT !.mailbox = Tail(@)]
           accepted == [rest EXCEPT !.seq = @ + 1, !.pending = @ + 1]
           Effect(y) == /\ Touches(a) /\ actor'[a] = y
                        /\ y.phase = x.phase /\ y.evicted = x.evicted /\ y.committed = x.committed
                        /\ y.mailbox = Tail(x.mailbox)
<1>1. /\ x \in ActorType /\ Live(a) /\ x.mailbox # <<>> /\ x.awaiting = "none"
      /\ actor \in [Actors -> ActorType]
  BY DEF RunTask, Runnable, TypeOK, ActorType
<1>2. Tail(x.mailbox) \in Seq(Tasks) /\ task \in Tasks
  BY <1>1 DEF ActorType
<1> HIDE DEF x, task
<1>3. /\ rest \in ActorType /\ rest.phase = x.phase /\ rest.evicted = x.evicted
      /\ rest.committed = x.committed /\ rest.mailbox = Tail(x.mailbox)
      /\ rest.seq = x.seq /\ rest.over = x.over /\ rest.pending = x.pending
      /\ rest.timer = x.timer /\ rest.awaiting = x.awaiting
  BY <1>1, <1>2 DEF ActorType
<1> HIDE DEF rest
<1>4. rest.seq + 1 \in Nat /\ rest.pending + 1 \in Nat
  BY <1>3 DEF ActorType
<1>5. /\ accepted \in ActorType /\ accepted.phase = x.phase /\ accepted.evicted = x.evicted
      /\ accepted.committed = x.committed /\ accepted.mailbox = Tail(x.mailbox)
      /\ accepted.seq = x.seq + 1 /\ accepted.over = x.over /\ accepted.pending = x.pending + 1
      /\ accepted.awaiting = x.awaiting
  BY <1>3, <1>4 DEF ActorType
<1>6. ASSUME NEW y \in ActorType, actor' = [actor EXCEPT ![a] = y],
             y.phase = x.phase, y.evicted = x.evicted, y.committed = x.committed,
             y.mailbox = Tail(x.mailbox)
      PROVE  Effect(y)
  BY <1>6, Replaced DEF x
<1> DEFINE full == accepted.pending >= FlushThreshold
<1>7. /\ UNCHANGED <<entry, made, row, socket, asker, promised, late, sent, faults>>
      /\ \/ /\ task = "command" /\ ~ rest.over
            /\ actor' = [actor EXCEPT ![a] =
                    IF full THEN [accepted EXCEPT !.awaiting = task, !.timer = FALSE]
                    ELSE [accepted EXCEPT !.timer = TRUE]]
            /\ Broadcast(a, accepted.seq) /\ UNCHANGED <<sweep, stop>>
         \/ /\ task = "abandon" /\ ~ rest.over
            /\ actor' = [actor EXCEPT ![a] =
                    [rest EXCEPT !.seq = @ + 1, !.over = TRUE, !.awaiting = task]]
            /\ UNCHANGED <<told, sweep, stop>>
         \/ /\ task \in {"command", "abandon"} /\ rest.over
            /\ actor' = [actor EXCEPT ![a] = rest] /\ UNCHANGED <<told, sweep, stop>>
         \/ /\ task \in {"flush", "sweepDrain", "stopDrain"}
            /\ actor' = [actor EXCEPT ![a] =
                    [rest EXCEPT !.timer = FALSE,
                                 !.awaiting = IF rest.pending = 0 THEN "none" ELSE task]]
            /\ IF rest.pending = 0 THEN Answered(task, FALSE) ELSE UNCHANGED <<sweep, stop>>
            /\ UNCHANGED told
  BY DEF RunTask, x, task, rest
<1> HIDE DEF accepted, full
<1>8. CASE /\ task = "command" /\ ~ rest.over
           /\ actor' = [actor EXCEPT ![a] =
                    IF full THEN [accepted EXCEPT !.awaiting = task, !.timer = FALSE]
                    ELSE [accepted EXCEPT !.timer = TRUE]]
           /\ Broadcast(a, accepted.seq) /\ UNCHANGED <<sweep, stop>>
  <2> DEFINE y == IF full THEN [accepted EXCEPT !.awaiting = task, !.timer = FALSE]
                  ELSE [accepted EXCEPT !.timer = TRUE]
  <2>1. /\ y \in ActorType /\ y.phase = x.phase /\ y.evicted = x.evicted
        /\ y.committed = x.committed /\ y.mailbox = Tail(x.mailbox)
        /\ y.seq = accepted.seq /\ y.seq = x.seq + 1 /\ y.over = x.over
        /\ y.pending = x.pending + 1 /\ y.awaiting \in {"none", "command"}
    BY <1>1, <1>2, <1>5, <1>8 DEF ActorType
  <2>2. actor' = [actor EXCEPT ![a] = y]
    BY <1>8
  <2> HIDE DEF y
  <2>3. Effect(y)
    BY <1>6, <2>1, <2>2
  <2>4. RanCommand(x, y) /\ Broadcast(a, y.seq)
    BY <1>8, <2>1 DEF RanCommand, task
  <2> QED BY <1>1, <1>7, <1>8, <2>3, <2>4 DEF x, Ran
<1>9. CASE /\ task = "abandon" /\ ~ rest.over
           /\ actor' = [actor EXCEPT ![a] =
                    [rest EXCEPT !.seq = @ + 1, !.over = TRUE, !.awaiting = task]]
           /\ UNCHANGED <<told, sweep, stop>>
  <2> DEFINE n == rest.seq + 1
             y == [rest EXCEPT !.seq = n, !.over = TRUE, !.awaiting = task]
  <2>1. actor' = [actor EXCEPT ![a] = y]
    BY <1>3, <1>9
  <2>2. n \in Nat /\ n = x.seq + 1
    BY <1>3, <1>4
  <2> HIDE DEF n
  <2>3. /\ y \in ActorType /\ y.phase = x.phase /\ y.evicted = x.evicted
        /\ y.committed = x.committed /\ y.mailbox = Tail(x.mailbox)
        /\ y.seq = n /\ y.over /\ ~ x.over /\ y.timer = x.timer
        /\ y.pending = x.pending /\ y.awaiting = "abandon"
    BY <1>2, <1>3, <1>9, <2>2 DEF ActorType
  <2> HIDE DEF y
  <2>4. Effect(y)
    BY <1>6, <2>1, <2>3
  <2>5. RanAbandon(x, y)
    BY <1>9, <2>2, <2>3 DEF RanAbandon, task
  <2> QED BY <1>1, <1>7, <1>9, <2>4, <2>5 DEF x, Ran
<1>10. CASE /\ task \in {"command", "abandon"} /\ rest.over
            /\ actor' = [actor EXCEPT ![a] = rest] /\ UNCHANGED <<told, sweep, stop>>
  <2>1. Effect(rest)
    BY <1>3, <1>6, <1>10
  <2>2. RanNothing(x, rest)
    BY <1>1, <1>3, <1>10 DEF RanNothing, task
  <2> QED BY <1>1, <1>7, <1>10, <2>1, <2>2 DEF x, Ran
<1>11. CASE /\ task \in {"flush", "sweepDrain", "stopDrain"}
            /\ actor' = [actor EXCEPT ![a] =
                    [rest EXCEPT !.timer = FALSE,
                                 !.awaiting = IF rest.pending = 0 THEN "none" ELSE task]]
            /\ IF rest.pending = 0 THEN Answered(task, FALSE) ELSE UNCHANGED <<sweep, stop>>
            /\ UNCHANGED told
  <2> DEFINE y == [rest EXCEPT !.timer = FALSE,
                               !.awaiting = IF rest.pending = 0 THEN "none" ELSE task]
  <2>1. actor' = [actor EXCEPT ![a] = y]
    BY <1>11
  <2>2. /\ y \in ActorType /\ y.phase = x.phase /\ y.evicted = x.evicted
        /\ y.committed = x.committed /\ y.mailbox = Tail(x.mailbox)
        /\ y.seq = x.seq /\ y.over = x.over /\ ~ y.timer /\ y.pending = x.pending
        /\ y.awaiting = IF x.pending = 0 THEN "none" ELSE task
    BY <1>2, <1>3, <1>11 DEF ActorType
  <2> HIDE DEF y
  <2>3. Effect(y)
    BY <1>6, <2>1, <2>2
  <2>4. RanFlush(x, y)
    BY <1>11, <2>2 DEF RanFlush, task
  <2>5. \/ x.pending = 0 /\ Answered(Head(x.mailbox), FALSE)
        \/ x.pending # 0 /\ UNCHANGED <<sweep, stop>>
    BY <1>3, <1>11 DEF task
  <2> QED BY <1>1, <1>7, <1>11, <2>3, <2>4, <2>5 DEF x, Ran
<1> QED BY <1>7, <1>8, <1>9, <1>10, <1>11

\* A flush in flight commits, is answered or fails: only its own actor changes.
FlushStep(x, y) ==
    /\ y.phase = x.phase /\ y.evicted = x.evicted /\ y.seq = x.seq /\ y.over = x.over
    /\ y.mailbox = x.mailbox

LEMMA DbCommitsEffect ==
    ASSUME TypeOK, NEW a \in Actors, DbCommits(a)
    PROVE  /\ Touches(a) /\ FlushStep(actor[a], actor'[a]) /\ actor'[a].committed
           /\ actor'[a].awaiting = actor[a].awaiting /\ actor'[a].pending = actor[a].pending
           /\ actor'[a].timer = actor[a].timer
<1> DEFINE x == actor[a]
           y == [x EXCEPT !.committed = TRUE]
<1>1. x \in ActorType /\ actor' = [actor EXCEPT ![a] = y]
  BY DEF TypeOK, ActorType, DbCommits
<1> HIDE DEF x
<1>2. /\ y \in ActorType /\ FlushStep(x, y) /\ y.committed /\ y.awaiting = x.awaiting
      /\ y.pending = x.pending /\ y.timer = x.timer
  BY <1>1 DEF ActorType, FlushStep
<1> HIDE DEF y
<1> QED BY <1>1, <1>2, Replaced DEF x

LEMMA FlushSucceedsEffect ==
    ASSUME TypeOK, NEW a \in Actors, FlushSucceeds(a)
    PROVE  /\ Touches(a) /\ FlushStep(actor[a], actor'[a]) /\ ~ actor'[a].committed
           /\ actor'[a].awaiting = "none" /\ actor'[a].pending = 0
           /\ actor'[a].timer \in {actor[a].timer, FALSE}
<1> DEFINE x == actor[a]
           t == x.timer /\ x.awaiting # "abandon"
           y == [x EXCEPT !.awaiting = "none", !.committed = FALSE, !.pending = 0, !.timer = t]
<1>1. x \in ActorType /\ actor \in [Actors -> ActorType]
  BY DEF TypeOK, ActorType
<1>1a. actor' = [actor EXCEPT ![a] = y]
  BY <1>1 DEF FlushSucceeds
<1>2. t \in BOOLEAN /\ t \in {x.timer, FALSE}
  BY <1>1 DEF ActorType
<1> HIDE DEF x, t
<1>3. /\ y \in ActorType /\ FlushStep(x, y) /\ ~ y.committed /\ y.awaiting = "none"
      /\ y.pending = 0 /\ y.timer = t
  BY <1>1, <1>2 DEF ActorType, FlushStep
<1> HIDE DEF y
<1> QED BY <1>1a, <1>2, <1>3, Replaced DEF x

LEMMA FlushFailsEffect ==
    ASSUME TypeOK, NEW a \in Actors, FlushFails(a)
    PROVE  /\ Touches(a) /\ FlushStep(actor[a], actor'[a]) /\ ~ actor'[a].committed
           /\ actor'[a].awaiting = "none" /\ actor'[a].pending = actor[a].pending
           /\ actor'[a].timer = actor[a].timer
<1> DEFINE x == actor[a]
           y == [x EXCEPT !.awaiting = "none", !.committed = FALSE]
<1>1. x \in ActorType /\ actor' = [actor EXCEPT ![a] = y]
  BY DEF TypeOK, ActorType, FlushFails
<1> HIDE DEF x
<1>2. /\ y \in ActorType /\ FlushStep(x, y) /\ ~ y.committed /\ y.awaiting = "none"
      /\ y.pending = x.pending /\ y.timer = x.timer
  BY <1>1 DEF ActorType, FlushStep
<1> HIDE DEF y
<1> QED BY <1>1, <1>2, Replaced DEF x

LEMMA HydrateSucceedsEffect ==
    ASSUME TypeOK, NEW a \in Actors, HydrateSucceeds(a)
    PROVE  /\ Touches(a) /\ Live(a)' /\ ~ actor'[a].evicted /\ actor'[a].seq = row.seq
           /\ actor'[a].over = row.over /\ actor'[a].pending = 0
           /\ actor'[a].awaiting = "none" /\ ~ actor'[a].committed
           /\ actor'[a].mailbox \in {<< "abandon" >>, <<>>}
<1> DEFINE m == IF asker = a THEN << "abandon" >> ELSE <<>>
           y == [Unborn EXCEPT !.phase = "live", !.seq = row.seq, !.over = row.over, !.mailbox = m]
<1>1. actor' = [actor EXCEPT ![a] = y] /\ row.seq \in Nat /\ row.over \in BOOLEAN
  BY DEF HydrateSucceeds, TypeOK
<1>2. m \in Seq(Tasks) /\ m \in {<< "abandon" >>, <<>>}
  <2>1. << "abandon" >> \in Seq(Tasks) /\ <<>> \in Seq(Tasks)
    BY DEF Tasks
  <2> QED BY <2>1
<1> HIDE DEF m
<1>3. /\ y \in ActorType /\ y.phase = "live" /\ ~ y.evicted /\ y.seq = row.seq
      /\ y.over = row.over /\ y.pending = 0 /\ y.awaiting = "none" /\ ~ y.committed
      /\ y.mailbox = m
  <2>1. Unborn \in ActorType /\ Unborn.pending = 0 /\ Unborn.awaiting = "none"
        /\ ~ Unborn.committed /\ ~ Unborn.evicted
    BY UnbornIsTyped DEF Unborn
  <2> QED BY <1>1, <1>2, <2>1 DEF ActorType
<1> HIDE DEF y
<1> QED BY <1>1, <1>2, <1>3, Replaced DEF Live

LEMMA HydrateFailsEffect ==
    ASSUME TypeOK, NEW a \in Actors, HydrateFails(a)
    PROVE  /\ Touches(a) /\ actor'[a].phase = "gone" /\ actor'[a].evicted = actor[a].evicted
           /\ actor'[a].pending = actor[a].pending /\ actor'[a].awaiting = actor[a].awaiting
           /\ actor'[a].committed = actor[a].committed /\ actor'[a].mailbox = actor[a].mailbox
           /\ actor'[a].timer = actor[a].timer
<1> DEFINE x == actor[a]
           y == [x EXCEPT !.phase = "gone"]
<1>1. x \in ActorType /\ actor' = [actor EXCEPT ![a] = y]
  BY DEF TypeOK, ActorType, HydrateFails
<1> HIDE DEF x
<1>2. /\ y \in ActorType /\ y.phase = "gone" /\ y.evicted = x.evicted /\ y.awaiting = x.awaiting
      /\ y.pending = x.pending /\ y.timer = x.timer /\ y.mailbox = x.mailbox
      /\ y.committed = x.committed
  BY <1>1 DEF ActorType
<1> HIDE DEF y
<1> QED BY <1>1, <1>2, Replaced DEF x

\* getOrHydrate leaves the actors alone, or begins the next one.
LEMMA GetOrHydrateEffect ==
    ASSUME TypeOK, GetOrHydrate
    PROVE  \/ entry # 0 /\ UNCHANGED <<entry, made, actor>> /\ Resolved = entry
           \/ /\ entry = 0 /\ made + 1 \in Actors /\ made' = made + 1 /\ entry' = made + 1
              /\ Touches(made + 1) /\ actor'[made + 1] = Loading /\ Resolved = made + 1
<1>1. CASE entry # 0
  BY <1>1 DEF GetOrHydrate, Resolved
<1>2. CASE entry = 0
  <2>1. made + 1 \in Actors
    BY <1>2, RegistryAssumption DEF GetOrHydrate, TypeOK, Actors
  <2>2. actor' = [actor EXCEPT ![made + 1] = Loading] /\ made' = made + 1 /\ entry' = made + 1
    BY <1>2 DEF GetOrHydrate
  <2> QED BY <1>2, <2>1, <2>2, UnbornIsTyped, Replaced DEF Resolved
<1> QED BY <1>1, <1>2

\* Eviction marks the drained actor, which leaves the map with it.
LEMMA EvictEffect ==
    ASSUME IInv, SweptIsLive, TypeOK, Evict
    PROVE  \/ UNCHANGED <<entry, actor>>
           \/ /\ entry = sweep.of /\ entry' = 0 /\ sweep.of \in Actors
              /\ Touches(sweep.of) /\ actor'[sweep.of].evicted
              /\ actor'[sweep.of].phase = actor[sweep.of].phase
              /\ actor'[sweep.of].mailbox = actor[sweep.of].mailbox
              /\ actor'[sweep.of].pending = actor[sweep.of].pending
              /\ actor'[sweep.of].awaiting = actor[sweep.of].awaiting
              /\ actor'[sweep.of].committed = actor[sweep.of].committed
              /\ actor'[sweep.of].timer = actor[sweep.of].timer
<1> DEFINE a == sweep.of
           x == actor[a]
           y == [x EXCEPT !.evicted = TRUE]
<1>1. CASE ~ MayEvict(a)
  BY <1>1 DEF Evict
<1>2. CASE MayEvict(a) /\ a # 0
  <2>1. a \in Actors /\ x \in ActorType /\ entry = a /\ entry' = 0 /\ actor' = [actor EXCEPT ![a] = y]
    BY <1>2 DEF Evict, MayEvict, SweptIsLive, TypeOK, ActorType
  <2> HIDE DEF x
  <2>2. /\ y \in ActorType /\ y.evicted /\ y.phase = x.phase /\ y.awaiting = x.awaiting
        /\ y.pending = x.pending /\ y.timer = x.timer /\ y.mailbox = x.mailbox
        /\ y.committed = x.committed
    BY <2>1 DEF ActorType
  <2> HIDE DEF y
  <2> QED BY <2>1, <2>2, Replaced DEF x
<1>3. CASE MayEvict(a) /\ a = 0
  <2>1. actor' = actor
    <3>1. 0 \notin Actors /\ actor \in [Actors -> ActorType]
      BY DEF TypeOK, ActorType, Actors
    <3>2. actor' = [actor EXCEPT ![0].evicted = TRUE]
      BY <1>3 DEF Evict
    <3> QED BY <3>1, <3>2
  <2> QED BY <1>3, <2>1 DEF Evict, MayEvict
<1> QED BY <1>1, <1>2, <1>3

SocketType == [at : {"closed", "resolving", "checking", "attached"},
               actor : 0..made, tries : 0..MaxTries, open : BOOLEAN]

\* The parts of TypeOK.
ActorsOK == actor \in [Actors -> ActorType]
EntryOK == entry \in 0..made /\ made \in 0..MaxActors
SocketsOK ==
    /\ socket \in [Sockets -> SocketType]
    /\ \A s \in Sockets : socket[s].at # "closed" => socket[s].actor # 0
RowOK == row \in [seq : Nat, over : BOOLEAN]
WaitersOK ==
    /\ asker \in 0..made
    /\ sweep \in [of : 0..made, at : {"none", "draining", "drained"}]
    /\ stop \in [of : 0..made,
                 at : {"up", "listing", "draining", "drained", "closing", "exited"}]
HistoryOK ==
    /\ told \in Nat /\ promised \in 0..told /\ late \in BOOLEAN
    /\ sent \in 0..MaxCommands /\ faults \in 0..MaxFaults

LEMMA TypeParts ==
    TypeOK <=> ActorsOK /\ EntryOK /\ SocketsOK /\ RowOK /\ WaitersOK /\ HistoryOK
BY DEF TypeOK, ActorsOK, ActorType, EntryOK, SocketsOK, SocketType, RowOK, WaitersOK, HistoryOK

LEMMA TypePartsNext ==
    ActorsOK' /\ EntryOK' /\ SocketsOK' /\ RowOK' /\ WaitersOK' /\ HistoryOK' => TypeOK'
BY TypeParts, PTL

LEMMA InitTypeOK == Init => TypeOK
<1> SUFFICES ASSUME Init PROVE TypeOK
  OBVIOUS
<1>1. ActorsOK
  BY UnbornIsTyped DEF Init, ActorsOK
<1>2. made = 0 /\ MaxActors \in Nat /\ MaxTries \in Nat /\ MaxCommands \in Nat /\ MaxFaults \in Nat
  BY RegistryAssumption DEF Init
<1>3. EntryOK /\ RowOK
  BY <1>2 DEF Init, EntryOK, RowOK
<1>4. SocketsOK
  <2>1. Closed \in SocketType /\ Closed.at = "closed"
    BY <1>2 DEF Closed, SocketType
  <2> QED BY <2>1 DEF Init, SocketsOK
<1>5. WaitersOK
  BY <1>2 DEF Init, WaitersOK
<1>6. HistoryOK
  <2>1. told = 0 /\ promised = 0 /\ late = FALSE /\ sent = 0 /\ faults = 0
    BY DEF Init
  <2>2. 0 \in 0..0 /\ 0 \in 0..MaxCommands /\ 0 \in 0..MaxFaults
    BY <1>2
  <2> QED BY <2>1, <2>2 DEF HistoryOK
<1> QED BY <1>1, <1>3, <1>4, <1>5, <1>6, TypeParts

\* What a flush, a drain or a broadcast does to the waiters and the history.
LEMMA AnsweredOK ==
    ASSUME WaitersOK, EntryOK, NEW task, NEW failed, Answered(task, failed),
           UNCHANGED <<made, asker>>
    PROVE  WaitersOK'
<1>1. sweep' \in [of : 0..made, at : {"none", "draining", "drained"}]
  <2>1. sweep \in [of : 0..made, at : {"none", "draining", "drained"}] /\ 0 \in 0..made
    BY DEF WaitersOK, EntryOK
  <2>2. CASE sweep' = sweep
    BY <2>1, <2>2
  <2>3. CASE sweep' = [of |-> 0, at |-> "none"]
    BY <2>1, <2>3
  <2>4. CASE sweep' = [sweep EXCEPT !.at = "drained"]
    BY <2>1, <2>4
  <2> QED BY <2>2, <2>3, <2>4 DEF Answered
<1>2. stop' \in [of : 0..made,
                 at : {"up", "listing", "draining", "drained", "closing", "exited"}]
  BY DEF Answered, WaitersOK
<1> QED BY <1>1, <1>2 DEF WaitersOK

LEMMA BroadcastOK ==
    ASSUME HistoryOK, NEW a, NEW seq \in Nat, Broadcast(a, seq),
           UNCHANGED <<promised, late, sent, faults>>
    PROVE  HistoryOK'
BY DEF Broadcast, HistoryOK

\* A socket replaced, or one that resolves its actor.
LEMMA SocketReplaced ==
    ASSUME SocketsOK, UNCHANGED made, NEW s \in Sockets, NEW new \in SocketType,
           new.at # "closed" => new.actor # 0, socket' = [socket EXCEPT ![s] = new]
    PROVE  SocketsOK'
BY DEF SocketsOK, SocketType

\* More actors asked for: whoever names one still does.
LEMMA MoreMade ==
    ASSUME TypeOK, GetOrHydrate
    PROVE  ActorsOK' /\ EntryOK' /\ 0..made \subseteq 0..made' /\ Resolved \in 0..made' /\ Resolved # 0
<1>1. CASE entry # 0 /\ UNCHANGED <<entry, made, actor>> /\ Resolved = entry
  BY <1>1, TypeParts DEF ActorsOK, EntryOK
<1>2. CASE /\ entry = 0 /\ made + 1 \in Actors /\ made' = made + 1 /\ entry' = made + 1
           /\ Touches(made + 1) /\ actor'[made + 1] = Loading /\ Resolved = made + 1
  <2>1. made \in Nat /\ made + 1 <= MaxActors /\ MaxActors \in Nat
    BY <1>2, TypeParts, RegistryAssumption DEF EntryOK, Actors
  <2> QED BY <1>2, <2>1 DEF ActorsOK, EntryOK, Touches
<1> QED BY <1>1, <1>2, GetOrHydrateEffect

LEMMA ResolvingOK ==
    ASSUME TypeOK, GetOrHydrate, NEW s \in Sockets, NEW tries \in 0..MaxTries,
           NEW open \in BOOLEAN, socket' = Resolving(s, tries, open)
    PROVE  SocketsOK'
<1> DEFINE new == [at |-> IF entry # 0 /\ Live(entry) THEN "checking" ELSE "resolving",
                   actor |-> Resolved, tries |-> tries, open |-> open]
<1>1. socket' = [socket EXCEPT ![s] = new]
  BY DEF Resolving
<1>2. /\ new \in [at : {"closed", "resolving", "checking", "attached"},
                  actor : 0..made', tries : 0..MaxTries, open : BOOLEAN]
      /\ new.actor # 0
  BY MoreMade
<1> HIDE DEF new
<1>3. SocketsOK /\ 0..made \subseteq 0..made'
  BY TypeParts, MoreMade
<1> QED BY <1>1, <1>2, <1>3 DEF SocketsOK, SocketType

LEMMA TypeStep == ASSUME IInv, SweptIsLive, TypeOK, Next PROVE TypeOK'
<1> USE DEF history
<1>0. /\ ActorsOK /\ EntryOK /\ SocketsOK /\ RowOK /\ WaitersOK /\ HistoryOK
      /\ \A s \in Sockets : socket[s] \in SocketType
      /\ made \in Nat /\ 0 \in 0..made
  BY TypeParts DEF SocketsOK, EntryOK
<1>0a. /\ \A s \in Sockets : socket[s].at \in {"checking", "attached"} => socket[s].actor \in Actors
       /\ entry # 0 => entry \in Actors
  BY <1>0, RegistryAssumption DEF IInv, Placed, EntryOK, Actors
<1> DEFINE Rest == SocketsOK' /\ RowOK' /\ WaitersOK' /\ HistoryOK'
<1>1. ASSUME NEW a, Touches(a), UNCHANGED <<entry, made>>, Rest PROVE TypeOK'
  BY <1>0, <1>1, TypePartsNext DEF Touches, ActorsOK, EntryOK
<1>2. ASSUME UNCHANGED <<actor, entry, made>>, Rest PROVE TypeOK'
  BY <1>0, <1>2, TypePartsNext DEF ActorsOK, EntryOK
<1>3. ASSUME NEW s \in Sockets, Hello(s) PROVE TypeOK'
  <2>1. GetOrHydrate /\ socket' = Resolving(s, 0, TRUE) /\ UNCHANGED <<row, asker, sweep, stop, history, sent, faults>>
    BY <1>3 DEF Hello
  <2>2. 0 \in 0..MaxTries /\ TRUE \in BOOLEAN
    BY RegistryAssumption
  <2>3. SocketsOK'
    BY <2>1, <2>2, ResolvingOK
  <2>4. ActorsOK' /\ EntryOK' /\ 0..made \subseteq 0..made'
    BY <2>1, MoreMade
  <2>5. WaitersOK' /\ HistoryOK' /\ RowOK'
    BY <1>0, <2>1, <2>4 DEF WaitersOK, HistoryOK, RowOK
  <2> QED BY <2>3, <2>4, <2>5, TypePartsNext
<1>4. ASSUME NEW a \in Actors, HydrateSucceeds(a) PROVE TypeOK'
  <2>1. Touches(a) /\ UNCHANGED <<entry, made, row, sweep, stop, history, sent, faults>>
    BY <1>4, HydrateSucceedsEffect DEF HydrateSucceeds
  <2>2. SocketsOK'
    BY <1>0, <1>4 DEF HydrateSucceeds, SocketsOK, SocketType
  <2>3. WaitersOK' /\ HistoryOK' /\ RowOK'
    BY <1>0, <1>4, <2>1 DEF HydrateSucceeds, WaitersOK, HistoryOK, RowOK
  <2> QED BY <1>1, <2>1, <2>2, <2>3
<1>5. ASSUME NEW a \in Actors, HydrateFails(a) PROVE TypeOK'
  <2>1. /\ Touches(a) /\ entry' = 0 /\ faults' = faults + 1 /\ faults < MaxFaults
        /\ UNCHANGED <<made, row, sweep, stop, history, sent>>
    BY <1>5, HydrateFailsEffect DEF HydrateFails
  <2>2. SocketsOK'
    <3>1. \A s \in Sockets : socket'[s] \in {Closed, socket[s]}
      BY <1>5 DEF HydrateFails
    <3>2. Closed \in SocketType /\ Closed.at = "closed"
      BY <1>0, RegistryAssumption DEF Closed, SocketType
    <3>3. socket' = [s \in Sockets |-> socket'[s]]
      BY <1>5 DEF HydrateFails
    <3>4. socket' \in [Sockets -> SocketType]
      BY <1>0, <3>1, <3>2, <3>3
    <3>5. \A s \in Sockets : socket'[s].at # "closed" => socket'[s].actor # 0
      BY <1>0, <3>1, <3>2 DEF SocketsOK
    <3> QED BY <2>1, <3>4, <3>5 DEF SocketsOK, SocketType
  <2>3. WaitersOK' /\ RowOK'
    BY <1>0, <1>5, <2>1 DEF HydrateFails, WaitersOK, RowOK
  <2>4. HistoryOK'
    BY <1>0, <2>1, RegistryAssumption DEF HistoryOK
  <2>5. EntryOK' /\ ActorsOK'
    BY <1>0, <2>1 DEF EntryOK, ActorsOK, Touches
  <2> QED BY <2>2, <2>3, <2>4, <2>5, TypePartsNext
<1>6. ASSUME NEW s \in Sockets, Attach(s) PROVE TypeOK'
  <2> DEFINE a == socket[s].actor
             tries == socket[s].tries + 1
  <2>1. UNCHANGED <<row, asker, sweep, stop, history, sent, faults>> /\ a \in Actors
    BY <1>0a, <1>6 DEF Attach
  <2>2. CASE ~ Refuses(a)
    <3>1. /\ socket' = [socket EXCEPT ![s].at = "attached"] /\ UNCHANGED <<entry, made>>
          /\ actor' = [actor EXCEPT ![a].idle = FALSE]
      BY <1>6, <2>2 DEF Attach
    <3>2. Touches(a)
      BY <2>1, <3>1, IdleEffect
    <3>3. socket[s].at # "closed"
      BY <1>6 DEF Attach
    <3>4. SocketsOK'
      BY <1>0, <3>1, <3>3 DEF SocketsOK, SocketType
    <3>5. WaitersOK' /\ HistoryOK' /\ RowOK'
      BY <1>0, <2>1, <3>1 DEF WaitersOK, HistoryOK, RowOK
    <3> QED BY <1>1, <3>1, <3>2, <3>4, <3>5
  <2>3. CASE Refuses(a) /\ tries < MaxTries
    <3>1. GetOrHydrate /\ socket' = Resolving(s, tries, socket[s].open)
      BY <1>6, <2>3 DEF Attach
    <3>2. tries \in 0..MaxTries /\ socket[s].open \in BOOLEAN
      BY <1>0, <2>3, RegistryAssumption DEF SocketType
    <3> HIDE DEF tries
    <3>3. SocketsOK'
      BY <3>1, <3>2, ResolvingOK
    <3>4. ActorsOK' /\ EntryOK' /\ 0..made \subseteq 0..made'
      BY <3>1, MoreMade
    <3>5. WaitersOK' /\ HistoryOK' /\ RowOK'
      BY <1>0, <2>1, <3>4 DEF WaitersOK, HistoryOK, RowOK
    <3> QED BY <3>3, <3>4, <3>5, TypePartsNext
  <2>4. CASE Refuses(a) /\ ~ tries < MaxTries
    <3>1. socket' = [socket EXCEPT ![s] = Closed] /\ UNCHANGED <<entry, made, actor>>
      BY <1>6, <2>4 DEF Attach
    <3>2. Closed \in SocketType /\ Closed.at = "closed"
      BY <1>0, RegistryAssumption DEF Closed, SocketType
    <3>3. SocketsOK'
      BY <1>0, <3>1, <3>2, SocketReplaced
    <3>4. WaitersOK' /\ HistoryOK' /\ RowOK'
      BY <1>0, <2>1, <3>1 DEF WaitersOK, HistoryOK, RowOK
    <3> QED BY <1>2, <3>1, <3>3, <3>4
  <2> QED BY <2>2, <2>3, <2>4
<1>7. ASSUME NEW s \in Sockets, Close(s) PROVE TypeOK'
  <2>1. UNCHANGED <<entry, made, row, asker, sweep, stop, history, sent, faults>>
    BY <1>7 DEF Close
  <2>2. WaitersOK' /\ HistoryOK' /\ RowOK'
    BY <1>0, <2>1 DEF WaitersOK, HistoryOK, RowOK
  <2>3. CASE socket[s].at = "attached"
    <3>1. /\ socket' = [socket EXCEPT ![s] = Closed]
          /\ actor' = [actor EXCEPT ![socket[s].actor].idle = FALSE]
      BY <1>7, <2>3 DEF Close
    <3>2. Closed \in SocketType /\ Closed.at = "closed"
      BY <1>0, RegistryAssumption DEF Closed, SocketType
    <3>3. SocketsOK'
      BY <1>0, <2>1, <3>1, <3>2, SocketReplaced
    <3>4. Touches(socket[s].actor)
      BY <1>0a, <2>3, <3>1, IdleEffect
    <3> QED BY <1>1, <2>1, <2>2, <3>3, <3>4
  <2>4. CASE socket[s].at # "attached"
    <3>1. socket' = [socket EXCEPT ![s].open = FALSE] /\ UNCHANGED actor
      BY <1>7, <2>4 DEF Close
    <3>2. SocketsOK'
      BY <1>0, <2>1, <3>1 DEF SocketsOK, SocketType
    <3> QED BY <1>2, <2>1, <2>2, <3>1, <3>2
  <2> QED BY <2>3, <2>4
<1>8. ASSUME NEW s \in Sockets, Command(s) PROVE TypeOK'
  <2> DEFINE a == socket[s].actor
  <2>1. /\ a \in Actors /\ actor' = Queued(a, "command") /\ "command" \in Tasks
        /\ late' \in BOOLEAN /\ sent' = sent + 1 /\ sent < MaxCommands
        /\ UNCHANGED <<entry, made, row, socket, asker, sweep, stop, told, promised, faults>>
    BY <1>0, <1>0a, <1>8 DEF Command, Tasks, HistoryOK
  <2>2. Touches(a)
    BY <2>1, QueueEffect
  <2>3. SocketsOK' /\ WaitersOK' /\ RowOK'
    BY <1>0, <2>1 DEF SocketsOK, SocketType, WaitersOK, RowOK
  <2>4. HistoryOK'
    BY <1>0, <2>1, RegistryAssumption DEF HistoryOK
  <2> QED BY <1>1, <2>1, <2>2, <2>3, <2>4
<1>9. CASE Abandon
  <2>1. /\ sent' = sent + 1 /\ sent < MaxCommands
        /\ UNCHANGED <<row, socket, sweep, stop, told, promised, faults>>
    BY <1>9 DEF Abandon
  <2>2. CASE entry # 0 /\ Live(entry)
    <3>1. /\ actor' = Queued(entry, "abandon") /\ "abandon" \in Tasks /\ late' \in BOOLEAN
          /\ UNCHANGED <<entry, made, asker>> /\ entry \in Actors
      BY <1>0, <1>0a, <1>9, <2>2 DEF Abandon, Tasks, HistoryOK
    <3>2. Touches(entry)
      BY <3>1, QueueEffect
    <3>3. SocketsOK' /\ WaitersOK' /\ RowOK'
      BY <1>0, <2>1, <3>1 DEF SocketsOK, SocketType, WaitersOK, RowOK
    <3>4. HistoryOK'
      BY <1>0, <2>1, <3>1, RegistryAssumption DEF HistoryOK
    <3> QED BY <1>1, <3>1, <3>2, <3>3, <3>4
  <2>3. CASE ~ (entry # 0 /\ Live(entry))
    <3>1. GetOrHydrate /\ asker' = Resolved /\ UNCHANGED late
      BY <1>9, <2>3 DEF Abandon
    <3>2. /\ ActorsOK' /\ EntryOK' /\ 0..made \subseteq 0..made' /\ Resolved \in 0..made'
      BY <3>1, MoreMade
    <3>3. SocketsOK' /\ WaitersOK' /\ RowOK'
      BY <1>0, <2>1, <3>1, <3>2 DEF SocketsOK, SocketType, WaitersOK, RowOK
    <3>4. HistoryOK'
      BY <1>0, <2>1, <3>1, RegistryAssumption DEF HistoryOK
    <3> QED BY <3>2, <3>3, <3>4, TypePartsNext
  <2> QED BY <2>2, <2>3
<1>10. ASSUME NEW a \in Actors, FlushTimerFires(a) PROVE TypeOK'
  <2>1. /\ actor' = [Queued(a, "flush") EXCEPT ![a].timer = FALSE] /\ "flush" \in Tasks
        /\ late' \in BOOLEAN
        /\ UNCHANGED <<entry, made, row, socket, asker, sweep, stop, told, promised, sent, faults>>
    BY <1>0, <1>10 DEF FlushTimerFires, Tasks, HistoryOK
  <2>2. Touches(a)
    BY <2>1, QueueEffect
  <2>3. SocketsOK' /\ WaitersOK' /\ RowOK' /\ HistoryOK'
    BY <1>0, <2>1 DEF SocketsOK, SocketType, WaitersOK, RowOK, HistoryOK
  <2> QED BY <1>1, <2>1, <2>2, <2>3
<1>11. ASSUME NEW a \in Actors, IdleWindowPasses(a) PROVE TypeOK'
  <2>1. /\ actor' = [actor EXCEPT ![a].idle = TRUE]
        /\ UNCHANGED <<entry, made, row, socket, asker, sweep, stop, history, sent, faults>>
    BY <1>11 DEF IdleWindowPasses
  <2>2. Touches(a)
    BY <2>1, IdleEffect
  <2>3. SocketsOK' /\ WaitersOK' /\ RowOK' /\ HistoryOK'
    BY <1>0, <2>1 DEF SocketsOK, SocketType, WaitersOK, RowOK, HistoryOK
  <2> QED BY <1>1, <2>1, <2>2, <2>3
<1>12. ASSUME NEW a \in Actors, RunTask(a) PROVE TypeOK'
  <2>1. /\ Touches(a) /\ Ran(a)
        /\ UNCHANGED <<entry, made, row, socket, asker, promised, late, sent, faults>>
    BY <1>12, RunTaskEffect
  <2>2. actor'[a].seq \in Nat
    BY <2>1 DEF Touches, ActorType
  <2>3. (\E failed : Answered(Head(actor[a].mailbox), failed)) \/ UNCHANGED <<sweep, stop>>
    BY <2>1 DEF Ran
  <2>4. Broadcast(a, actor'[a].seq) \/ UNCHANGED told
    BY <2>1 DEF Ran
  <2>5. WaitersOK'
    <3>1. CASE UNCHANGED <<sweep, stop>>
      BY <1>0, <2>1, <3>1 DEF WaitersOK
    <3> QED BY <1>0, <2>1, <2>3, <3>1, AnsweredOK
  <2>6. HistoryOK'
    <3>1. CASE UNCHANGED told
      BY <1>0, <2>1, <3>1 DEF HistoryOK
    <3> QED BY <1>0, <2>1, <2>2, <2>4, <3>1, BroadcastOK
  <2>7. SocketsOK' /\ RowOK'
    BY <1>0, <2>1 DEF SocketsOK, SocketType, RowOK
  <2> QED BY <1>1, <2>1, <2>5, <2>6, <2>7
<1>13. ASSUME NEW a \in Actors, DbCommits(a) PROVE TypeOK'
  <2>1. /\ Touches(a) /\ row' = [seq |-> actor[a].seq, over |-> actor[a].over]
        /\ UNCHANGED <<entry, made, socket, asker, sweep, stop, history, sent, faults>>
    BY <1>13, DbCommitsEffect DEF DbCommits
  <2>2. actor[a] \in ActorType
    BY <1>0 DEF ActorsOK
  <2>3. RowOK'
    BY <2>1, <2>2 DEF RowOK, ActorType
  <2>4. SocketsOK' /\ WaitersOK' /\ HistoryOK'
    BY <1>0, <2>1 DEF SocketsOK, SocketType, WaitersOK, HistoryOK
  <2> QED BY <1>1, <2>1, <2>3, <2>4
<1>14. ASSUME NEW a \in Actors, FlushSucceeds(a) PROVE TypeOK'
  <2>1. /\ Touches(a) /\ Answered(actor[a].awaiting, FALSE)
        /\ Broadcast(a, actor[a].seq) \/ UNCHANGED told
        /\ UNCHANGED <<entry, made, row, socket, asker, promised, late, sent, faults>>
    BY <1>14, FlushSucceedsEffect DEF FlushSucceeds
  <2>2. actor[a].seq \in Nat
    BY <1>0 DEF ActorsOK, ActorType
  <2>3. HistoryOK'
    <3>1. CASE UNCHANGED told
      BY <1>0, <2>1, <3>1 DEF HistoryOK
    <3> QED BY <1>0, <2>1, <2>2, <3>1, BroadcastOK
  <2>4. WaitersOK' /\ SocketsOK' /\ RowOK'
    BY <1>0, <2>1, AnsweredOK DEF SocketsOK, SocketType, RowOK
  <2> QED BY <1>1, <2>1, <2>3, <2>4
<1>15. ASSUME NEW a \in Actors, FlushFails(a) PROVE TypeOK'
  <2>1. /\ Touches(a) /\ Answered(actor[a].awaiting, TRUE)
        /\ faults' = faults \/ (faults < MaxFaults /\ faults' = faults + 1)
        /\ UNCHANGED <<entry, made, row, socket, asker, history, sent>>
    BY <1>15, FlushFailsEffect DEF FlushFails
  <2>2. HistoryOK'
    BY <1>0, <2>1, RegistryAssumption DEF HistoryOK
  <2>3. WaitersOK' /\ SocketsOK' /\ RowOK'
    BY <1>0, <2>1, AnsweredOK DEF SocketsOK, SocketType, RowOK
  <2> QED BY <1>1, <2>1, <2>2, <2>3
<1>16. CASE SweepDrains
  <2>1. /\ actor' = [Queued(entry, "sweepDrain") EXCEPT ![entry].timer = FALSE]
        /\ "sweepDrain" \in Tasks /\ entry \in Actors /\ sweep' = [of |-> entry, at |-> "draining"]
        /\ UNCHANGED <<entry, made, row, socket, asker, stop, history, sent, faults>>
    BY <1>0a, <1>16 DEF SweepDrains, Tasks
  <2>2. Touches(entry)
    BY <2>1, QueueEffect
  <2>3. SocketsOK' /\ WaitersOK' /\ RowOK' /\ HistoryOK'
    BY <1>0, <2>1 DEF SocketsOK, SocketType, WaitersOK, RowOK, HistoryOK, EntryOK
  <2> QED BY <1>1, <2>1, <2>2, <2>3
<1>17. CASE Evict
  <2>1. /\ sweep' = [of |-> 0, at |-> "none"]
        /\ UNCHANGED <<made, row, socket, asker, stop, history, sent, faults>>
    BY <1>17 DEF Evict
  <2>2. EntryOK' /\ ActorsOK'
    BY <1>0, <1>17, <2>1, EvictEffect DEF EntryOK, ActorsOK, Touches
  <2>3. SocketsOK' /\ WaitersOK' /\ RowOK' /\ HistoryOK'
    BY <1>0, <2>1 DEF SocketsOK, SocketType, WaitersOK, RowOK, HistoryOK
  <2> QED BY <2>2, <2>3, TypePartsNext
<1>18. CASE Signal
  <2>1. /\ stop' = [of |-> entry, at |-> IF entry = 0 THEN "closing" ELSE "listing"]
        /\ promised' = told
        /\ UNCHANGED <<entry, made, actor, row, socket, asker, sweep, told, late, sent, faults>>
    BY <1>18 DEF Signal
  <2>2. WaitersOK'
    BY <1>0, <2>1 DEF WaitersOK, EntryOK
  <2>3. HistoryOK'
    BY <1>0, <2>1 DEF HistoryOK
  <2>4. SocketsOK' /\ RowOK'
    BY <1>0, <2>1 DEF SocketsOK, SocketType, RowOK
  <2> QED BY <1>2, <2>1, <2>2, <2>3, <2>4
<1>19. CASE StopDrains
  <2>1. UNCHANGED <<entry, made, row, socket, asker, sweep, told, promised, sent, faults>>
    BY <1>19 DEF StopDrains
  <2>2. late' \in BOOLEAN /\ stop' \in [of : 0..made,
                 at : {"up", "listing", "draining", "drained", "closing", "exited"}]
    BY <1>0, <1>19 DEF StopDrains, HistoryOK, WaitersOK
  <2>3. SocketsOK' /\ WaitersOK' /\ RowOK' /\ HistoryOK'
    BY <1>0, <2>1, <2>2 DEF SocketsOK, SocketType, WaitersOK, RowOK, HistoryOK
  <2>4. CASE UNCHANGED actor
    BY <1>2, <2>1, <2>3, <2>4
  <2>5. CASE actor' = [Queued(stop.of, "stopDrain") EXCEPT ![stop.of].timer = FALSE]
    <3>1. CASE stop.of \in Actors
      <4>1. "stopDrain" \in Tasks
        BY DEF Tasks
      <4>2. Touches(stop.of)
        BY <2>5, <3>1, <4>1, QueueEffect
      <4> QED BY <1>1, <2>1, <2>3, <4>2
    <3>2. CASE stop.of \notin Actors
      <4>1. actor' = actor
        BY <1>0, <2>5, <3>2 DEF Queued, ActorsOK
      <4> QED BY <1>2, <2>1, <2>3, <4>1
    <3> QED BY <3>1, <3>2
  <2> QED BY <1>19, <2>4, <2>5 DEF StopDrains
<1>20. CASE StopCloses \/ Exit
  <2>1. /\ UNCHANGED <<entry, made, actor, row, socket, asker, sweep, history, sent, faults>>
        /\ stop' \in [of : 0..made,
                 at : {"up", "listing", "draining", "drained", "closing", "exited"}]
    BY <1>0, <1>20 DEF StopCloses, Exit, WaitersOK
  <2>2. SocketsOK' /\ WaitersOK' /\ RowOK' /\ HistoryOK'
    BY <1>0, <2>1 DEF SocketsOK, SocketType, WaitersOK, RowOK, HistoryOK
  <2> QED BY <1>2, <2>1, <2>2
<1> QED BY <1>3, <1>4, <1>5, <1>6, <1>7, <1>8, <1>9, <1>10, <1>11, <1>12, <1>13, <1>14, <1>15,
           <1>16, <1>17, <1>18, <1>19, <1>20 DEF Next, Clients, Process, Failures

-----------------------------------------------------------------------------
(* Quiet evictions.                                                        *)

\* Nothing to write and nothing that would write it.
Spent(x) == x.awaiting = "none" /\ x.pending = 0 /\ ~ x.timer

\* The drain of the passivation in progress is the last task of its actor.
DrainIsLast(a) ==
    LET x == actor[a]
    IN  /\ \A i \in 1..Len(x.mailbox) : x.mailbox[i] = "sweepDrain" =>
               sweep.at = "draining" /\ sweep.of = a /\ i = Len(x.mailbox)
        /\ x.awaiting = "sweepDrain" =>
               sweep.at = "draining" /\ sweep.of = a /\ x.mailbox = <<>> /\ ~ x.timer

\* When it is answered nothing is left to do.
DrainedIsSpent ==
    sweep.at = "drained" /\ sweep.of \in Actors =>
        Spent(actor[sweep.of]) /\ actor[sweep.of].mailbox = <<>>

\* An evicted actor gets no task but the drain of a shutdown.
EvictedIsSpent(a) ==
    actor[a].evicted =>
        /\ Spent(actor[a])
        /\ \A i \in 1..Len(actor[a].mailbox) : actor[a].mailbox[i] = "stopDrain"

WritesAccepted(a) == Live(a) /\ ~ actor[a].evicted => RowAccepts(a)

EntryStays == entry # 0 => ~ actor[entry].evicted

CommitsAwait == \A a \in Actors : actor[a].committed => actor[a].awaiting # "none"

\* What holds as long as nothing was queued behind a passivation's drain.
Undisturbed ==
    /\ \A a \in Actors : DrainIsLast(a) /\ EvictedIsSpent(a) /\ WritesAccepted(a)
    /\ DrainedIsSpent

Quiet == CommitsAwait /\ EntryStays /\ (~ late => Undisturbed)

\* The state the lemmas below speak of, before a step.
Known == IInv /\ SweptIsLive /\ TypeOK /\ Quiet

LEMMA ActorFacts ==
    ASSUME TypeOK
    PROVE  /\ \A a \in Actors : /\ actor[a] \in ActorType /\ actor[a].seq \in Nat
                                /\ actor[a].pending \in Nat /\ actor[a].mailbox \in Seq(Tasks)
           /\ row.seq \in Nat
           /\ entry # 0 => entry \in Actors
           /\ 0 \notin Actors
<1>1. made \in Nat /\ entry \in 0..made /\ made <= MaxActors /\ MaxActors \in Nat
  BY RegistryAssumption DEF TypeOK
<1>2. (entry # 0 => entry \in Actors) /\ 0 \notin Actors
  BY <1>1 DEF Actors
<1>3. \A a \in Actors : actor[a] \in ActorType
  BY TypeParts DEF ActorsOK
<1>4. row.seq \in Nat
  BY DEF TypeOK
<1> QED BY <1>2, <1>3, <1>4 DEF ActorType

LEMMA InitQuiet == Init => Quiet
<1> SUFFICES ASSUME Init PROVE Quiet
  OBVIOUS
<1>1. \A a \in Actors : actor[a] = Unborn
  BY DEF Init
<1>2. /\ Unborn.mailbox = <<>> /\ Unborn.awaiting = "none" /\ ~ Unborn.evicted
      /\ Unborn.phase = "unborn" /\ ~ Unborn.committed /\ Len(<<>>) = 0
  BY DEF Unborn
<1>3. entry = 0 /\ sweep.at = "none"
  BY DEF Init
<1>4. \A a \in Actors : DrainIsLast(a) /\ EvictedIsSpent(a) /\ WritesAccepted(a)
  BY <1>1, <1>2 DEF DrainIsLast, EvictedIsSpent, WritesAccepted, Live
<1> QED BY <1>1, <1>2, <1>3, <1>4
        DEF Quiet, CommitsAwait, EntryStays, Undisturbed, DrainedIsSpent

\* Only what the mailboxes and flushes do not show changes.
LEMMA QuietAlone ==
    ASSUME Quiet, UNCHANGED <<entry, row, sweep, late>>, TypeOK,
           \A a \in Actors : SameTasks(actor[a], actor'[a])
    PROVE  Quiet'
<1> USE DEF SameTasks, SameGame
<1>1. CommitsAwait' /\ EntryStays'
  BY ActorFacts DEF Quiet, CommitsAwait, EntryStays
<1>2. ASSUME ~ late PROVE Undisturbed'
  <2>1. \A a \in Actors : DrainIsLast(a) /\ EvictedIsSpent(a) /\ WritesAccepted(a)
    BY <1>2 DEF Quiet, Undisturbed
  <2>2. ASSUME NEW a \in Actors PROVE DrainIsLast(a)'
    BY <2>1 DEF DrainIsLast
  <2>3. ASSUME NEW a \in Actors PROVE EvictedIsSpent(a)'
    BY <2>1 DEF EvictedIsSpent, Spent
  <2>4. ASSUME NEW a \in Actors PROVE WritesAccepted(a)'
    BY <2>1 DEF WritesAccepted, Live, RowAccepts
  <2>5. DrainedIsSpent'
    BY <1>2 DEF Quiet, Undisturbed, DrainedIsSpent, Spent
  <2> QED BY <2>2, <2>3, <2>4, <2>5 DEF Undisturbed
<1> QED BY <1>1, <1>2 DEF Quiet

\* A task other than a passivation's drain joins a mailbox, late or not behind one.
LEMMA QuietQueue ==
    ASSUME Quiet, TypeOK, NEW a \in Actors, NEW task \in Tasks, task # "sweepDrain",
           actor' = Queued(a, task) \/ actor' = [Queued(a, task) EXCEPT ![a].timer = FALSE],
           ~ late' => ~ late /\ ~ Behind(a), sweep.at # "drained",
           ~ late /\ actor[a].evicted => task = "stopDrain", UNCHANGED <<entry, row, sweep>>
    PROVE  Quiet'
<1> DEFINE x == actor[a]
           y == actor'[a]
<1>1. /\ \A b \in Actors : b # a => actor'[b] = actor[b]
      /\ SameGame(x, y) /\ y.mailbox = Append(x.mailbox, task) /\ y.timer \in {x.timer, FALSE}
  BY QueueEffect DEF Touches
<1>2. /\ x.mailbox \in Seq(Tasks) /\ Len(y.mailbox) = Len(x.mailbox) + 1
      /\ Len(x.mailbox) \in Nat
      /\ \A i \in 1..Len(x.mailbox) : y.mailbox[i] = x.mailbox[i]
      /\ y.mailbox[Len(x.mailbox) + 1] = task
      /\ \A i \in 1..Len(y.mailbox) : i \in 1..Len(x.mailbox) \/ i = Len(x.mailbox) + 1
  <2>1. x.mailbox \in Seq(Tasks)
    BY ActorFacts
  <2> HIDE DEF x, y
  <2> QED BY <1>1, <2>1
<1>3. CommitsAwait'
  BY <1>1 DEF Quiet, CommitsAwait, SameGame
<1>4. EntryStays'
  BY <1>1, ActorFacts DEF Quiet, EntryStays, SameGame
<1>5. ASSUME ~ late' PROVE Undisturbed'
  <2>1. \A b \in Actors : DrainIsLast(b) /\ EvictedIsSpent(b) /\ WritesAccepted(b)
    BY <1>5 DEF Quiet, Undisturbed
  <2>2. \A i \in 1..Len(x.mailbox) : x.mailbox[i] # "sweepDrain"
    BY <1>5, <2>1 DEF DrainIsLast, Behind
  <2>3. x.awaiting # "sweepDrain"
    BY <1>5, <2>1 DEF DrainIsLast, Behind
  <2>4. DrainIsLast(a)'
    <3>1. \A i \in 1..Len(y.mailbox) : y.mailbox[i] # "sweepDrain"
      BY <1>2, <2>2
    <3>2. y.awaiting # "sweepDrain"
      BY <1>1, <2>3 DEF SameGame
    <3> QED BY <3>1, <3>2 DEF DrainIsLast
  <2>5. EvictedIsSpent(a)'
    <3>1. CASE ~ y.evicted
      BY <3>1 DEF EvictedIsSpent
    <3>2. CASE y.evicted
      <4>1. x.evicted /\ task = "stopDrain"
        BY <1>1, <1>5, <3>2 DEF SameGame
      <4>2. Spent(x) /\ \A i \in 1..Len(x.mailbox) : x.mailbox[i] = "stopDrain"
        BY <2>1, <4>1 DEF EvictedIsSpent
      <4>3. Spent(y)
        BY <1>1, <4>2 DEF SameGame, Spent
      <4>4. \A i \in 1..Len(y.mailbox) : y.mailbox[i] = "stopDrain"
        BY <1>2, <4>1, <4>2
      <4> QED BY <4>3, <4>4 DEF EvictedIsSpent, Spent
    <3> QED BY <3>1, <3>2
  <2>6. WritesAccepted(a)'
    BY <1>1, <2>1 DEF WritesAccepted, SameGame, Live, RowAccepts
  <2>7. ASSUME NEW b \in Actors, b # a
        PROVE  DrainIsLast(b)' /\ EvictedIsSpent(b)' /\ WritesAccepted(b)'
    BY <1>1, <2>1, <2>7 DEF DrainIsLast, EvictedIsSpent, WritesAccepted, Live, RowAccepts, Spent
  <2>8. DrainedIsSpent'
    BY DEF DrainedIsSpent
  <2> QED BY <2>4, <2>5, <2>6, <2>7, <2>8 DEF Undisturbed
<1> QED BY <1>3, <1>4, <1>5 DEF Quiet

\* The passivation's own drain: there was none, and it goes last.
LEMMA QuietSweepDrains == ASSUME Known, SweepDrains PROVE Quiet'
<1> DEFINE a == entry
           x == actor[a]
           y == actor'[a]
<1>0. Quiet /\ TypeOK
  BY DEF Known
<1>1. /\ a \in Actors /\ "sweepDrain" \in Tasks /\ sweep.at = "none"
      /\ sweep' = [of |-> a, at |-> "draining"] /\ UNCHANGED <<entry, row, late>>
      /\ actor' = [Queued(a, "sweepDrain") EXCEPT ![a].timer = FALSE]
  BY <1>0, ActorFacts DEF SweepDrains, Tasks, history
<1>2. /\ \A b \in Actors : b # a => actor'[b] = actor[b]
      /\ SameGame(x, y) /\ y.mailbox = Append(x.mailbox, "sweepDrain")
  BY <1>0, <1>1, QueueEffect DEF Touches
<1>3. /\ Len(y.mailbox) = Len(x.mailbox) + 1 /\ Len(x.mailbox) \in Nat
      /\ \A i \in 1..Len(x.mailbox) : y.mailbox[i] = x.mailbox[i]
      /\ \A i \in 1..Len(y.mailbox) : i \in 1..Len(x.mailbox) \/ i = Len(y.mailbox)
  <2>1. x.mailbox \in Seq(Tasks)
    BY <1>0, <1>1, ActorFacts
  <2> HIDE DEF x, y
  <2> QED BY <1>2, <2>1
<1>4. CommitsAwait'
  BY <1>0, <1>2 DEF Quiet, CommitsAwait, SameGame
<1>5. EntryStays' /\ ~ x.evicted /\ ~ y.evicted
  BY <1>0, <1>1, <1>2, ActorFacts DEF Quiet, EntryStays, SameGame
<1>6. ASSUME ~ late PROVE Undisturbed'
  <2>1. \A b \in Actors : DrainIsLast(b) /\ EvictedIsSpent(b) /\ WritesAccepted(b)
    BY <1>0, <1>6 DEF Quiet, Undisturbed
  <2>2. \A b \in Actors : /\ \A i \in 1..Len(actor[b].mailbox) : actor[b].mailbox[i] # "sweepDrain"
                          /\ actor[b].awaiting # "sweepDrain"
    BY <1>1, <2>1 DEF DrainIsLast
  <2>3. DrainIsLast(a)'
    BY <1>1, <1>2, <1>3, <2>2 DEF DrainIsLast, SameGame
  <2>4. EvictedIsSpent(a)'
    BY <1>1, <1>5 DEF EvictedIsSpent
  <2>5. WritesAccepted(a)'
    BY <1>1, <1>2, <2>1 DEF WritesAccepted, SameGame, Live, RowAccepts
  <2>6. ASSUME NEW b \in Actors, b # a
        PROVE  DrainIsLast(b)' /\ EvictedIsSpent(b)' /\ WritesAccepted(b)'
    <3>1. actor'[b] = actor[b] /\ row' = row
      BY <1>1, <1>2, <2>6
    <3>2. DrainIsLast(b)'
      BY <2>2, <3>1 DEF DrainIsLast
    <3>3. EvictedIsSpent(b)' /\ WritesAccepted(b)'
      BY <2>1, <3>1 DEF EvictedIsSpent, WritesAccepted, Live, RowAccepts, Spent
    <3> QED BY <3>2, <3>3
  <2>7. DrainedIsSpent'
    BY <1>1 DEF DrainedIsSpent
  <2> QED BY <1>1, <2>3, <2>4, <2>5, <2>6, <2>7 DEF Undisturbed
<1> QED BY <1>1, <1>4, <1>5, <1>6 DEF Quiet

\* The next actor is asked for.
LEMMA QuietGetOrHydrate ==
    ASSUME Known, GetOrHydrate, sweep.at # "drained", UNCHANGED <<row, sweep, late>>
    PROVE  Quiet'
<1>0. Quiet /\ TypeOK
  BY DEF Known
<1>1. CASE UNCHANGED <<entry, made, actor>>
  BY <1>0, <1>1, QuietAlone DEF SameTasks, SameGame
<1>2. CASE /\ made + 1 \in Actors /\ made' = made + 1 /\ entry' = made + 1
           /\ Touches(made + 1) /\ actor'[made + 1] = Loading
  <2>0. PICK a \in Actors : a = made + 1
    BY <1>2
  <2> DEFINE y == actor'[a]
  <2>1. /\ \A b \in Actors : b # a => actor'[b] = actor[b]
        /\ y.mailbox = <<>> /\ y.awaiting = "none" /\ ~ y.evicted
        /\ y.phase = "loading" /\ ~ y.committed /\ Len(<<>>) = 0
    BY <1>2, <2>0 DEF Touches, Loading, Unborn
  <2>2. a \in Actors /\ entry' = a
    BY <1>2, <2>0
  <2>3. CommitsAwait' /\ EntryStays'
    BY <1>0, <2>1, <2>2 DEF Quiet, CommitsAwait, EntryStays
  <2>4. ASSUME ~ late PROVE Undisturbed'
    <3>1. \A b \in Actors : DrainIsLast(b) /\ EvictedIsSpent(b) /\ WritesAccepted(b)
      BY <1>0, <2>4 DEF Quiet, Undisturbed
    <3>2. DrainIsLast(a)' /\ EvictedIsSpent(a)' /\ WritesAccepted(a)'
      <4>1. \A i \in 1..Len(y.mailbox) : y.mailbox[i] # "sweepDrain"
        BY <2>1
      <4>2. DrainIsLast(a)'
        BY <2>1, <4>1 DEF DrainIsLast
      <4>3. EvictedIsSpent(a)'
        BY <2>1 DEF EvictedIsSpent
      <4>4. WritesAccepted(a)'
        BY <2>1 DEF WritesAccepted, Live
      <4> QED BY <4>2, <4>3, <4>4
    <3>3. ASSUME NEW b \in Actors, b # a
          PROVE  DrainIsLast(b)' /\ EvictedIsSpent(b)' /\ WritesAccepted(b)'
      BY <2>1, <3>1, <3>3 DEF DrainIsLast, EvictedIsSpent, WritesAccepted, Live, RowAccepts, Spent
    <3>4. DrainedIsSpent'
      <4>1. sweep'.at # "drained"
        OBVIOUS
      <4> QED BY <4>1 DEF DrainedIsSpent
    <3> QED BY <3>2, <3>3, <3>4 DEF Undisturbed
  <2> QED BY <2>3, <2>4 DEF Quiet
<1> QED BY <1>0, <1>1, <1>2, GetOrHydrateEffect

\* What a step of one actor leaves of the others, whatever it does to the sweep of its own.
LEMMA OthersQuiet ==
    ASSUME Undisturbed, NEW a \in Actors, \A c \in Actors : c # a => actor'[c] = actor[c],
           sweep' = sweep \/ sweep.of = a, UNCHANGED row, NEW b \in Actors, b # a
    PROVE  DrainIsLast(b)' /\ EvictedIsSpent(b)' /\ WritesAccepted(b)'
<1>1. /\ DrainIsLast(b) /\ EvictedIsSpent(b) /\ WritesAccepted(b) /\ actor'[b] = actor[b]
  BY DEF Undisturbed
<1>2. DrainIsLast(b)'
  BY <1>1 DEF DrainIsLast
<1>3. EvictedIsSpent(b)'
  BY <1>1 DEF EvictedIsSpent, Spent
<1>4. WritesAccepted(b)'
  BY <1>1 DEF WritesAccepted, Live, RowAccepts
<1> QED BY <1>2, <1>3, <1>4

LEMMA MailboxTail ==
    ASSUME NEW m \in Seq(Tasks), m # <<>>
    PROVE  /\ Len(m) \in Nat \ {0} /\ Head(m) = m[1] /\ Len(Tail(m)) = Len(m) - 1
           /\ \A i \in 1..Len(Tail(m)) : Tail(m)[i] = m[i + 1] /\ i + 1 \in 1..Len(m)
           /\ Len(m) = 1 => Tail(m) = <<>>
<1>1. Len(m) \in Nat \ {0} /\ Head(m) = m[1] /\ Len(Tail(m)) = Len(m) - 1 /\ Tail(m) \in Seq(Tasks)
  OBVIOUS
<1>2. ASSUME NEW i \in 1..Len(Tail(m)) PROVE Tail(m)[i] = m[i + 1] /\ i + 1 \in 1..Len(m)
  BY <1>1
<1>3. Len(m) = 1 => Tail(m) = <<>>
  <2>1. Tail(m) # <<>> => Len(Tail(m)) \in Nat \ {0}
    BY <1>1, EmptySeq
  <2>2. Len(m) = 1 => Len(Tail(m)) \notin Nat \ {0}
    BY <1>1
  <2> QED BY <2>1, <2>2, Zenon
<1> QED BY <1>1, <1>2, <1>3

LEMMA AnsweredSweep ==
    ASSUME sweep \in Sweeps, NEW task, NEW failed \in BOOLEAN, Answered(task, failed)
    PROVE  /\ task # "sweepDrain" => sweep' = sweep
           /\ task = "sweepDrain" /\ ~ failed => sweep'.at = "drained" /\ sweep'.of = sweep.of
           /\ task = "sweepDrain" /\ failed => sweep'.at = "none"
BY DEF Answered, Sweeps

LEMMA QuietRunTask == ASSUME Known, NEW a \in Actors, RunTask(a) PROVE Quiet'
<1> DEFINE x == actor[a]
           y == actor'[a]
           h == Head(x.mailbox)
<1>0. Quiet /\ TypeOK /\ sweep \in Sweeps
  BY DEF Known, SweptIsLive
<1>1. /\ \A b \in Actors : b # a => actor'[b] = actor[b]
      /\ x.mailbox # <<>> /\ x.awaiting = "none"
      /\ y.phase = x.phase /\ y.evicted = x.evicted
      /\ y.committed = x.committed /\ y.mailbox = Tail(x.mailbox)
      /\ Ran(a) /\ UNCHANGED <<entry, row, late>>
  BY <1>0, RunTaskEffect DEF Touches
<1>2. /\ x.pending \in Nat /\ x.seq \in Nat /\ row.seq \in Nat /\ x.mailbox \in Seq(Tasks)
      /\ h \in Tasks
  BY <1>0, <1>1, ActorFacts
<1>3. /\ Len(x.mailbox) \in Nat \ {0} /\ h = x.mailbox[1] /\ Len(y.mailbox) = Len(x.mailbox) - 1
      /\ \A i \in 1..Len(y.mailbox) : y.mailbox[i] = x.mailbox[i + 1] /\ i + 1 \in 1..Len(x.mailbox)
      /\ Len(x.mailbox) = 1 => y.mailbox = <<>>
  BY <1>1, <1>2, MailboxTail
<1>4. \/ RanCommand(x, y) /\ UNCHANGED sweep
      \/ RanAbandon(x, y) /\ UNCHANGED sweep
      \/ RanNothing(x, y) /\ UNCHANGED sweep
      \/ RanFlush(x, y) /\ x.pending = 0 /\ Answered(h, FALSE)
      \/ RanFlush(x, y) /\ x.pending # 0 /\ UNCHANGED sweep
  BY <1>1 DEF Ran
<1>5. CommitsAwait'
  BY <1>0, <1>1 DEF Quiet, CommitsAwait
<1>6. EntryStays'
  BY <1>0, <1>1, ActorFacts DEF Quiet, EntryStays
<1>7. ASSUME ~ late PROVE Undisturbed'
  <2>0. Undisturbed /\ DrainIsLast(a) /\ EvictedIsSpent(a) /\ WritesAccepted(a)
    BY <1>0, <1>7 DEF Quiet, Undisturbed
  <2>1. h = "sweepDrain" =>
            /\ sweep.at = "draining" /\ sweep.of = a /\ y.mailbox = <<>> /\ ~ y.timer
            /\ \/ x.pending = 0 /\ y.pending = 0 /\ y.awaiting = "none"
                  /\ sweep'.at = "drained" /\ sweep'.of = a
               \/ y.awaiting = "sweepDrain" /\ UNCHANGED sweep
    <3> SUFFICES ASSUME h = "sweepDrain"
                 PROVE  /\ sweep.at = "draining" /\ sweep.of = a /\ y.mailbox = <<>> /\ ~ y.timer
                        /\ \/ x.pending = 0 /\ y.pending = 0 /\ y.awaiting = "none"
                              /\ sweep'.at = "drained" /\ sweep'.of = a
                           \/ y.awaiting = "sweepDrain" /\ UNCHANGED sweep
      OBVIOUS
    <3>1. sweep.at = "draining" /\ sweep.of = a /\ 1 = Len(x.mailbox)
      <4>1. 1 \in 1..Len(x.mailbox) /\ x.mailbox[1] = "sweepDrain"
        BY <1>3
      <4> QED BY <2>0, <4>1 DEF DrainIsLast
    <3>2. \/ RanFlush(x, y) /\ x.pending = 0 /\ Answered(h, FALSE)
          \/ RanFlush(x, y) /\ x.pending # 0 /\ UNCHANGED sweep
      BY <1>4 DEF RanCommand, RanAbandon, RanNothing
    <3>3. /\ RanFlush(x, y)
          /\ \/ x.pending = 0 /\ Answered(h, FALSE)
             \/ x.pending # 0 /\ UNCHANGED sweep
      BY <3>2
    <3>4. x.pending = 0 => sweep'.at = "drained" /\ sweep'.of = a
      BY <1>0, <3>1, <3>3, AnsweredSweep
    <3> QED BY <1>3, <3>1, <3>3, <3>4 DEF RanFlush
  <2>2. h # "sweepDrain" => UNCHANGED sweep /\ y.awaiting # "sweepDrain"
    BY <1>0, <1>4, AnsweredSweep DEF RanCommand, RanAbandon, RanNothing, RanFlush
  <2>3. DrainIsLast(a)'
    <3>1. CASE h = "sweepDrain"
      <4>1. \A i \in 1..Len(y.mailbox) : y.mailbox[i] # "sweepDrain"
        BY <2>1, <3>1
      <4> QED BY <2>1, <3>1, <4>1 DEF DrainIsLast
    <3>2. CASE h # "sweepDrain"
      <4>1. ASSUME NEW i \in 1..Len(y.mailbox), y.mailbox[i] = "sweepDrain"
            PROVE  sweep.at = "draining" /\ sweep.of = a /\ i = Len(y.mailbox)
        <5>1. x.mailbox[i + 1] = "sweepDrain" /\ i + 1 \in 1..Len(x.mailbox)
          BY <1>3, <4>1
        <5>2. sweep.at = "draining" /\ sweep.of = a /\ i + 1 = Len(x.mailbox)
          BY <2>0, <5>1 DEF DrainIsLast
        <5> QED BY <1>3, <5>2
      <4> QED BY <2>2, <3>2, <4>1 DEF DrainIsLast
    <3> QED BY <3>1, <3>2
  <2>4. EvictedIsSpent(a)'
    <3>1. CASE ~ x.evicted
      BY <1>1, <3>1 DEF EvictedIsSpent
    <3>2. CASE x.evicted
      <4>1. /\ x.pending = 0 /\ \A i \in 1..Len(x.mailbox) : x.mailbox[i] = "stopDrain"
        BY <2>0, <3>2 DEF EvictedIsSpent, Spent
      <4>2. h = "stopDrain"
        BY <1>3, <4>1
      <4>3. RanFlush(x, y)
        BY <1>4, <4>2 DEF RanCommand, RanAbandon, RanNothing
      <4>4. Spent(y)
        BY <4>1, <4>3 DEF RanFlush, Spent
      <4>5. \A i \in 1..Len(y.mailbox) : y.mailbox[i] = "stopDrain"
        BY <1>3, <4>1
      <4> QED BY <4>4, <4>5 DEF EvictedIsSpent, Spent
    <3> QED BY <3>1, <3>2
  <2>5. WritesAccepted(a)'
    <3>1. y.seq \in {x.seq, x.seq + 1} /\ (y.over = x.over \/ y.over)
      BY <1>4 DEF RanCommand, RanAbandon, RanNothing, RanFlush
    <3> QED BY <1>1, <1>2, <2>0, <3>1 DEF WritesAccepted, Live, RowAccepts
  <2>6. DrainedIsSpent'
    <3>1. CASE h = "sweepDrain"
      <4>1. sweep.at # "drained"
        BY <2>1, <3>1
      <4>2. sweep'.at = "drained" => Spent(y) /\ y.mailbox = <<>> /\ sweep'.of = a
        BY <2>1, <3>1, <4>1 DEF Spent
      <4> QED BY <4>2 DEF DrainedIsSpent, Spent
    <3>2. CASE h # "sweepDrain"
      <4>1. sweep' = sweep /\ (sweep.at = "drained" => sweep.of # a)
        BY <1>1, <2>0, <2>2, <3>2 DEF Undisturbed, DrainedIsSpent
      <4> QED BY <1>1, <2>0, <4>1 DEF Undisturbed, DrainedIsSpent, Spent
    <3> QED BY <3>1, <3>2
  <2>7. sweep' = sweep \/ sweep.of = a
    BY <2>1, <2>2
  <2>8. ASSUME NEW b \in Actors, b # a
        PROVE  DrainIsLast(b)' /\ EvictedIsSpent(b)' /\ WritesAccepted(b)'
    BY <1>1, <2>0, <2>7, <2>8, OthersQuiet
  <2> QED BY <2>3, <2>4, <2>5, <2>6, <2>8 DEF Undisturbed
<1> QED BY <1>1, <1>5, <1>6, <1>7 DEF Quiet

LEMMA QuietDbCommits == ASSUME Known, NEW a \in Actors, DbCommits(a) PROVE Quiet'
<1> DEFINE x == actor[a]
           y == actor'[a]
<1>0. Quiet /\ TypeOK /\ OnlyTheEntry
  BY DEF Known, IInv
<1>1. /\ \A b \in Actors : b # a => actor'[b] = actor[b]
      /\ FlushStep(x, y) /\ y.committed /\ y.awaiting = x.awaiting /\ y.pending = x.pending
      /\ y.timer = x.timer
  BY <1>0, DbCommitsEffect DEF Touches
<1>2. /\ Live(a) /\ x.awaiting # "none" /\ row' = [seq |-> x.seq, over |-> x.over]
      /\ UNCHANGED <<entry, sweep, late>>
  BY DEF DbCommits, history
<1>3. CommitsAwait'
  BY <1>0, <1>1, <1>2 DEF Quiet, CommitsAwait
<1>4. EntryStays'
  BY <1>0, <1>1, <1>2, ActorFacts DEF Quiet, EntryStays, FlushStep
<1>5. ASSUME ~ late PROVE Undisturbed'
  <2>0. Undisturbed /\ \A b \in Actors : DrainIsLast(b) /\ EvictedIsSpent(b) /\ WritesAccepted(b)
    BY <1>0, <1>5 DEF Quiet, Undisturbed
  <2>1. ~ x.evicted /\ entry = a
    BY <1>0, <1>2, <2>0 DEF EvictedIsSpent, Spent, OnlyTheEntry
  <2>2. DrainIsLast(a)'
    BY <1>1, <1>2, <2>0 DEF DrainIsLast, FlushStep
  <2>3. EvictedIsSpent(a)'
    BY <1>1, <2>1 DEF EvictedIsSpent, FlushStep
  <2>4. WritesAccepted(a)'
    <3>1. x.seq \in Nat /\ y.seq = x.seq /\ y.over = x.over /\ row'.seq = x.seq /\ row'.over = x.over
      BY <1>0, <1>1, <1>2, ActorFacts DEF FlushStep
    <3> QED BY <3>1 DEF WritesAccepted, RowAccepts
  <2>5. ASSUME NEW b \in Actors, b # a
        PROVE  DrainIsLast(b)' /\ EvictedIsSpent(b)' /\ WritesAccepted(b)'
    <3>1. actor'[b] = actor[b] /\ ~ (Live(b) /\ ~ actor[b].evicted)
      BY <1>0, <1>1, <2>1, <2>5 DEF OnlyTheEntry
    <3>2. WritesAccepted(b)'
      BY <3>1 DEF WritesAccepted, Live
    <3>3. DrainIsLast(b)' /\ EvictedIsSpent(b)'
      BY <1>2, <2>0, <3>1 DEF DrainIsLast, EvictedIsSpent, Spent
    <3> QED BY <3>2, <3>3
  <2>6. DrainedIsSpent'
    <3>1. sweep.at = "drained" => sweep.of # a
      BY <1>2, <2>0 DEF Undisturbed, DrainedIsSpent, Spent
    <3> QED BY <1>1, <1>2, <2>0, <3>1 DEF Undisturbed, DrainedIsSpent, Spent
  <2> QED BY <2>2, <2>3, <2>4, <2>5, <2>6 DEF Undisturbed
<1> QED BY <1>2, <1>3, <1>4, <1>5 DEF Quiet

\* A flush is answered or fails: nothing is awaited any more.
LEMMA QuietAnswer ==
    ASSUME Known, NEW a \in Actors, NEW failed \in BOOLEAN,
           IF failed THEN FlushFails(a) ELSE FlushSucceeds(a)
    PROVE  Quiet'
<1> DEFINE x == actor[a]
           y == actor'[a]
<1>0. Quiet /\ TypeOK /\ sweep \in Sweeps
  BY DEF Known, SweptIsLive
<1>1. /\ \A b \in Actors : b # a => actor'[b] = actor[b]
      /\ FlushStep(x, y) /\ ~ y.committed /\ y.awaiting = "none"
      /\ ~ failed => y.pending = 0
      /\ y.timer \in {x.timer, FALSE}
  BY <1>0, FlushSucceedsEffect, FlushFailsEffect DEF Touches
<1>2. /\ x.awaiting # "none" /\ UNCHANGED <<entry, row, late>> /\ Answered(x.awaiting, failed)
  BY <1>0 DEF FlushSucceeds, FlushFails, Quiet, CommitsAwait, history
<1>3. /\ x.awaiting # "sweepDrain" => sweep' = sweep
      /\ x.awaiting = "sweepDrain" /\ ~ failed => sweep'.at = "drained" /\ sweep'.of = sweep.of
      /\ x.awaiting = "sweepDrain" /\ failed => sweep'.at = "none"
  BY <1>0, <1>2, AnsweredSweep
<1>4. CommitsAwait'
  BY <1>0, <1>1 DEF Quiet, CommitsAwait
<1>5. EntryStays'
  BY <1>0, <1>1, <1>2, ActorFacts DEF Quiet, EntryStays, FlushStep
<1>6. ASSUME ~ late PROVE Undisturbed'
  <2>0. Undisturbed /\ DrainIsLast(a) /\ EvictedIsSpent(a) /\ WritesAccepted(a)
    BY <1>0, <1>6 DEF Quiet, Undisturbed
  <2>1. ~ x.evicted
    BY <1>2, <2>0 DEF EvictedIsSpent, Spent
  <2>2. x.awaiting = "sweepDrain" => sweep.of = a /\ sweep.at = "draining" /\ x.mailbox = <<>> /\ ~ x.timer
    BY <2>0 DEF DrainIsLast
  <2>3. DrainIsLast(a)'
    <3>1. CASE x.awaiting = "sweepDrain"
      <4>1. \A i \in 1..Len(y.mailbox) : y.mailbox[i] # "sweepDrain"
        <5>1. Len(y.mailbox) = 0
          BY <1>1, <2>2, <3>1, EmptySeq DEF FlushStep
        <5> QED BY <5>1
      <4> QED BY <1>1, <4>1 DEF DrainIsLast
    <3>2. CASE x.awaiting # "sweepDrain"
      BY <1>1, <1>3, <2>0, <3>2 DEF DrainIsLast, FlushStep
    <3> QED BY <3>1, <3>2
  <2>4. EvictedIsSpent(a)'
    BY <1>1, <2>1 DEF EvictedIsSpent, FlushStep
  <2>5. WritesAccepted(a)'
    BY <1>1, <1>2, <2>0 DEF WritesAccepted, Live, RowAccepts, FlushStep
  <2>6. DrainedIsSpent'
    <3>1. CASE x.awaiting = "sweepDrain"
      <4>1. sweep'.at = "drained" => Spent(y) /\ y.mailbox = <<>> /\ sweep'.of = a
        BY <1>1, <1>3, <2>2, <3>1 DEF Spent, FlushStep
      <4> QED BY <4>1 DEF DrainedIsSpent, Spent
    <3>2. CASE x.awaiting # "sweepDrain"
      <4>1. sweep' = sweep /\ (sweep.at = "drained" => sweep.of # a)
        BY <1>2, <1>3, <2>0, <3>2 DEF Undisturbed, DrainedIsSpent, Spent
      <4> QED BY <1>1, <2>0, <4>1 DEF Undisturbed, DrainedIsSpent, Spent
    <3> QED BY <3>1, <3>2
  <2>7. sweep' = sweep \/ sweep.of = a
    BY <1>3, <2>2
  <2>8. ASSUME NEW b \in Actors, b # a
        PROVE  DrainIsLast(b)' /\ EvictedIsSpent(b)' /\ WritesAccepted(b)'
    BY <1>1, <1>2, <2>0, <2>7, <2>8, OthersQuiet
  <2> QED BY <2>3, <2>4, <2>5, <2>6, <2>8 DEF Undisturbed
<1> QED BY <1>2, <1>4, <1>5, <1>6 DEF Quiet

LEMMA QuietHydrateSucceeds == ASSUME Known, NEW a \in Actors, HydrateSucceeds(a) PROVE Quiet'
<1> DEFINE y == actor'[a]
<1>0. Quiet /\ TypeOK
  BY DEF Known
<1>1. /\ \A b \in Actors : b # a => actor'[b] = actor[b]
      /\ Live(a)' /\ ~ y.evicted /\ y.seq = row.seq /\ y.over = row.over /\ y.pending = 0
      /\ y.awaiting = "none" /\ ~ y.committed /\ y.mailbox \in {<< "abandon" >>, <<>>}
  BY <1>0, HydrateSucceedsEffect DEF Touches
<1>2. UNCHANGED <<entry, row, sweep, late>> /\ sweep.at # "drained"
  BY DEF HydrateSucceeds, Settled, history
<1>3. CommitsAwait'
  BY <1>0, <1>1 DEF Quiet, CommitsAwait
<1>4. EntryStays'
  BY <1>0, <1>1, <1>2, ActorFacts DEF Quiet, EntryStays
<1>5. ASSUME ~ late PROVE Undisturbed'
  <2>0. Undisturbed
    BY <1>0, <1>5 DEF Quiet
  <2>1. \A i \in 1..Len(y.mailbox) : y.mailbox[i] # "sweepDrain"
    BY <1>1
  <2>2. DrainIsLast(a)'
    BY <1>1, <2>1 DEF DrainIsLast
  <2>3. EvictedIsSpent(a)'
    BY <1>1 DEF EvictedIsSpent
  <2>4. WritesAccepted(a)'
    BY <1>0, <1>1, <1>2, ActorFacts DEF WritesAccepted, RowAccepts
  <2>5. DrainedIsSpent'
    BY <1>2 DEF DrainedIsSpent
  <2>6. ASSUME NEW b \in Actors, b # a
        PROVE  DrainIsLast(b)' /\ EvictedIsSpent(b)' /\ WritesAccepted(b)'
    BY <1>1, <1>2, <2>0, <2>6, OthersQuiet
  <2> QED BY <2>2, <2>3, <2>4, <2>5, <2>6 DEF Undisturbed
<1> QED BY <1>2, <1>3, <1>4, <1>5 DEF Quiet

LEMMA QuietHydrateFails == ASSUME Known, NEW a \in Actors, HydrateFails(a) PROVE Quiet'
<1> DEFINE x == actor[a]
           y == actor'[a]
<1>0. Quiet /\ TypeOK
  BY DEF Known
<1>1. /\ \A b \in Actors : b # a => actor'[b] = actor[b]
      /\ y.phase = "gone" /\ y.evicted = x.evicted /\ y.pending = x.pending
      /\ y.awaiting = x.awaiting /\ y.committed = x.committed /\ y.mailbox = x.mailbox
      /\ y.timer = x.timer
  BY <1>0, HydrateFailsEffect DEF Touches
<1>2. UNCHANGED <<row, sweep, late>> /\ sweep.at # "drained" /\ entry' = 0
  BY DEF HydrateFails, Settled, history
<1>3. CommitsAwait'
  BY <1>0, <1>1 DEF Quiet, CommitsAwait
<1>4. EntryStays'
  BY <1>2 DEF EntryStays
<1>5. ASSUME ~ late PROVE Undisturbed'
  <2>0. Undisturbed /\ DrainIsLast(a) /\ EvictedIsSpent(a)
    BY <1>0, <1>5 DEF Quiet, Undisturbed
  <2>2. DrainIsLast(a)'
    BY <1>1, <1>2, <2>0 DEF DrainIsLast
  <2>3. EvictedIsSpent(a)'
    BY <1>1, <2>0 DEF EvictedIsSpent, Spent
  <2>4. WritesAccepted(a)'
    BY <1>1 DEF WritesAccepted, Live
  <2>5. DrainedIsSpent'
    BY <1>2 DEF DrainedIsSpent
  <2>6. ASSUME NEW b \in Actors, b # a
        PROVE  DrainIsLast(b)' /\ EvictedIsSpent(b)' /\ WritesAccepted(b)'
    BY <1>1, <1>2, <2>0, <2>6, OthersQuiet
  <2> QED BY <2>2, <2>3, <2>4, <2>5, <2>6 DEF Undisturbed
<1> QED BY <1>2, <1>3, <1>4, <1>5 DEF Quiet

\* What is evicted has been drained.
LEMMA QuietEvict == ASSUME Known, Evict PROVE Quiet'
<1>0. Quiet /\ TypeOK /\ IInv /\ SweptIsLive
  BY DEF Known
<1>1. /\ sweep.at = "drained" /\ sweep' = [of |-> 0, at |-> "none"] /\ UNCHANGED <<row, late>>
  BY DEF Evict, history
<1>2. ASSUME ~ late
      PROVE  /\ Undisturbed
             /\ \A b \in Actors : \A i \in 1..Len(actor[b].mailbox) : actor[b].mailbox[i] # "sweepDrain"
             /\ \A b \in Actors : actor[b].awaiting # "sweepDrain"
  <2>1. Undisturbed
    BY <1>0, <1>2 DEF Quiet
  <2> QED BY <1>1, <2>1 DEF Undisturbed, DrainIsLast
<1>3. CASE UNCHANGED <<entry, actor>>
  <2>1. CommitsAwait' /\ EntryStays'
    BY <1>0, <1>3 DEF Quiet, CommitsAwait, EntryStays
  <2>2. ASSUME ~ late, NEW b \in Actors PROVE DrainIsLast(b)' /\ EvictedIsSpent(b)' /\ WritesAccepted(b)'
    <3>1. EvictedIsSpent(b) /\ WritesAccepted(b) /\ actor'[b] = actor[b]
      BY <1>2, <1>3, <2>2 DEF Undisturbed
    <3>2. DrainIsLast(b)'
      BY <1>2, <2>2, <3>1 DEF DrainIsLast
    <3> QED BY <1>1, <3>1, <3>2 DEF EvictedIsSpent, WritesAccepted, Live, RowAccepts, Spent
  <2>3. DrainedIsSpent'
    BY <1>1 DEF DrainedIsSpent
  <2> QED BY <1>1, <2>1, <2>2, <2>3 DEF Quiet, Undisturbed
<1>4. CASE /\ entry' = 0 /\ sweep.of \in Actors /\ ~ UNCHANGED <<entry, actor>>
  <2>0. PICK a \in Actors : a = sweep.of
    BY <1>4
  <2> DEFINE x == actor[a]
             y == actor'[a]
  <2>1. /\ \A b \in Actors : b # a => actor'[b] = actor[b]
        /\ y.evicted /\ y.mailbox = x.mailbox /\ y.pending = x.pending
        /\ y.awaiting = x.awaiting /\ y.committed = x.committed /\ y.timer = x.timer
    BY <1>0, <1>4, <2>0, EvictEffect DEF Touches
  <2>2. CommitsAwait'
    BY <1>0, <2>1 DEF Quiet, CommitsAwait
  <2>3. EntryStays'
    BY <1>4 DEF EntryStays
  <2>4. ASSUME ~ late PROVE Undisturbed'
    <3>1. Spent(x) /\ x.mailbox = <<>>
      BY <1>1, <1>2, <2>0, <2>4 DEF Undisturbed, DrainedIsSpent
    <3>2. EvictedIsSpent(a)'
      <4>1. Spent(y) /\ Len(y.mailbox) = 0
        BY <2>1, <3>1, EmptySeq DEF Spent
      <4> QED BY <4>1 DEF EvictedIsSpent, Spent
    <3>3. DrainIsLast(a)'
      BY <1>2, <2>1, <2>4 DEF DrainIsLast
    <3>4. WritesAccepted(a)'
      BY <2>1 DEF WritesAccepted
    <3>5. ASSUME NEW b \in Actors, b # a
          PROVE  DrainIsLast(b)' /\ EvictedIsSpent(b)' /\ WritesAccepted(b)'
      BY <1>1, <1>2, <2>0, <2>1, <2>4, <3>5, OthersQuiet
    <3>6. DrainedIsSpent'
      BY <1>1 DEF DrainedIsSpent
    <3> QED BY <3>2, <3>3, <3>4, <3>5, <3>6 DEF Undisturbed
  <2> QED BY <1>1, <2>2, <2>3, <2>4 DEF Quiet
<1> QED BY <1>0, <1>3, <1>4, EvictEffect

LEMMA QuietNext == ASSUME Known, Next PROVE Quiet'
<1>0. Quiet /\ TypeOK /\ Placed /\ EntryStays
  BY DEF Known, IInv, Quiet
<1>1. ASSUME Settled PROVE sweep.at # "drained"
  BY <1>1 DEF Settled
<1>2. CASE Abandon
  <2>1. UNCHANGED <<row, sweep>> /\ Settled
    BY <1>2 DEF Abandon
  <2>2. CASE entry # 0 /\ Live(entry)
    <3>1. /\ entry \in Actors /\ "abandon" \in Tasks /\ actor' = Queued(entry, "abandon")
          /\ late' = (late \/ Behind(entry)) /\ UNCHANGED entry /\ ~ actor[entry].evicted
      BY <1>0, <1>2, <2>2, ActorFacts DEF Abandon, Tasks, EntryStays
    <3>2. late \in BOOLEAN
      BY <1>0 DEF TypeOK
    <3> QED BY <1>0, <1>1, <2>1, <3>1, <3>2, QuietQueue
  <2>3. CASE ~ (entry # 0 /\ Live(entry))
    BY <1>1, <1>2, <2>1, <2>3, QuietGetOrHydrate DEF Abandon
  <2> QED BY <2>2, <2>3
<1>3. CASE Signal \/ StopCloses \/ Exit
  <2>1. UNCHANGED <<entry, actor, row, sweep, late>>
    BY <1>3 DEF Signal, StopCloses, Exit, history
  <2> QED BY <1>0, <2>1, QuietAlone DEF SameTasks, SameGame
<1>4. ASSUME NEW s \in Sockets, Hello(s) PROVE Quiet'
  BY <1>1, <1>4, QuietGetOrHydrate DEF Hello, history
<1>5. ASSUME NEW s \in Sockets, Close(s) PROVE Quiet'
  <2>1. UNCHANGED <<entry, row, sweep, late>>
    BY <1>5 DEF Close, history
  <2>2. CASE socket[s].at = "attached"
    <3>1. socket[s].actor \in Actors /\ actor' = [actor EXCEPT ![socket[s].actor].idle = FALSE]
      BY <1>0, <1>5, <2>2 DEF Close, Placed
    <3>2. Touches(socket[s].actor) /\ SameTasks(actor[socket[s].actor], actor'[socket[s].actor])
      BY <1>0, <3>1, IdleEffect
    <3> QED BY <1>0, <2>1, <3>2, QuietAlone DEF Touches, SameTasks, SameGame
  <2>3. CASE socket[s].at # "attached"
    <3>1. UNCHANGED actor
      BY <1>5, <2>3 DEF Close
    <3> QED BY <1>0, <2>1, <3>1, QuietAlone DEF SameTasks, SameGame
  <2> QED BY <2>2, <2>3
<1>6. ASSUME NEW s \in Sockets, Command(s) PROVE Quiet'
  <2>1. /\ socket[s].actor \in Actors /\ ~ actor[socket[s].actor].evicted /\ Settled
        /\ actor' = Queued(socket[s].actor, "command") /\ UNCHANGED <<entry, row, sweep>>
        /\ late' = (late \/ Behind(socket[s].actor)) /\ "command" \in Tasks
    BY <1>0, <1>6 DEF Command, Placed, Tasks
  <2>2. late \in BOOLEAN
    BY <1>0 DEF TypeOK
  <2> QED BY <1>0, <1>1, <2>1, <2>2, QuietQueue
<1>7. CASE StopDrains
  <2>1. UNCHANGED <<entry, row, sweep>> /\ Settled
    BY <1>7 DEF StopDrains
  <2>2. CASE Live(stop.of) /\ stop.of \in Actors
    <3>1. /\ actor' = [Queued(stop.of, "stopDrain") EXCEPT ![stop.of].timer = FALSE]
          /\ late' = (late \/ Behind(stop.of)) /\ "stopDrain" \in Tasks
      BY <1>7, <2>2 DEF StopDrains, Tasks
    <3>2. late \in BOOLEAN
      BY <1>0 DEF TypeOK
    <3> QED BY <1>0, <1>1, <2>1, <2>2, <3>1, <3>2, QuietQueue
  <2>3. CASE ~ Live(stop.of)
    <3>1. UNCHANGED <<actor, late>>
      BY <1>7, <2>3 DEF StopDrains
    <3> QED BY <1>0, <2>1, <3>1, QuietAlone DEF SameTasks, SameGame
  <2>4. CASE Live(stop.of) /\ stop.of \notin Actors
    <3>1. actor \in [Actors -> ActorType]
      BY <1>0, TypeParts DEF ActorsOK
    <3>2. actor' = [Queued(stop.of, "stopDrain") EXCEPT ![stop.of].timer = FALSE]
      BY <1>7, <2>4 DEF StopDrains
    <3>3. UNCHANGED actor
      BY <2>4, <3>1, <3>2 DEF Queued
    <3>4. ~ late' => ~ late
      BY <1>7, <2>4 DEF StopDrains
    <3>5. CASE late'
      <4>1. CommitsAwait' /\ EntryStays'
        BY <1>0, <2>1, <3>3 DEF Quiet, CommitsAwait, EntryStays
      <4> QED BY <3>5, <4>1 DEF Quiet
    <3>6. CASE ~ late'
      <4>1. late' = late
        BY <1>0, <1>7, <2>4, <3>4, <3>6 DEF StopDrains, TypeOK
      <4> QED BY <1>0, <2>1, <3>3, <4>1, QuietAlone DEF SameTasks, SameGame
    <3> QED BY <3>5, <3>6
  <2> QED BY <2>2, <2>3, <2>4
<1>8. ASSUME NEW s \in Sockets, Attach(s) PROVE Quiet'
  <2>2. CASE ~ Refuses(socket[s].actor)
    <3>1. /\ socket[s].actor \in Actors /\ actor' = [actor EXCEPT ![socket[s].actor].idle = FALSE]
          /\ UNCHANGED <<entry, row, sweep, late>>
      BY <1>0, <1>8, <2>2 DEF Attach, Placed, history
    <3>2. Touches(socket[s].actor) /\ SameTasks(actor[socket[s].actor], actor'[socket[s].actor])
      BY <1>0, <3>1, IdleEffect
    <3> QED BY <1>0, <3>1, <3>2, QuietAlone DEF Touches, SameTasks, SameGame
  <2>3. CASE Refuses(socket[s].actor)
    <3>1. /\ UNCHANGED <<row, sweep, late>> /\ sweep.at # "drained"
          /\ GetOrHydrate \/ UNCHANGED <<entry, made, actor>>
      BY <1>1, <1>8, <2>3 DEF Attach, history
    <3>2. CASE UNCHANGED <<entry, made, actor>>
      BY <1>0, <3>1, <3>2, QuietAlone DEF SameTasks, SameGame
    <3> QED BY <3>1, <3>2, QuietGetOrHydrate
  <2> QED BY <2>2, <2>3
<1>9. ASSUME NEW a \in Actors, FlushTimerFires(a) PROVE Quiet'
  <2>1. /\ actor' = [Queued(a, "flush") EXCEPT ![a].timer = FALSE] /\ actor[a].timer /\ Settled
        /\ late' = (late \/ Behind(a)) /\ "flush" \in Tasks /\ UNCHANGED <<entry, row, sweep>>
    BY <1>9 DEF FlushTimerFires, Tasks
  <2>2. ~ late => ~ actor[a].evicted
    BY <1>0, <2>1 DEF Quiet, Undisturbed, EvictedIsSpent, Spent
  <2>3. late \in BOOLEAN
    BY <1>0 DEF TypeOK
  <2> QED BY <1>0, <1>1, <2>1, <2>2, <2>3, QuietQueue
<1>10. ASSUME NEW a \in Actors, IdleWindowPasses(a) PROVE Quiet'
  <2>1. actor' = [actor EXCEPT ![a].idle = TRUE] /\ UNCHANGED <<entry, row, sweep, late>>
    BY <1>10 DEF IdleWindowPasses, history
  <2>2. Touches(a) /\ SameTasks(actor[a], actor'[a])
    BY <1>0, <2>1, IdleEffect
  <2> QED BY <1>0, <2>1, <2>2, QuietAlone DEF Touches, SameTasks, SameGame
<1>11. ASSUME NEW a \in Actors, FlushSucceeds(a) PROVE Quiet'
  BY <1>11, QuietAnswer
<1>12. ASSUME NEW a \in Actors, FlushFails(a) PROVE Quiet'
  BY <1>12, QuietAnswer
<1> QED BY <1>2, <1>3, <1>4, <1>5, <1>6, <1>7, <1>8, <1>9, <1>10, <1>11, <1>12, QuietSweepDrains,
           QuietEvict, QuietRunTask, QuietDbCommits, QuietHydrateSucceeds, QuietHydrateFails
        DEF Next, Clients, Process, Failures

LEMMA KnownNext == Known /\ [Next]_vars => Known'
<1> SUFFICES ASSUME Known, [Next]_vars PROVE Known'
  OBVIOUS
<1>1. (IInv /\ SweptIsLive)'
  BY NextIInv DEF Known
<1>2. CASE Next
  BY <1>1, <1>2, TypeStep, QuietNext DEF Known
<1>3. CASE UNCHANGED vars
  <2>1. TypeOK'
    <3>1. ActorsOK /\ EntryOK /\ SocketsOK /\ RowOK /\ WaitersOK /\ HistoryOK
      BY TypeParts DEF Known
    <3>2. ActorsOK' /\ EntryOK' /\ RowOK'
      BY <1>3, <3>1 DEF vars, ActorsOK, EntryOK, RowOK
    <3>3. WaitersOK' /\ SocketsOK'
      <4>1. UNCHANGED <<made, socket, asker, sweep, stop>>
        BY <1>3 DEF vars
      <4>2. WaitersOK'
        BY <3>1, <4>1 DEF WaitersOK
      <4>3. SocketsOK'
        BY <3>1, <4>1 DEF SocketsOK, SocketType
      <4> QED BY <4>2, <4>3
    <3>4. HistoryOK'
      BY <1>3, <3>1 DEF vars, history, HistoryOK
    <3> QED BY <3>2, <3>3, <3>4, TypePartsNext
  <2>2. Quiet'
    BY <1>3, QuietAlone DEF Known, vars, history, SameTasks, SameGame
  <2> QED BY <1>1, <2>1, <2>2 DEF Known
<1> QED BY <1>2, <1>3

LEMMA KnownAlways == Spec => []Known
<1>1. Init => Known
  <2>1. Init => SweptIsLive
    BY DEF Init, SweptIsLive, Sweeps
  <2> QED BY <2>1, InitIInv, InitTypeOK, InitQuiet DEF Known
<1> QED BY <1>1, KnownNext, PTL DEF Spec

\* The types of the registry's state.
THEOREM TypeCorrect == Spec => []TypeOK
<1>1. Known => TypeOK
  BY DEF Known
<1> QED BY <1>1, KnownAlways, PTL

\* Eviction never splits the writer: as long as nothing was queued behind a
\* passivation's drain, whichever flush or hydration failed, an actor that was evicted has no
\* socket and nothing to write, and the one handed out is never behind the row.
THEOREM EvictionIsQuiet == Spec => []QuietEviction
<1>1. Known => QuietEviction
  <2> SUFFICES ASSUME Known, ~ late PROVE SingleWriter /\ EvictedIsEmpty
    BY DEF QuietEviction
  <2>1. \A a \in Actors : EvictedIsSpent(a) /\ WritesAccepted(a)
    BY DEF Known, Quiet, Undisturbed
  <2>2. SingleWriter
    BY <2>1 DEF SingleWriter, WritesAccepted
  <2>3. ASSUME NEW a \in Actors, actor[a].evicted
        PROVE  Attached(a) = {} /\ actor[a].awaiting = "none" /\ actor[a].pending = 0
    <3>1. Attached(a) = {}
      BY <2>3 DEF Known, IInv, Placed, Attached
    <3> QED BY <2>1, <2>3, <3>1 DEF EvictedIsSpent, Spent
  <2> QED BY <2>2, <2>3 DEF EvictedIsEmpty
<1> QED BY <1>1, KnownAlways, PTL

-----------------------------------------------------------------------------
(* What a graceful stop keeps.                                             *)

\* The drain of a shutdown waits at, or is awaited by, actor a.
Draining(a) ==
    \/ actor[a].awaiting = "stopDrain"
    \/ \E i \in 1..Len(actor[a].mailbox) : actor[a].mailbox[i] = "stopDrain"

\* Only the actor the shutdown named is asked for its drain.
StopIsOne == \A a \in Actors : Draining(a) => stop.at # "up" /\ stop.of = a

\* What was told is in the row, or with the actor that is handed out.
ToldIsKept == told <= row.seq \/ (entry # 0 /\ Live(entry) /\ told <= actor[entry].seq)

\* An actor with nothing left to write has written all it accepted.
Written(a) ==
    LET x == actor[a]
    IN  Live(a) /\ ~ x.evicted /\ (x.committed \/ (x.awaiting = "none" /\ x.pending = 0))
            => x.seq <= row.seq

\* What was promised is in the row, or with the actor the shutdown still waits for.
InHand ==
    /\ stop.at \in {"listing", "draining"} /\ stop.of \in Actors
    /\ Live(stop.of) /\ ~ actor[stop.of].evicted /\ promised <= actor[stop.of].seq

PromiseIsKept == promised <= row.seq \/ InHand

Clean == faults = 0 /\ ~ late

AllKept == ToldIsKept /\ (\A a \in Actors : Written(a)) /\ PromiseIsKept

Kept == StopIsOne /\ (Clean => AllKept)

LEMMA InitKept == Init => Kept
<1> SUFFICES ASSUME Init PROVE Kept
  OBVIOUS
<1>1. \A a \in Actors : actor[a] = Unborn
  BY DEF Init
<1>2. /\ Unborn.mailbox = <<>> /\ Unborn.awaiting = "none" /\ Unborn.phase = "unborn"
      /\ Len(<<>>) = 0
  BY DEF Unborn
<1>3. told = 0 /\ promised = 0 /\ row.seq = 0
  BY DEF Init
<1>4. \A a \in Actors : ~ Draining(a)
  BY <1>1, <1>2 DEF Draining
<1>5. \A a \in Actors : Written(a)
  BY <1>1, <1>2 DEF Written, Live
<1> QED BY <1>3, <1>4, <1>5 DEF Kept, StopIsOne, AllKept, ToldIsKept, PromiseIsKept

\* A step by which no actor begins to drain, unless it is the one the shutdown names.
LEMMA StopStays ==
    ASSUME StopIsOne, stop' = stop \/ (stop'.at # "up" /\ stop'.of = stop.of),
           \A a \in Actors : Draining(a)' => Draining(a) \/ (stop'.at # "up" /\ stop'.of = a)
    PROVE  StopIsOne'
BY DEF StopIsOne

LEMMA AnsweredStop ==
    ASSUME TypeOK, NEW task, NEW failed, Answered(task, failed)
    PROVE  /\ stop' = stop \/ (stop'.at # "up" /\ stop'.of = stop.of)
           /\ task # "stopDrain" => stop' = stop
BY DEF Answered, TypeOK

LEMMA StopQueue ==
    ASSUME TypeOK, StopIsOne, NEW a \in Actors, NEW task \in Tasks,
           actor' = Queued(a, task) \/ actor' = [Queued(a, task) EXCEPT ![a].timer = FALSE],
           stop' = stop \/ (stop'.at # "up" /\ stop'.of = stop.of),
           task = "stopDrain" => stop'.at # "up" /\ stop'.of = a
    PROVE  StopIsOne'
<1> DEFINE x == actor[a]
           y == actor'[a]
<1>1. /\ \A b \in Actors : b # a => actor'[b] = actor[b]
      /\ y.awaiting = x.awaiting /\ y.mailbox = Append(x.mailbox, task)
  BY QueueEffect DEF Touches, SameGame
<1>2. ASSUME NEW i \in 1..Len(y.mailbox), y.mailbox[i] # task
      PROVE  i \in 1..Len(x.mailbox) /\ x.mailbox[i] = y.mailbox[i]
  <2>1. x.mailbox \in Seq(Tasks)
    BY ActorFacts
  <2> HIDE DEF x, y
  <2> QED BY <1>1, <1>2, <2>1
<1>3. Draining(a)' => Draining(a) \/ task = "stopDrain"
  BY <1>1, <1>2 DEF Draining
<1>4. \A b \in Actors : b # a => (Draining(b)' => Draining(b))
  BY <1>1 DEF Draining
<1> QED BY <1>3, <1>4, StopStays

LEMMA StopSame ==
    ASSUME StopIsOne, stop' = stop \/ (stop'.at # "up" /\ stop'.of = stop.of),
           \A a \in Actors : /\ actor'[a].mailbox = actor[a].mailbox
                             /\ actor'[a].awaiting = actor[a].awaiting
    PROVE  StopIsOne'
<1>1. \A a \in Actors : Draining(a)' => Draining(a)
  BY DEF Draining
<1> QED BY <1>1, StopStays

LEMMA StopGetOrHydrate ==
    ASSUME TypeOK, StopIsOne, GetOrHydrate, UNCHANGED stop PROVE StopIsOne'
<1>1. CASE UNCHANGED actor
  BY <1>1, StopSame
<1>2. CASE made + 1 \in Actors /\ Touches(made + 1) /\ actor'[made + 1] = Loading
  <2>0. PICK a \in Actors : a = made + 1
    BY <1>2
  <2>1. /\ \A b \in Actors : b # a => actor'[b] = actor[b]
        /\ actor'[a].mailbox = <<>> /\ actor'[a].awaiting = "none" /\ Len(<<>>) = 0
    BY <1>2, <2>0 DEF Touches, Loading, Unborn
  <2>2. ~ Draining(a)'
    BY <2>1 DEF Draining
  <2>3. \A b \in Actors : b # a => (Draining(b)' => Draining(b))
    BY <2>1 DEF Draining
  <2> QED BY <2>2, <2>3, StopStays
<1> QED BY <1>1, <1>2, GetOrHydrateEffect

LEMMA StopRunTask == ASSUME TypeOK, StopIsOne, NEW a \in Actors, RunTask(a) PROVE StopIsOne'
<1> DEFINE x == actor[a]
           y == actor'[a]
<1>1. /\ \A b \in Actors : b # a => actor'[b] = actor[b]
      /\ x.mailbox # <<>> /\ y.mailbox = Tail(x.mailbox) /\ Ran(a)
  BY RunTaskEffect DEF Touches
<1>2. x.mailbox \in Seq(Tasks)
  BY ActorFacts
<1>3. /\ 1 \in 1..Len(x.mailbox) /\ Head(x.mailbox) = x.mailbox[1]
      /\ \A i \in 1..Len(y.mailbox) : y.mailbox[i] = x.mailbox[i + 1] /\ i + 1 \in 1..Len(x.mailbox)
  <2> HIDE DEF x, y
  <2> QED BY <1>1, <1>2, MailboxTail
<1>4. y.awaiting = "stopDrain" => Head(x.mailbox) = "stopDrain"
  BY <1>1 DEF Ran, RanCommand, RanAbandon, RanNothing, RanFlush
<1>5. Draining(a)' => Draining(a)
  BY <1>3, <1>4 DEF Draining
<1>6. \A b \in Actors : b # a => (Draining(b)' => Draining(b))
  BY <1>1 DEF Draining
<1>7. stop' = stop \/ (stop'.at # "up" /\ stop'.of = stop.of)
  BY <1>1, AnsweredStop DEF Ran
<1> QED BY <1>5, <1>6, <1>7, StopStays

LEMMA StopNext == ASSUME Known, StopIsOne, Next PROVE StopIsOne'
<1>0. TypeOK /\ Placed
  BY DEF Known, IInv
<1>1. ASSUME UNCHANGED <<actor, stop>> PROVE StopIsOne'
  BY <1>1, StopSame
<1>2. CASE Abandon
  <2>1. CASE entry # 0 /\ Live(entry)
    <3>1. /\ entry \in Actors /\ "abandon" \in Tasks /\ actor' = Queued(entry, "abandon")
          /\ UNCHANGED stop
      BY <1>0, <1>2, <2>1, ActorFacts DEF Abandon, Tasks
    <3> QED BY <1>0, <3>1, StopQueue
  <2>2. CASE ~ (entry # 0 /\ Live(entry))
    BY <1>0, <1>2, <2>2, StopGetOrHydrate DEF Abandon
  <2> QED BY <2>1, <2>2
<1>3. CASE Signal
  <2>1. \A a \in Actors : ~ Draining(a)
    BY <1>3 DEF Signal, StopIsOne
  <2>2. \A a \in Actors : ~ Draining(a)'
    BY <1>3, <2>1 DEF Signal, Draining
  <2> QED BY <2>2 DEF StopIsOne
<1>4. ASSUME NEW s \in Sockets, Hello(s) PROVE StopIsOne'
  BY <1>0, <1>4, StopGetOrHydrate DEF Hello
<1>5. ASSUME NEW s \in Sockets, Close(s) PROVE StopIsOne'
  <2>1. CASE socket[s].at = "attached"
    <3>1. socket[s].actor \in Actors /\ actor' = [actor EXCEPT ![socket[s].actor].idle = FALSE]
      BY <1>0, <1>5, <2>1 DEF Close, Placed
    <3>2. Touches(socket[s].actor) /\ SameTasks(actor[socket[s].actor], actor'[socket[s].actor])
      BY <1>0, <3>1, IdleEffect
    <3> QED BY <1>5, <3>2, StopSame DEF Close, Touches, SameTasks, SameGame
  <2>2. CASE socket[s].at # "attached"
    BY <1>1, <1>5, <2>2 DEF Close
  <2> QED BY <2>1, <2>2
<1>6. ASSUME NEW s \in Sockets, Command(s) PROVE StopIsOne'
  <2>1. /\ socket[s].actor \in Actors /\ actor' = Queued(socket[s].actor, "command")
        /\ "command" \in Tasks /\ UNCHANGED stop
    BY <1>0, <1>6 DEF Command, Placed, Tasks
  <2> QED BY <1>0, <2>1, StopQueue
<1>7. CASE SweepDrains
  <2>1. /\ entry \in Actors /\ "sweepDrain" \in Tasks /\ UNCHANGED stop
        /\ actor' = [Queued(entry, "sweepDrain") EXCEPT ![entry].timer = FALSE]
    BY <1>0, <1>7, ActorFacts DEF SweepDrains, Tasks
  <2> QED BY <1>0, <2>1, StopQueue
<1>8. CASE Evict
  <2>0. UNCHANGED stop /\ IInv /\ SweptIsLive
    BY <1>8 DEF Evict, Known
  <2>1. CASE UNCHANGED actor
    BY <1>1, <2>0, <2>1
  <2>2. CASE /\ Touches(sweep.of) /\ actor'[sweep.of].mailbox = actor[sweep.of].mailbox
             /\ actor'[sweep.of].awaiting = actor[sweep.of].awaiting
    BY <2>0, <2>2, StopSame DEF Touches
  <2> QED BY <1>0, <1>8, <2>0, <2>1, <2>2, EvictEffect
<1>9. CASE StopDrains
  <2>1. CASE Live(stop.of) /\ stop.of \in Actors
    <3>1. /\ actor' = [Queued(stop.of, "stopDrain") EXCEPT ![stop.of].timer = FALSE]
          /\ stop' = [stop EXCEPT !.at = "draining"] /\ "stopDrain" \in Tasks
      BY <1>9, <2>1 DEF StopDrains, Tasks
    <3>2. stop'.at # "up" /\ stop'.of = stop.of
      BY <1>0, <3>1 DEF TypeOK
    <3> QED BY <1>0, <2>1, <3>1, <3>2, StopQueue
  <2>2. CASE ~ (Live(stop.of) /\ stop.of \in Actors)
    <3>1. actor \in [Actors -> ActorType]
      BY <1>0, TypeParts DEF ActorsOK
    <3>2. UNCHANGED actor
      BY <1>9, <2>2, <3>1 DEF StopDrains, Queued
    <3>3. stop'.at # "up" /\ stop'.of = stop.of
      BY <1>0, <1>9 DEF StopDrains, TypeOK
    <3> QED BY <3>2, <3>3, StopSame
  <2> QED BY <2>1, <2>2
<1>10. CASE StopCloses \/ Exit
  <2>1. UNCHANGED actor
    BY <1>10 DEF StopCloses, Exit
  <2>2. stop'.at # "up" /\ stop'.of = stop.of
    BY <1>0, <1>10 DEF StopCloses, Exit, TypeOK
  <2> QED BY <2>1, <2>2, StopSame
<1>11. ASSUME NEW s \in Sockets, Attach(s) PROVE StopIsOne'
  <2>0. UNCHANGED stop
    BY <1>11 DEF Attach
  <2>1. CASE ~ Refuses(socket[s].actor)
    <3>1. socket[s].actor \in Actors /\ actor' = [actor EXCEPT ![socket[s].actor].idle = FALSE]
      BY <1>0, <1>11, <2>1 DEF Attach, Placed
    <3>2. Touches(socket[s].actor) /\ SameTasks(actor[socket[s].actor], actor'[socket[s].actor])
      BY <1>0, <3>1, IdleEffect
    <3> QED BY <2>0, <3>2, StopSame DEF Touches, SameTasks, SameGame
  <2>2. CASE Refuses(socket[s].actor)
    <3>1. GetOrHydrate \/ UNCHANGED actor
      BY <1>11, <2>2 DEF Attach
    <3> QED BY <1>0, <1>1, <2>0, <3>1, StopGetOrHydrate
  <2> QED BY <2>1, <2>2
<1>12. ASSUME NEW a \in Actors, HydrateSucceeds(a) PROVE StopIsOne'
  <2>1. /\ \A b \in Actors : b # a => actor'[b] = actor[b]
        /\ actor'[a].awaiting = "none" /\ actor'[a].mailbox \in {<< "abandon" >>, <<>>}
    BY <1>0, <1>12, HydrateSucceedsEffect DEF Touches
  <2>2. \A i \in 1..Len(actor'[a].mailbox) : actor'[a].mailbox[i] # "stopDrain"
    BY <2>1
  <2>3. ~ Draining(a)'
    BY <2>1, <2>2 DEF Draining
  <2>4. \A b \in Actors : b # a => (Draining(b)' => Draining(b))
    BY <2>1 DEF Draining
  <2>5. UNCHANGED stop
    BY <1>12 DEF HydrateSucceeds
  <2> QED BY <2>3, <2>4, <2>5, StopStays
<1>13. ASSUME NEW a \in Actors, FlushTimerFires(a) PROVE StopIsOne'
  <2>1. /\ actor' = [Queued(a, "flush") EXCEPT ![a].timer = FALSE]
        /\ "flush" \in Tasks /\ UNCHANGED stop
    BY <1>13 DEF FlushTimerFires, Tasks
  <2> QED BY <1>0, <2>1, StopQueue
<1>14. ASSUME NEW a \in Actors, IdleWindowPasses(a) PROVE StopIsOne'
  <2>1. actor' = [actor EXCEPT ![a].idle = TRUE] /\ UNCHANGED stop
    BY <1>14 DEF IdleWindowPasses
  <2>2. Touches(a) /\ SameTasks(actor[a], actor'[a])
    BY <1>0, <2>1, IdleEffect
  <2> QED BY <2>1, <2>2, StopSame DEF Touches, SameTasks, SameGame
<1>15. ASSUME NEW a \in Actors, DbCommits(a) PROVE StopIsOne'
  <2>1. Touches(a) /\ FlushStep(actor[a], actor'[a]) /\ actor'[a].awaiting = actor[a].awaiting
    BY <1>0, <1>15, DbCommitsEffect
  <2>2. UNCHANGED stop
    BY <1>15 DEF DbCommits
  <2> QED BY <2>1, <2>2, StopSame DEF Touches, FlushStep
<1>16. ASSUME NEW a \in Actors, FlushSucceeds(a) \/ FlushFails(a) PROVE StopIsOne'
  <2>1. Touches(a) /\ FlushStep(actor[a], actor'[a]) /\ actor'[a].awaiting = "none"
    BY <1>0, <1>16, FlushSucceedsEffect, FlushFailsEffect
  <2>2. stop' = stop \/ (stop'.at # "up" /\ stop'.of = stop.of)
    BY <1>0, <1>16, AnsweredStop DEF FlushSucceeds, FlushFails
  <2>3. \A b \in Actors : Draining(b)' => Draining(b)
    BY <2>1 DEF Draining, Touches, FlushStep
  <2> QED BY <2>2, <2>3, StopStays
<1>17. ASSUME NEW a \in Actors, HydrateFails(a) PROVE StopIsOne'
  <2>1. /\ Touches(a) /\ actor'[a].awaiting = actor[a].awaiting
        /\ actor'[a].mailbox = actor[a].mailbox /\ UNCHANGED stop
    BY <1>0, <1>17, HydrateFailsEffect DEF HydrateFails
  <2> QED BY <2>1, StopSame DEF Touches
<1> QED BY <1>0, <1>2, <1>3, <1>4, <1>5, <1>6, <1>7, <1>8, <1>9, <1>10, <1>11, <1>12, <1>13, <1>14,
           <1>15, <1>16, <1>17, StopRunTask
        DEF Next, Clients, Process, Failures

\* A step that leaves the game, its flushes and the row alone.
LEMMA KeptAlone ==
    ASSUME AllKept, UNCHANGED <<entry, row, told, promised>>,
           \A a \in Actors : SameGame(actor[a], actor'[a]),
           entry # 0 => entry \in Actors, InHand => InHand'
    PROVE  AllKept'
<1>1. ToldIsKept'
  BY DEF AllKept, ToldIsKept, SameGame, Live
<1>2. ASSUME NEW a \in Actors PROVE Written(a)'
  <2>1. Written(a) /\ SameGame(actor[a], actor'[a])
    BY DEF AllKept
  <2> QED BY <2>1 DEF Written, SameGame, Live
<1>3. PromiseIsKept'
  BY DEF AllKept, PromiseIsKept
<1> QED BY <1>1, <1>2, <1>3 DEF AllKept

LEMMA InHandStays ==
    ASSUME InHand, UNCHANGED promised, \A a \in Actors : SameGame(actor[a], actor'[a]),
           stop'.of = stop.of, stop'.at \in {"listing", "draining"}
    PROVE  InHand'
BY DEF InHand, SameGame, Live

LEMMA KeptQueue ==
    ASSUME TypeOK, AllKept, NEW a \in Actors, NEW task \in Tasks,
           actor' = Queued(a, task) \/ actor' = [Queued(a, task) EXCEPT ![a].timer = FALSE],
           UNCHANGED <<entry, row, told, promised>>,
           stop' = stop \/ (stop'.of = stop.of /\ stop'.at = "draining")
    PROVE  AllKept'
<1>1. \A b \in Actors : SameGame(actor[b], actor'[b])
  BY QueueEffect DEF Touches, SameGame
<1>2. InHand => InHand'
  BY <1>1, InHandStays DEF InHand
<1> QED BY <1>1, <1>2, KeptAlone, ActorFacts

LEMMA KeptIdle ==
    ASSUME TypeOK, AllKept, UNCHANGED <<entry, row, told, promised, stop>>,
           \/ UNCHANGED actor
           \/ \E a \in Actors : \E idle \in BOOLEAN : actor' = [actor EXCEPT ![a].idle = idle]
    PROVE  AllKept'
<1>1. CASE UNCHANGED actor
  <2>1. \A b \in Actors : SameGame(actor[b], actor'[b])
    BY <1>1 DEF SameGame
  <2>2. InHand => InHand'
    BY <2>1, InHandStays DEF InHand
  <2> QED BY <2>1, <2>2, KeptAlone, ActorFacts
<1>2. ASSUME NEW a \in Actors, NEW idle \in BOOLEAN, actor' = [actor EXCEPT ![a].idle = idle]
      PROVE  AllKept'
  <2>1. \A b \in Actors : SameGame(actor[b], actor'[b])
    BY <1>2, IdleEffect DEF Touches, SameTasks, SameGame
  <2>2. InHand => InHand'
    BY <2>1, InHandStays DEF InHand
  <2> QED BY <2>1, <2>2, KeptAlone, ActorFacts
<1> QED BY <1>1, <1>2

\* Nothing was told that the row does not have when nobody is in the map.
LEMMA KeptGetOrHydrate ==
    ASSUME Known, AllKept, GetOrHydrate, UNCHANGED <<row, told, promised, stop>>
    PROVE  AllKept'
<1>0. TypeOK /\ NextIsUnborn
  BY DEF Known, IInv
<1>1. CASE UNCHANGED <<entry, actor>>
  BY <1>0, <1>1, KeptIdle
<1>2. CASE /\ entry = 0 /\ made + 1 \in Actors
           /\ Touches(made + 1) /\ actor'[made + 1] = Loading
  <2>0. PICK a \in Actors : a = made + 1
    BY <1>2
  <2>1. /\ \A b \in Actors : b # a => actor'[b] = actor[b]
        /\ actor'[a].phase = "loading"
    BY <1>2, <2>0 DEF Touches, Loading, Unborn
  <2>2. actor[a].phase = "unborn"
    <3>1. a > made
      BY <1>0, <2>0 DEF TypeOK
    <3> QED BY <1>0, <3>1 DEF NextIsUnborn
  <2>3. ToldIsKept'
    BY <1>2 DEF AllKept, ToldIsKept
  <2>4. ASSUME NEW b \in Actors PROVE Written(b)'
    <3>1. CASE b = a
      BY <2>1, <3>1 DEF Written, Live
    <3>2. CASE b # a
      <4>1. Written(b) /\ actor'[b] = actor[b]
        BY <2>1, <3>2 DEF AllKept
      <4> QED BY <4>1 DEF Written, Live
    <3> QED BY <3>1, <3>2
  <2>5. PromiseIsKept'
    <3>1. InHand => stop.of # a
      BY <2>2 DEF InHand, Live
    <3>2. InHand => InHand'
      BY <2>1, <3>1 DEF InHand, Live
    <3> QED BY <3>2 DEF AllKept, PromiseIsKept
  <2> QED BY <2>3, <2>4, <2>5 DEF AllKept
<1> QED BY <1>0, <1>1, <1>2, GetOrHydrateEffect

\* What the state says of an actor that lives and is not evicted.
LEMMA CleanFacts ==
    ASSUME Known, AllKept, ~ late
    PROVE  /\ Undisturbed
           /\ \A a \in Actors : /\ actor[a].evicted => Spent(actor[a])
                                /\ Live(a) /\ ~ actor[a].evicted => entry = a /\ RowAccepts(a)
           /\ row.seq \in Nat /\ told \in Nat /\ promised \in Nat
           /\ \A a \in Actors : actor[a].seq \in Nat /\ actor[a].pending \in Nat
<1>1. Undisturbed /\ OnlyTheEntry /\ TypeOK
  BY DEF Known, Quiet, IInv
<1>2. \A a \in Actors : EvictedIsSpent(a) /\ WritesAccepted(a)
  BY <1>1 DEF Undisturbed
<1>3. told \in Nat /\ promised \in Nat
  BY <1>1 DEF TypeOK
<1> QED BY <1>1, <1>2, <1>3, ActorFacts DEF EvictedIsSpent, WritesAccepted, OnlyTheEntry

\* Whoever hears a command's event sits on the actor of the map.
LEMMA ToldByEntry ==
    ASSUME Known, NEW a \in Actors, NEW seq \in Nat, Broadcast(a, seq)
    PROVE  told' = told \/ (told' = seq /\ entry = a)
<1>1. CASE \E s \in Attached(a) : socket[s].open
  <2>1. \A s \in Attached(a) : Live(a) /\ ~ actor[a].evicted
    BY DEF Known, IInv, Placed, Attached
  <2>2. entry = a
    BY <1>1, <2>1 DEF Known, IInv, OnlyTheEntry
  <2> QED BY <2>2 DEF Broadcast
<1>2. CASE ~ \E s \in Attached(a) : socket[s].open
  BY <1>2 DEF Broadcast
<1> QED BY <1>1, <1>2

LEMMA KeptDbCommits ==
    ASSUME Known, AllKept, ~ late, NEW a \in Actors, DbCommits(a)
    PROVE  AllKept'
<1> DEFINE x == actor[a]
           y == actor'[a]
<1>0. TypeOK
  BY DEF Known
<1>1. /\ \A b \in Actors : b # a => actor'[b] = actor[b]
      /\ y.phase = x.phase /\ y.evicted = x.evicted /\ y.seq = x.seq
  BY <1>0, DbCommitsEffect DEF Touches, FlushStep
<1>2. /\ Live(a) /\ x.awaiting # "none" /\ x.seq >= row.seq /\ row'.seq = x.seq
      /\ UNCHANGED <<entry, told, promised, stop>>
  BY DEF DbCommits, history, RowAccepts
<1>3. /\ ~ x.evicted /\ entry = a /\ x.seq \in Nat /\ row.seq \in Nat /\ told \in Nat
      /\ promised \in Nat /\ \A b \in Actors : actor[b].seq \in Nat
  BY <1>2, CleanFacts DEF Spent
<1>4. ToldIsKept'
  BY <1>1, <1>2, <1>3 DEF AllKept, ToldIsKept
<1>5. ASSUME NEW b \in Actors PROVE Written(b)'
  <2>1. CASE b = a
    BY <1>1, <1>2, <1>3, <2>1 DEF Written
  <2>2. CASE b # a
    <3>1. actor'[b] = actor[b] /\ ~ (Live(b) /\ ~ actor[b].evicted)
      BY <1>1, <1>3, <2>2, CleanFacts
    <3> QED BY <3>1 DEF Written, Live
  <2> QED BY <2>1, <2>2
<1>6. PromiseIsKept'
  <2>1. CASE promised <= row.seq
    BY <1>2, <1>3, <2>1 DEF PromiseIsKept
  <2>2. CASE InHand
    <3>1. stop.of \in Actors /\ actor'[stop.of].phase = actor[stop.of].phase
          /\ actor'[stop.of].evicted = actor[stop.of].evicted
          /\ actor'[stop.of].seq = actor[stop.of].seq
      BY <1>1, <2>2 DEF InHand
    <3>2. InHand'
      BY <1>2, <2>2, <3>1 DEF InHand, Live
    <3> QED BY <3>2 DEF PromiseIsKept
  <2> QED BY <2>1, <2>2 DEF AllKept, PromiseIsKept
<1> QED BY <1>4, <1>5, <1>6 DEF AllKept

\* A drain that was answered has left nothing promised with its actor.
LEMMA PromiseAnswered ==
    ASSUME Known, Kept, Clean, NEW a \in Actors, Live(a), UNCHANGED <<row, promised>>,
           \A b \in Actors : b # a => actor'[b] = actor[b],
           actor'[a].phase = actor[a].phase, actor'[a].evicted = actor[a].evicted,
           actor'[a].seq \in {actor[a].seq, actor[a].seq + 1},
           \/ UNCHANGED stop
           \/ Draining(a) /\ (~ actor[a].evicted => actor[a].seq <= row.seq)
    PROVE  PromiseIsKept'
<1>0. AllKept
  BY DEF Kept
<1>1. /\ row.seq \in Nat /\ promised \in Nat /\ \A b \in Actors : actor[b].seq \in Nat
  BY <1>0, CleanFacts DEF Clean
<1>2. CASE promised <= row.seq
  BY <1>2 DEF PromiseIsKept
<1>3. CASE InHand /\ UNCHANGED stop
  <2>1. /\ stop.of \in Actors /\ Live(stop.of)' /\ ~ actor'[stop.of].evicted
        /\ actor'[stop.of].seq \in {actor[stop.of].seq, actor[stop.of].seq + 1}
    BY <1>3 DEF InHand, Live
  <2>2. promised <= actor'[stop.of].seq
    BY <1>1, <1>3, <2>1 DEF InHand
  <2>3. InHand'
    BY <1>3, <2>1, <2>2 DEF InHand
  <2> QED BY <2>3 DEF PromiseIsKept
<1>4. CASE InHand /\ Draining(a) /\ (~ actor[a].evicted => actor[a].seq <= row.seq)
  <2>1. stop.of = a
    BY <1>4 DEF Kept, StopIsOne
  <2>2. promised <= row.seq
    BY <1>1, <1>4, <2>1 DEF InHand
  <2> QED BY <2>2 DEF PromiseIsKept
<1> QED BY <1>0, <1>2, <1>3, <1>4 DEF AllKept, PromiseIsKept

LEMMA KeptRunTask ==
    ASSUME Known, Kept, Clean, NEW a \in Actors, RunTask(a)
    PROVE  AllKept'
<1> DEFINE x == actor[a]
           y == actor'[a]
<1>0. TypeOK /\ CommitsAwait /\ AllKept
  BY DEF Known, Kept, Quiet
<1>1. /\ \A b \in Actors : b # a => actor'[b] = actor[b]
      /\ Live(a) /\ x.mailbox # <<>> /\ x.awaiting = "none"
      /\ y.phase = x.phase /\ y.evicted = x.evicted
      /\ y.committed = x.committed /\ Ran(a) /\ UNCHANGED <<entry, row, promised>>
  BY <1>0, RunTaskEffect DEF Touches
<1>2. /\ row.seq \in Nat /\ promised \in Nat /\ told \in Nat
      /\ \A b \in Actors : actor[b].seq \in Nat /\ actor[b].pending \in Nat
  BY <1>0, CleanFacts DEF Clean
<1>3. ~ x.committed
  BY <1>0, <1>1 DEF CommitsAwait
<1>4. /\ x.mailbox \in Seq(Tasks) /\ Head(x.mailbox) = x.mailbox[1] /\ 1 \in 1..Len(x.mailbox)
  <2>1. x.mailbox \in Seq(Tasks)
    BY <1>0, ActorFacts
  <2> HIDE DEF x, y
  <2> QED BY <1>1, <2>1, MailboxTail
<1>4a. RanCommand(x, y) \/ RanAbandon(x, y) \/ RanNothing(x, y) \/ RanFlush(x, y)
  BY <1>1 DEF Ran
<1>5. y.seq \in {x.seq, x.seq + 1} /\ y.seq \in Nat
  <2>1. y.seq = x.seq \/ y.seq = x.seq + 1
    BY <1>4a DEF RanCommand, RanAbandon, RanNothing, RanFlush
  <2>2. x.seq \in Nat
    BY <1>2
  <2> HIDE DEF x, y
  <2> QED BY <2>1, <2>2
<1>6. ToldIsKept'
  <2>1. told' = told \/ (told' = y.seq /\ entry = a)
    <3>1. CASE Broadcast(a, y.seq)
      BY <1>5, <3>1, ToldByEntry
    <3>2. CASE UNCHANGED told
      BY <3>2
    <3> QED BY <1>1, <3>1, <3>2 DEF Ran
  <2>2. CASE told' = y.seq /\ entry = a
    <3>1. entry' = a /\ a # 0 /\ Live(a)' /\ told' <= y.seq
      BY <1>0, <1>1, <1>5, <2>2, ActorFacts DEF Live
    <3> QED BY <3>1 DEF ToldIsKept
  <2>3. CASE told' = told
    <3>1. CASE told <= row.seq
      BY <1>1, <2>3, <3>1 DEF ToldIsKept
    <3>2. CASE entry # 0 /\ Live(entry) /\ told <= actor[entry].seq
      <4>1. entry \in Actors
        BY <1>0, <3>2, ActorFacts
      <4>2. actor'[entry].phase = actor[entry].phase
            /\ actor'[entry].seq \in {actor[entry].seq, actor[entry].seq + 1}
        BY <1>1, <1>5, <4>1
      <4>3. told <= actor'[entry].seq
        BY <1>2, <3>2, <4>1, <4>2
      <4> QED BY <1>1, <2>3, <3>2, <4>2, <4>3 DEF ToldIsKept, Live
    <3> QED BY <1>0, <3>1, <3>2 DEF AllKept, ToldIsKept
  <2> QED BY <2>1, <2>2, <2>3
<1>7. ASSUME NEW b \in Actors PROVE Written(b)'
  <2>1. Written(b)
    BY <1>0 DEF AllKept
  <2>2. CASE b = a
    <3>1. y.awaiting = "none" /\ y.pending = 0 => x.pending = 0 /\ y.seq = x.seq
      <4>1. x.pending \in Nat
        BY <1>2
      <4> HIDE DEF x, y
      <4> QED BY <1>4a, <4>1 DEF RanCommand, RanAbandon, RanNothing, RanFlush
    <3> QED BY <1>1, <1>3, <2>1, <2>2, <3>1 DEF Written, Live
  <2>3. CASE b # a
    BY <1>1, <2>1, <2>3 DEF Written, Live
  <2> QED BY <2>2, <2>3
<1>8. PromiseIsKept'
  <2>1. CASE UNCHANGED stop
    BY <1>1, <1>5, <2>1, PromiseAnswered
  <2>2. CASE ~ UNCHANGED stop
    <3>1. RanFlush(x, y) /\ x.pending = 0 /\ Answered(Head(x.mailbox), FALSE)
      BY <1>1, <2>2 DEF Ran
    <3>2. Head(x.mailbox) = "stopDrain"
      BY <1>0, <2>2, <3>1, AnsweredStop
    <3>3. Draining(a)
      BY <1>4, <3>2 DEF Draining
    <3>4. ~ x.evicted => x.seq <= row.seq
      BY <1>0, <1>1, <3>1 DEF AllKept, Written
    <3> QED BY <1>1, <1>5, <3>3, <3>4, PromiseAnswered
  <2> QED BY <2>1, <2>2
<1> QED BY <1>6, <1>7, <1>8 DEF AllKept

LEMMA KeptFlushSucceeds ==
    ASSUME Known, Kept, Clean, NEW a \in Actors, FlushSucceeds(a)
    PROVE  AllKept'
<1> DEFINE x == actor[a]
           y == actor'[a]
<1>0. TypeOK /\ CommitsAwait /\ AllKept
  BY DEF Known, Kept, Quiet
<1>1. /\ \A b \in Actors : b # a => actor'[b] = actor[b]
      /\ y.phase = x.phase /\ y.evicted = x.evicted /\ y.seq = x.seq
  BY <1>0, FlushSucceedsEffect DEF Touches, FlushStep
<1>2. /\ Live(a) /\ x.committed /\ x.awaiting # "none" /\ UNCHANGED <<entry, row, promised>>
      /\ Answered(x.awaiting, FALSE) /\ (Broadcast(a, x.seq) \/ UNCHANGED told)
  BY <1>0 DEF FlushSucceeds, CommitsAwait
<1>3. /\ row.seq \in Nat /\ promised \in Nat /\ told \in Nat /\ x.seq \in Nat /\ ~ x.evicted
  BY <1>0, <1>2, CleanFacts DEF Clean, Spent
<1>4. x.seq <= row.seq
  BY <1>0, <1>2, <1>3 DEF AllKept, Written
<1>5. ToldIsKept'
  <2>1. told' = told \/ told' = x.seq
    BY <1>2, <1>3, ToldByEntry
  <2>2. CASE told' = x.seq
    BY <1>2, <1>4, <2>2 DEF ToldIsKept
  <2>3. CASE told' = told
    <3>1. CASE told <= row.seq
      BY <1>2, <2>3, <3>1 DEF ToldIsKept
    <3>2. CASE entry # 0 /\ Live(entry) /\ told <= actor[entry].seq
      <4>1. entry \in Actors
        BY <1>0, <3>2, ActorFacts
      <4>2. actor'[entry].phase = actor[entry].phase /\ actor'[entry].seq = actor[entry].seq
        BY <1>1, <4>1
      <4> QED BY <1>2, <2>3, <3>2, <4>2 DEF ToldIsKept, Live
    <3> QED BY <1>0, <3>1, <3>2 DEF AllKept, ToldIsKept
  <2> QED BY <2>1, <2>2, <2>3
<1>6. ASSUME NEW b \in Actors PROVE Written(b)'
  <2>1. CASE b = a
    BY <1>1, <1>2, <1>4, <2>1 DEF Written
  <2>2. CASE b # a
    BY <1>0, <1>1, <1>2, <2>2 DEF AllKept, Written, Live
  <2> QED BY <2>1, <2>2
<1>7. PromiseIsKept'
  <2>1. UNCHANGED stop \/ Draining(a)
    BY <1>0, <1>2, AnsweredStop DEF Draining
  <2> QED BY <1>1, <1>2, <1>4, <2>1, PromiseAnswered
<1> QED BY <1>5, <1>6, <1>7 DEF AllKept

\* A flush that fails counts as a fault: the tripwire never fires here.
LEMMA FailureIsAFault ==
    ASSUME Known, AllKept, ~ late, NEW a \in Actors, FlushFails(a)
    PROVE  faults' = faults + 1
<1>1. ~ actor[a].evicted /\ Live(a)
  BY CleanFacts DEF FlushFails, Spent
<1>2. RowAccepts(a)
  BY <1>1, CleanFacts
<1> QED BY <1>2 DEF FlushFails

LEMMA KeptHydrateSucceeds ==
    ASSUME Known, AllKept, ~ late, NEW a \in Actors, HydrateSucceeds(a)
    PROVE  AllKept'
<1> DEFINE y == actor'[a]
<1>0. TypeOK
  BY DEF Known
<1>1. /\ \A b \in Actors : b # a => actor'[b] = actor[b]
      /\ Live(a)' /\ y.seq = row.seq
  BY <1>0, HydrateSucceedsEffect DEF Touches
<1>2. ~ Live(a) /\ UNCHANGED <<entry, row, told, promised, stop>>
  BY DEF HydrateSucceeds, Live, history
<1>3. row.seq \in Nat
  BY CleanFacts
<1>4. ToldIsKept'
  <2>1. CASE told <= row.seq
    BY <1>2, <2>1 DEF ToldIsKept
  <2>2. CASE entry # 0 /\ Live(entry) /\ told <= actor[entry].seq
    <3>1. entry \in Actors /\ entry # a
      BY <1>0, <1>2, <2>2, ActorFacts
    <3> QED BY <1>1, <1>2, <2>2, <3>1 DEF ToldIsKept, Live
  <2> QED BY <2>1, <2>2 DEF AllKept, ToldIsKept
<1>5. ASSUME NEW b \in Actors PROVE Written(b)'
  <2>1. CASE b = a
    BY <1>1, <1>2, <1>3, <2>1 DEF Written
  <2>2. CASE b # a
    BY <1>1, <1>2, <2>2 DEF AllKept, Written, Live
  <2> QED BY <2>1, <2>2
<1>6. PromiseIsKept'
  <2>1. InHand => stop.of # a
    BY <1>2 DEF InHand
  <2>2. InHand => InHand'
    BY <1>1, <1>2, <2>1 DEF InHand, Live
  <2> QED BY <1>2, <2>2 DEF AllKept, PromiseIsKept
<1> QED BY <1>4, <1>5, <1>6 DEF AllKept

\* Eviction takes nothing along.
LEMMA KeptEvict == ASSUME Known, AllKept, ~ late, Evict PROVE AllKept'
<1>0. TypeOK /\ IInv /\ SweptIsLive
  BY DEF Known
<1>1. sweep.at = "drained" /\ UNCHANGED <<row, told, promised, stop>>
  BY DEF Evict, history
<1>2. CASE UNCHANGED <<entry, actor>>
  BY <1>0, <1>1, <1>2, KeptIdle
<1>3. CASE entry = sweep.of /\ entry' = 0 /\ sweep.of \in Actors /\ ~ UNCHANGED <<entry, actor>>
  <2>0. PICK a \in Actors : a = sweep.of
    BY <1>3
  <2> DEFINE x == actor[a]
             y == actor'[a]
  <2>1. /\ \A b \in Actors : b # a => actor'[b] = actor[b]
        /\ y.evicted /\ entry = a
    BY <1>0, <1>3, <2>0, EvictEffect DEF Touches
  <2>2. Spent(x) /\ Live(a) /\ ~ x.evicted
    <3>1. Spent(x)
      BY <1>1, <2>0, CleanFacts DEF Undisturbed, DrainedIsSpent
    <3>2. Live(a)
      BY <1>0, <2>0, ActorFacts DEF SweptIsLive
    <3>3. ~ x.evicted
      BY <1>0, <2>1, ActorFacts DEF Known, Quiet, EntryStays
    <3> QED BY <3>1, <3>2, <3>3
  <2>3. x.seq <= row.seq /\ x.seq \in Nat /\ row.seq \in Nat /\ told \in Nat /\ promised \in Nat
    BY <2>2, CleanFacts DEF AllKept, Written, Spent
  <2>4. ToldIsKept'
    <3>1. told <= row.seq
      BY <2>1, <2>3 DEF AllKept, ToldIsKept
    <3> QED BY <1>1, <3>1 DEF ToldIsKept
  <2>5. ASSUME NEW b \in Actors PROVE Written(b)'
    <3>1. CASE b = a
      BY <2>1, <3>1 DEF Written
    <3>2. CASE b # a
      BY <1>1, <2>1, <3>2 DEF AllKept, Written, Live
    <3> QED BY <3>1, <3>2
  <2>6. PromiseIsKept'
    <3>1. CASE promised <= row.seq
      BY <1>1, <3>1 DEF PromiseIsKept
    <3>2. CASE InHand /\ stop.of = a
      BY <1>1, <2>3, <3>2 DEF InHand, PromiseIsKept
    <3>3. CASE InHand /\ stop.of # a
      <4>1. InHand'
        BY <1>1, <2>1, <3>3 DEF InHand, Live
      <4> QED BY <4>1 DEF PromiseIsKept
    <3> QED BY <3>1, <3>2, <3>3 DEF AllKept, PromiseIsKept
  <2> QED BY <2>4, <2>5, <2>6 DEF AllKept
<1> QED BY <1>0, <1>2, <1>3, EvictEffect

LEMMA KeptSignal == ASSUME Known, AllKept, Signal PROVE AllKept'
<1>1. UNCHANGED <<entry, actor, row, told>> /\ promised' = told
      /\ stop' = [of |-> entry, at |-> IF entry = 0 THEN "closing" ELSE "listing"]
  BY DEF Signal
<1>2. ToldIsKept'
  BY <1>1 DEF AllKept, ToldIsKept, Live
<1>3. ASSUME NEW b \in Actors PROVE Written(b)'
  BY <1>1 DEF AllKept, Written, Live
<1>4. PromiseIsKept'
  <2>1. CASE told <= row.seq
    BY <1>1, <2>1 DEF PromiseIsKept
  <2>2. CASE entry # 0 /\ Live(entry) /\ told <= actor[entry].seq
    <3>1. entry \in Actors /\ ~ actor[entry].evicted
      BY <2>2, ActorFacts DEF Known, Quiet, EntryStays
    <3>2. InHand'
      BY <1>1, <2>2, <3>1 DEF InHand, Live
    <3> QED BY <3>2 DEF PromiseIsKept
  <2> QED BY <2>1, <2>2 DEF AllKept, ToldIsKept
<1> QED BY <1>2, <1>3, <1>4 DEF AllKept

LEMMA KeptNext == ASSUME Known, Kept, Next PROVE Kept'
<1>0. TypeOK /\ Placed /\ StopIsOne'
  BY StopNext DEF Known, IInv, Kept
<1>1. SUFFICES ASSUME Clean' PROVE AllKept'
  BY <1>0 DEF Kept
<1>2. Clean /\ AllKept
  <2>1. faults \in Nat /\ late \in BOOLEAN
    BY <1>0, RegistryAssumption DEF TypeOK
  <2>2. faults' = faults \/ faults' = faults + 1
    BY DEF Next, Clients, Process, Failures, Abandon, Signal, Hello, Close, Command, StopDrains,
           StopCloses, Exit, Attach, HydrateSucceeds, HydrateFails, FlushTimerFires,
           IdleWindowPasses, DbCommits, RunTask, FlushSucceeds, FlushFails, SweepDrains, Evict
  <2>3. late => late'
    BY DEF Next, Clients, Process, Failures, Abandon, Signal, Hello, Close, Command, StopDrains,
           StopCloses, Exit, Attach, HydrateSucceeds, HydrateFails, FlushTimerFires,
           IdleWindowPasses, DbCommits, RunTask, FlushSucceeds, FlushFails, SweepDrains, Evict, history
  <2> QED BY <1>1, <2>1, <2>2, <2>3 DEF Clean, Kept
<1>2a. faults = 0 /\ faults' = 0 /\ ~ late
  BY <1>1, <1>2 DEF Clean
<1>3. CASE Abandon
  <2>1. CASE entry # 0 /\ Live(entry)
    <3>1. /\ entry \in Actors /\ "abandon" \in Tasks /\ actor' = Queued(entry, "abandon")
          /\ UNCHANGED <<entry, row, told, promised, stop>>
      BY <1>0, <1>3, <2>1, ActorFacts DEF Abandon, Tasks
    <3> QED BY <1>0, <1>2, <3>1, KeptQueue
  <2>2. CASE ~ (entry # 0 /\ Live(entry))
    BY <1>2, <1>3, <2>2, KeptGetOrHydrate DEF Abandon
  <2> QED BY <2>1, <2>2
<1>4. CASE Signal
  BY <1>2, <1>4, KeptSignal
<1>5. ASSUME NEW s \in Sockets, Hello(s) PROVE AllKept'
  BY <1>2, <1>5, KeptGetOrHydrate DEF Hello, history
<1>6. ASSUME NEW s \in Sockets, Close(s) PROVE AllKept'
  <2>1. UNCHANGED <<entry, row, told, promised, stop>>
    BY <1>6 DEF Close, history
  <2>2. CASE socket[s].at = "attached"
    <3>1. socket[s].actor \in Actors /\ actor' = [actor EXCEPT ![socket[s].actor].idle = FALSE]
      BY <1>0, <1>6, <2>2 DEF Close, Placed
    <3> QED BY <1>0, <1>2, <2>1, <3>1, KeptIdle
  <2>3. CASE socket[s].at # "attached"
    BY <1>0, <1>2, <1>6, <2>1, <2>3, KeptIdle DEF Close
  <2> QED BY <2>2, <2>3
<1>7. ASSUME NEW s \in Sockets, Command(s) PROVE AllKept'
  <2>1. /\ socket[s].actor \in Actors /\ actor' = Queued(socket[s].actor, "command")
        /\ "command" \in Tasks /\ UNCHANGED <<entry, row, told, promised, stop>>
    BY <1>0, <1>7 DEF Command, Placed, Tasks
  <2> QED BY <1>0, <1>2, <2>1, KeptQueue
<1>8. CASE SweepDrains
  <2>1. /\ entry \in Actors /\ "sweepDrain" \in Tasks
        /\ UNCHANGED <<entry, row, told, promised, stop>>
        /\ actor' = [Queued(entry, "sweepDrain") EXCEPT ![entry].timer = FALSE]
    BY <1>0, <1>8, ActorFacts DEF SweepDrains, Tasks, history
  <2> QED BY <1>0, <1>2, <2>1, KeptQueue
<1>9. CASE Evict
  BY <1>2, <1>2a, <1>9, KeptEvict
<1>10. CASE StopDrains
  <2>0. UNCHANGED <<entry, row, told, promised>> /\ stop.at = "listing"
    BY <1>10 DEF StopDrains
  <2>1. CASE Live(stop.of) /\ stop.of \in Actors
    <3>1. /\ actor' = [Queued(stop.of, "stopDrain") EXCEPT ![stop.of].timer = FALSE]
          /\ stop' = [stop EXCEPT !.at = "draining"] /\ "stopDrain" \in Tasks
      BY <1>10, <2>1 DEF StopDrains, Tasks
    <3>2. stop'.at = "draining" /\ stop'.of = stop.of
      BY <1>0, <3>1 DEF TypeOK
    <3> QED BY <1>0, <1>2, <2>0, <2>1, <3>1, <3>2, KeptQueue
  <2>2. CASE ~ (Live(stop.of) /\ stop.of \in Actors)
    <3>1. actor \in [Actors -> ActorType]
      BY <1>0, TypeParts DEF ActorsOK
    <3>2. UNCHANGED actor
      BY <1>10, <2>2, <3>1 DEF StopDrains, Queued
    <3>3. ~ InHand /\ \A b \in Actors : SameGame(actor[b], actor'[b])
      BY <2>2, <3>2 DEF InHand, SameGame
    <3> QED BY <1>0, <1>2, <2>0, <3>3, KeptAlone, ActorFacts
  <2> QED BY <2>1, <2>2
<1>11. CASE StopCloses \/ Exit
  <2>1. UNCHANGED <<entry, actor, row, told, promised>> /\ stop.at \notin {"listing", "draining"}
    BY <1>11 DEF StopCloses, Exit, history
  <2>2. ~ InHand /\ \A b \in Actors : SameGame(actor[b], actor'[b])
    BY <2>1 DEF InHand, SameGame
  <2> QED BY <1>0, <1>2, <2>1, <2>2, KeptAlone, ActorFacts
<1>12. ASSUME NEW s \in Sockets, Attach(s) PROVE AllKept'
  <2>0. UNCHANGED <<row, told, promised, stop>>
    BY <1>12 DEF Attach, history
  <2>1. CASE ~ Refuses(socket[s].actor)
    <3>1. /\ socket[s].actor \in Actors /\ actor' = [actor EXCEPT ![socket[s].actor].idle = FALSE]
          /\ UNCHANGED entry
      BY <1>0, <1>12, <2>1 DEF Attach, Placed
    <3> QED BY <1>0, <1>2, <2>0, <3>1, KeptIdle
  <2>2. CASE Refuses(socket[s].actor)
    <3>1. GetOrHydrate \/ UNCHANGED <<entry, actor>>
      BY <1>12, <2>2 DEF Attach
    <3> QED BY <1>0, <1>2, <2>0, <3>1, KeptGetOrHydrate, KeptIdle
  <2> QED BY <2>1, <2>2
<1>13. ASSUME NEW a \in Actors, HydrateSucceeds(a) PROVE AllKept'
  BY <1>2, <1>2a, <1>13, KeptHydrateSucceeds
<1>14. ASSUME NEW a \in Actors, FlushTimerFires(a) PROVE AllKept'
  <2>1. /\ actor' = [Queued(a, "flush") EXCEPT ![a].timer = FALSE]
        /\ "flush" \in Tasks /\ UNCHANGED <<entry, row, told, promised, stop>>
    BY <1>14 DEF FlushTimerFires, Tasks
  <2> QED BY <1>0, <1>2, <2>1, KeptQueue
<1>15. ASSUME NEW a \in Actors, IdleWindowPasses(a) PROVE AllKept'
  <2>1. /\ actor' = [actor EXCEPT ![a].idle = TRUE] /\ TRUE \in BOOLEAN
        /\ UNCHANGED <<entry, row, told, promised, stop>>
    BY <1>15 DEF IdleWindowPasses, history
  <2> QED BY <1>0, <1>2, <2>1, KeptIdle
<1>16. ASSUME NEW a \in Actors, RunTask(a) PROVE AllKept'
  BY <1>2, <1>16, KeptRunTask
<1>17. ASSUME NEW a \in Actors, DbCommits(a) PROVE AllKept'
  BY <1>2, <1>2a, <1>17, KeptDbCommits
<1>18. ASSUME NEW a \in Actors, FlushSucceeds(a) PROVE AllKept'
  BY <1>2, <1>18, KeptFlushSucceeds
<1>19. ASSUME NEW a \in Actors, FlushFails(a) \/ HydrateFails(a) PROVE FALSE
  <2>1. faults' = faults + 1
    BY <1>2, <1>2a, <1>19, FailureIsAFault DEF HydrateFails
  <2> QED BY <1>2a, <2>1
<1> QED BY <1>3, <1>4, <1>5, <1>6, <1>7, <1>8, <1>9, <1>10, <1>11, <1>12, <1>13, <1>14, <1>15, <1>16,
           <1>17, <1>18, <1>19
        DEF Next, Clients, Process, Failures

LEMMA KeptAlways == Spec => []Kept
<1>1. Known /\ Kept /\ [Next]_vars => Kept'
  <2> SUFFICES ASSUME Known, Kept, [Next]_vars PROVE Kept'
    OBVIOUS
  <2>1. CASE Next
    BY <2>1, KeptNext
  <2>2. CASE UNCHANGED vars
    <3>1. UNCHANGED <<entry, actor, row, told, promised, stop, late, faults>> /\ TypeOK
      BY <2>2 DEF vars, history, Known
    <3>2. StopIsOne'
      BY <3>1, StopSame DEF Kept
    <3>3. Clean' => AllKept'
      BY <3>1, KeptIdle DEF Clean, Kept
    <3> QED BY <3>2, <3>3 DEF Kept
  <2> QED BY <2>1, <2>2
<1> QED BY <1>1, InitKept, KnownAlways, PTL DEF Spec

\* INV-5 across a graceful stop: when the process exits, what any socket had been told when the
\* signal arrived is in the row, unless a flush or a hydration failed or something was queued
\* behind a passivation's drain.
THEOREM ShutdownKeepsWhatWasTold == Spec => []ShutdownKeepsTold
<1>1. Known /\ Kept => ShutdownKeepsTold
  <2> SUFFICES ASSUME Known, Kept, stop.at = "exited", faults = 0, ~ late PROVE row.seq >= promised
    BY DEF ShutdownKeepsTold
  <2>1. promised <= row.seq
    BY DEF Kept, Clean, AllKept, PromiseIsKept, InHand
  <2>2. promised \in Nat /\ row.seq \in Nat
    BY CleanFacts DEF Kept, Clean
  <2> QED BY <2>1, <2>2
<1> QED BY <1>1, KnownAlways, KeptAlways, PTL

=============================================================================
