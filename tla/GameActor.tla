------------------------------ MODULE GameActor ------------------------------
(***************************************************************************)
(* One live game: the in-memory actor (apps/session/src/actor.ts), its     *)
(* mailbox, its two timers, the write-behind flush and the game's durable  *)
(* rows in Postgres, with commit faults, crashes and rehydration.          *)
(*                                                                         *)
(* The process is one JavaScript event loop.  A mailbox task runs without  *)
(* interruption up to the point where it awaits the database, so sockets,  *)
(* timers and the internal endpoint act only when the mailbox is empty or  *)
(* its task is awaiting (Quiescent).  While a task awaits, the board, the  *)
(* buffer and the timers of the vote do not change (the mailbox is         *)
(* serial), so the rows a flush carries are those of the state it ends in. *)
(***************************************************************************)
EXTENDS Engine, Functions

CONSTANTS
    Spectators,      \* users whose connection carries the spectator role
    FlushThreshold,  \* FLUSH_EVENT_THRESHOLD: buffered events that force a flush
    RecentLimit,     \* RECENT_COMMAND_LIMIT: remembered command ids
    Ttl,             \* CHECK_VOTE_TTL_MS, in clock ticks
    NoTime,          \* null: no deadline is stamped
    MaxSendSeq,      \* bound: no command is sent to a board at this seq or above
    MaxQueue,        \* bound: tasks waiting in the mailbox
    MaxFaults,       \* bound: flushes that fail
    MaxCrashes       \* bound: hard kills

ASSUME ActorAssumption ==
    /\ Spectators \subseteq Users
    /\ FlushThreshold \in Nat \ {0} /\ RecentLimit \in Nat \ {0} /\ Ttl \in Nat \ {0}
    /\ NoTime \notin Nat
    /\ MaxSendSeq \in Nat /\ MaxQueue \in Nat /\ MaxFaults \in Nat /\ MaxCrashes \in Nat

VARIABLES
    alive,       \* the process holds an actor for this game
    board,       \* this.state
    left,        \* voteExpiresAt, as the time left to it (NoTime: null)
    voteTimer,   \* voteTimer is armed (always for voteExpiresAt)
    flushTimer,  \* flushTimer is armed
    recent,      \* recentCommandIds
    pending,     \* pending, pendingChecks and pendingVoteEvents, in seq order
    stats,       \* stats # null
    mailbox,     \* the tasks waiting
    awaiting,    \* what the running task awaits: a kind of flush, or "none"
    online,      \* the users holding a live socket
    db,          \* the game_state row
    dbLog,       \* cell_events, check_events and check_vote_events
    committed,   \* the transaction awaited has committed, the actor not told yet
    told,        \* the last seq the live sockets were told of
    terminals,   \* the terminal events ever broadcast (history)
    answered,    \* an abandon call has been answered with success (history)
    faults, crashes  \* counters for the bounds

memory == <<board, left, voteTimer, flushTimer, recent, pending, stats>>
durable == <<db, dbLog>>
history == <<terminals, answered>>
counters == <<faults, crashes>>
vars == <<alive, board, left, voteTimer, flushTimer, recent, pending, stats,
          mailbox, awaiting, online, db, dbLog, committed, told, history,
          answered, faults, crashes>>

-----------------------------------------------------------------------------
(* Tasks, rows and the initial state.                                      *)

CommandTask(by, msg) == [kind |-> "command", by |-> by, msg |-> msg]
FlushTask == [kind |-> "flush"]
ExpiryTask == [kind |-> "expiry"]
AbandonTask == [kind |-> "abandon"]

\* Mutant: the remembered command ids are left out of the row.
Snapshot_WithoutRecent(withStats) ==
    [board |-> [board EXCEPT !.vote = IF left = NoTime THEN NoVote ELSE @],
     left |-> IF board.vote = NoVote THEN NoTime ELSE left,
     recent |-> <<>>, stats |-> withStats]

\* snapshotForFlush: an open vote is persisted only with its deadline.
Snapshot(withStats) ==
    [board |-> [board EXCEPT !.vote = IF left = NoTime THEN NoVote ELSE @],
     left |-> IF board.vote = NoVote THEN NoTime ELSE left,
     recent |-> recent, stats |-> withStats]

Init ==
    /\ alive = TRUE /\ board = EmptyBoard /\ left = NoTime
    /\ voteTimer = FALSE /\ flushTimer = FALSE
    /\ recent = <<>> /\ pending = <<>> /\ stats = FALSE
    /\ mailbox = <<>> /\ awaiting = "none" /\ committed = FALSE
    /\ online = Users
    /\ db = [board |-> EmptyBoard, left |-> NoTime, recent |-> <<>>, stats |-> FALSE]
    /\ dbLog = {}
    /\ told = 0 /\ terminals = <<>> /\ answered = FALSE
    /\ faults = 0 /\ crashes = 0

-----------------------------------------------------------------------------
(* Sockets, timers and callers: they act between tasks or while one awaits. *)

Quiescent == alive /\ (mailbox = <<>> \/ awaiting # "none")

Post(task) == mailbox' = Append(mailbox, task)

\* What callers queue is bounded by MaxQueue; the timers' tasks come on top.
Room == Len(mailbox) < MaxQueue

Connect(u) ==
    /\ Quiescent /\ u \notin online
    /\ online' = online \cup {u}
    /\ UNCHANGED <<alive, memory, mailbox, awaiting, durable, committed, told, history, counters>>

Disconnect(u) ==
    /\ Quiescent /\ u \in online
    /\ online' = online \ {u}
    /\ UNCHANGED <<alive, memory, mailbox, awaiting, durable, committed, told, history, counters>>

\* What a client can send; a ballot names the vote open when it was sent.
Messages ==
    CellCommands
      \cup {[type |-> "checkPuzzle", id |-> i] : i \in CommandIds}
      \cup {[type |-> "castCheckVote", id |-> i, voteSeq |-> s, approve |-> yes] :
              i \in CommandIds, s \in {board.vote.openedSeq : v \in {board.vote} \ {NoVote}},
              yes \in BOOLEAN}

Submit ==
    \E u \in online, msg \in Messages :
        /\ Quiescent /\ Room /\ board.seq < MaxSendSeq /\ Post(CommandTask(u, msg))
        /\ UNCHANGED <<alive, memory, awaiting, online, durable, committed, told, history, counters>>

\* The API's membership-changed call with reason abandon.
Abandon ==
    /\ Quiescent /\ Room /\ Post(AbandonTask)
    /\ UNCHANGED <<alive, memory, awaiting, online, durable, committed, told, history, counters>>

\* drain(): passivation and SIGTERM.
Drain ==
    /\ Quiescent /\ Room /\ Post(FlushTask)
    /\ flushTimer' = FALSE
    /\ UNCHANGED <<alive, board, left, voteTimer, recent, pending, stats, awaiting, online,
                   durable, committed, told, history, counters>>

FlushTimerFires ==
    /\ Quiescent /\ flushTimer /\ Post(FlushTask)
    /\ flushTimer' = FALSE
    /\ UNCHANGED <<alive, board, left, voteTimer, recent, pending, stats, awaiting, online,
                   durable, committed, told, history, counters>>

VoteTimerFires ==
    /\ Quiescent /\ voteTimer /\ left = 0 /\ Post(ExpiryTask)
    /\ voteTimer' = FALSE
    /\ UNCHANGED <<alive, board, left, flushTimer, recent, pending, stats, awaiting, online,
                   durable, committed, told, history, counters>>

\* Mutant: a deadline in the past is not clamped to now.
Elapsed_Unclamped(t) == IF t = NoTime THEN t ELSE t - 1

Elapsed(t) == IF t = NoTime \/ t = 0 THEN t ELSE t - 1

\* Time passes for the deadline in memory and the one in the row, dead or alive.
Tick ==
    /\ alive => Quiescent
    /\ Elapsed(left) # left \/ Elapsed(db.left) # db.left
    /\ left' = Elapsed(left) /\ db' = [db EXCEPT !.left = Elapsed(@)]
    /\ UNCHANGED <<alive, board, voteTimer, flushTimer, recent, pending, stats, mailbox,
                   awaiting, online, dbLog, committed, told, history, counters>>

-----------------------------------------------------------------------------
(* Mailbox tasks.                                                          *)

Dequeue(kind) ==
    /\ alive /\ awaiting = "none"
    /\ mailbox # <<>> /\ Head(mailbox).kind = kind
    /\ mailbox' = Tail(mailbox)

\* The task ends without touching the game.
Dropped == UNCHANGED <<memory, awaiting, told, history>>

\* Mutant: the window is one id short.
LastOf_OneShort(s, n) ==
    IF Len(s) < n THEN s ELSE SubSeq(s, Len(s) - n + 2, Len(s))

LastOf(s, n) == IF Len(s) <= n THEN s ELSE SubSeq(s, Len(s) - n + 1, Len(s))

IsTerminalEvent(e) == e.type \in {"gameCompleted", "gameAbandoned"}

\* What emitVoteEvents broadcasts and buffers: all but a terminal event, which the
\* engine only ever puts last.
Buffered(events) ==
    IF events # <<>> /\ IsTerminalEvent(events[Len(events)])
    THEN SubSeq(events, 1, Len(events) - 1)
    ELSE events

\* Mutant: nothing is armed below the threshold.
AfterMutationFlush_ThresholdOnly(buffer) ==
    IF Len(buffer) >= FlushThreshold
    THEN awaiting' = "flush" /\ flushTimer' = FALSE
    ELSE awaiting' = "none" /\ UNCHANGED flushTimer

\* Mutant: only the interval timer flushes, however full the buffer is.
AfterMutationFlush_TimerOnly(buffer) ==
    awaiting' = "none" /\ flushTimer' = (flushTimer \/ Len(buffer) > 0)

\* afterMutationFlush on a buffer: flush at the threshold, otherwise make sure
\* the interval timer runs.
AfterMutationFlush(buffer) ==
    IF Len(buffer) >= FlushThreshold
    THEN awaiting' = "flush" /\ flushTimer' = FALSE
    ELSE awaiting' = "none" /\ flushTimer' = (flushTimer \/ Len(buffer) > 0)

\* assembleElectorate: the proposer and every connected host or solver.
Electorate(by) == {by} \cup (online \ Spectators)

VoteCommand(by, msg) ==
    CASE msg.type = "checkPuzzle" ->
           [type |-> msg.type, id |-> msg.id, by |-> by, electorate |-> Electorate(by)]
      [] msg.type = "castCheckVote" ->
           [type |-> msg.type, id |-> msg.id, by |-> by, voteSeq |-> msg.voteSeq,
            approve |-> msg.approve]
      [] OTHER -> msg

\* Mutant: the deadline is stamped but no timer runs.
ReconcileVoteTimer_NeverArms(next) ==
    IF next.vote = NoVote THEN left' = NoTime /\ voteTimer' = FALSE
    ELSE IF board.vote = NoVote THEN left' = Ttl /\ voteTimer' = FALSE
    ELSE UNCHANGED <<left, voteTimer>>

\* reconcileVoteTimer: no vote stops the timer, a new vote arms it, a ballot
\* leaves it running.
ReconcileVoteTimer(next) ==
    IF next.vote = NoVote THEN left' = NoTime /\ voteTimer' = FALSE
    ELSE IF board.vote = NoVote THEN left' = Ttl /\ voteTimer' = TRUE
    ELSE UNCHANGED <<left, voteTimer>>

\* handleMutation.  Everything but a terminal event is broadcast and buffered
\* at once; a completion goes to the terminal flush first.
RunCommand ==
    /\ Dequeue("command")
    /\ LET by == Head(mailbox).by
           msg == Head(mailbox).msg
           result == ApplyWithVote(board, VoteCommand(by, msg))
           buffer == pending \o Buffered(result.events)
       IN  IF by \in Spectators \/ msg.id \in Range(recent)
                 \/ result.error # "none"
           THEN Dropped
           ELSE /\ board' = result.state
                /\ recent' = LastOf(Append(recent, msg.id), RecentLimit)
                /\ pending' = buffer
                /\ ReconcileVoteTimer(result.state)
                /\ IF result.state.status = "completed"
                   THEN /\ awaiting' = "terminal" /\ told' = result.state.seq - 1
                        /\ UNCHANGED flushTimer
                   ELSE /\ AfterMutationFlush(buffer) /\ told' = result.state.seq
                /\ UNCHANGED <<stats, history>>
    /\ UNCHANGED <<alive, online, durable, committed, counters>>

\* doFlush: nothing to write, or the buffer and the snapshot go out.
RunFlush ==
    /\ Dequeue("flush")
    /\ awaiting' = IF pending = <<>> THEN "none" ELSE "flush"
    /\ flushTimer' = FALSE
    /\ UNCHANGED <<alive, board, left, voteTimer, recent, pending, stats, online, durable,
                   committed, told, history, counters>>

\* handleExpiry: closes whatever vote is open.
RunExpiry ==
    /\ Dequeue("expiry")
    /\ LET result == ApplyWithVote(board, Expiry)
       IN  /\ board' = result.state
           /\ pending' = pending \o result.events
           /\ left' = NoTime /\ voteTimer' = FALSE
           /\ told' = IF result.events = <<>> THEN told ELSE result.state.seq
           /\ IF result.events = <<>> THEN UNCHANGED <<awaiting, flushTimer>>
              ELSE AfterMutationFlush(pending \o result.events)
    /\ UNCHANGED <<alive, recent, stats, online, durable, committed, history, counters>>

\* Mutant: the terminal guard is missing.
AlreadyOver_Never == FALSE

AlreadyOver == board.status # "ongoing"

\* doAbandon: closes an open vote, broadcasts that, then takes the terminal seq
\* and goes to the flush.  A terminal game is left alone.
RunAbandon ==
    /\ Dequeue("abandon")
    /\ answered' = (answered \/ AlreadyOver)
    /\ IF AlreadyOver
       THEN UNCHANGED <<memory, awaiting, told>>
       ELSE LET closed == IF board.vote = NoVote THEN Accept(board, <<>>)
                          ELSE CloseFailed(board, board.vote, "cancelled", "TERMINAL")
            IN  /\ board' = [closed.state EXCEPT !.status = "abandoned", !.seq = @ + 1]
                /\ pending' = pending \o closed.events
                /\ told' = closed.state.seq
                /\ awaiting' = "abandon"
                /\ IF board.vote = NoVote THEN UNCHANGED <<left, voteTimer>>
                   ELSE left' = NoTime /\ voteTimer' = FALSE
                /\ UNCHANGED <<flushTimer, recent, stats>>
    /\ UNCHANGED <<alive, online, durable, committed, terminals, counters>>

-----------------------------------------------------------------------------
(* The flush in flight.                                                    *)

\* upsertSnapshot's tripwire on the stored row.
RowAccepts(row) ==
    /\ db.board.status = "ongoing" \/ row.board.status = db.board.status
    /\ row.board.seq >= db.board.seq

\* The seqs already in the log: insert ... on conflict do nothing.
Logged == {e.seq : e \in dbLog}

\* Mutant: the status column is missing from the update.
DbCommits_WithoutStatus ==
    /\ alive /\ awaiting # "none" /\ ~ committed
    /\ db' = [Snapshot(awaiting = "terminal" \/ stats) EXCEPT !.board.status = db.board.status]
    /\ dbLog' = dbLog \cup Range(pending)
    /\ committed' = TRUE
    /\ UNCHANGED <<alive, memory, mailbox, awaiting, online, told, history, counters>>

\* Mutant: only the terminal flush appends to the log.
DbCommits_SnapshotOnly ==
    /\ alive /\ awaiting # "none" /\ ~ committed
    /\ db' = Snapshot(awaiting = "terminal" \/ stats)
    /\ dbLog' = IF awaiting = "flush" THEN dbLog ELSE dbLog \cup Range(pending)
    /\ committed' = TRUE
    /\ UNCHANGED <<alive, memory, mailbox, awaiting, online, told, history, counters>>

\* Postgres commits the transaction: log rows and snapshot together.  Only the
\* terminal flush brings stats, computed in the transaction.
DbCommits ==
    /\ alive /\ awaiting # "none" /\ ~ committed
    /\ LET row == Snapshot(awaiting = "terminal" \/ stats)
       IN  RowAccepts(row) /\ db' = row
    /\ dbLog' = dbLog \cup {e \in Range(pending) : e.seq \notin Logged}
    /\ committed' = TRUE
    /\ UNCHANGED <<alive, memory, mailbox, awaiting, online, told, history, counters>>

\* Mutant: only a completion is broadcast.
TerminalBroadcast_CompletedOnly ==
    IF awaiting = "terminal" THEN << "gameCompleted" >> ELSE <<>>

\* What the task that awaited the flush broadcasts once it is durable.
TerminalBroadcast ==
    CASE awaiting = "terminal" -> << "gameCompleted" >>
      [] awaiting = "abandon"  -> << "gameAbandoned" >>
      [] awaiting = "flush"    -> <<>>

\* The actor learns of the commit: the buffer clears, and a terminal flush is
\* followed by its broadcast.
FlushSucceeds ==
    /\ alive /\ committed
    /\ pending' = <<>> /\ awaiting' = "none" /\ committed' = FALSE
    /\ stats' = (stats \/ awaiting = "terminal")
    /\ answered' = (answered \/ awaiting = "abandon")
    /\ terminals' = terminals \o TerminalBroadcast
    /\ IF awaiting = "flush" THEN UNCHANGED <<told, flushTimer>>
       ELSE told' = board.seq /\ flushTimer' = FALSE
    /\ UNCHANGED <<alive, board, left, voteTimer, recent, mailbox, online, durable, counters>>

\* Mutant: the terminal broadcast goes out however the flush ended.
FlushFails_Broadcasts ==
    /\ alive /\ awaiting # "none" /\ faults < MaxFaults
    /\ awaiting' = "none" /\ committed' = FALSE
    /\ terminals' = terminals \o TerminalBroadcast
    /\ faults' = faults + 1
    /\ UNCHANGED <<alive, memory, mailbox, online, durable, told, answered, crashes>>

\* Mutant: the buffer is given up with the flush.
FlushFails_DropsBuffer ==
    /\ alive /\ awaiting # "none" /\ faults < MaxFaults
    /\ awaiting' = "none" /\ committed' = FALSE /\ pending' = <<>>
    /\ faults' = faults + 1
    /\ UNCHANGED <<alive, board, left, voteTimer, flushTimer, recent, stats, mailbox, online,
                   durable, told, history, crashes>>

\* The await rejects: rolled back, or committed with the answer lost.  The
\* buffer is kept and the task ends; nothing else is undone.
FlushFails ==
    /\ alive /\ awaiting # "none" /\ faults < MaxFaults
    /\ awaiting' = "none" /\ committed' = FALSE
    /\ faults' = faults + 1
    /\ UNCHANGED <<alive, memory, mailbox, online, durable, told, history, crashes>>

-----------------------------------------------------------------------------
(* Hard kill and rehydration.                                              *)

Crash ==
    /\ alive /\ crashes < MaxCrashes
    /\ alive' = FALSE /\ crashes' = crashes + 1
    /\ board' = EmptyBoard /\ left' = NoTime /\ voteTimer' = FALSE /\ flushTimer' = FALSE
    /\ recent' = <<>> /\ pending' = <<>> /\ stats' = FALSE
    /\ mailbox' = <<>> /\ awaiting' = "none" /\ committed' = FALSE
    /\ online' = {} /\ told' = 0
    /\ UNCHANGED <<durable, history, faults>>

\* Mutant: every cell that was ever written counts as filled.
Recounted_Written(b) ==
    [b EXCEPT !.filled = Cardinality({c \in Cells : \E e \in dbLog :
                                        e.type = "cellSet" /\ e.cell = c})]

\* hydrateGame: filledCount is recounted from the stored cells.
Recounted(b) == [b EXCEPT !.filled = Cardinality(FilledCells(b))]

\* hydrateGame and the constructor.  A vote whose deadline passed at rest is
\* closed on the spot and its close queued for the log; one still running gets
\* its timer back.  The first welcome tells every socket the board's seq.
Hydrate ==
    /\ ~ alive
    /\ LET stored == Recounted(db.board)
           expired == stored.vote # NoVote /\ db.left \in {NoTime, 0}
           result == IF expired THEN ExpireVote(stored) ELSE Accept(stored, <<>>)
       IN  /\ board' = result.state
           /\ pending' = result.events
           /\ left' = IF expired THEN NoTime ELSE db.left
           /\ voteTimer' = (stored.vote # NoVote /\ ~ expired)
           /\ mailbox' = IF expired THEN << FlushTask >> ELSE <<>>
           /\ told' = result.state.seq
    /\ recent' = db.recent /\ stats' = db.stats
    /\ alive' = TRUE
    /\ UNCHANGED <<flushTimer, awaiting, online, durable, committed, history, counters>>

-----------------------------------------------------------------------------

Environment ==
    \/ Submit \/ Abandon \/ Drain \/ Tick
    \/ \E u \in Users : Connect(u) \/ Disconnect(u)

Actor ==
    \/ RunCommand \/ RunFlush \/ RunExpiry \/ RunAbandon
    \/ FlushTimerFires \/ VoteTimerFires
    \/ DbCommits \/ FlushSucceeds

Failures == FlushFails \/ Crash \/ Hydrate

Next == Environment \/ Actor \/ Failures

Spec == Init /\ [][Next]_vars

\* The event loop runs what the mailbox holds, Postgres answers, and due timers
\* come up in every turn of the loop, however busy the mailbox is.
Fairness ==
    /\ WF_vars(RunCommand \/ RunFlush \/ RunExpiry \/ RunAbandon)
    /\ WF_vars(DbCommits) /\ WF_vars(FlushSucceeds)
    /\ SF_vars(FlushTimerFires) /\ SF_vars(VoteTimerFires) /\ SF_vars(Tick)

FairSpec == Spec /\ Fairness

-----------------------------------------------------------------------------
(* Types and the parts of the state the properties speak of.               *)

Rows == [board : Boards, left : 0..Ttl \cup {NoTime}, recent : Seq(CommandIds), stats : BOOLEAN]

Tasks ==
    [kind : {"flush", "expiry", "abandon"}]
      \cup [kind : {"command"}, by : Users,
            msg : CellCommands \cup [type : {"checkPuzzle"}, id : CommandIds]
                    \cup [type : {"castCheckVote"}, id : CommandIds, voteSeq : Nat,
                          approve : BOOLEAN]]

\* The state is well formed; times never leave 0..Ttl.
TypeOK ==
    /\ alive \in BOOLEAN /\ board \in Boards /\ left \in 0..Ttl \cup {NoTime}
    /\ voteTimer \in BOOLEAN /\ flushTimer \in BOOLEAN
    /\ recent \in Seq(CommandIds) /\ Len(recent) <= RecentLimit
    /\ pending \in Seq(Events) /\ stats \in BOOLEAN
    /\ mailbox \in Seq(Tasks) /\ awaiting \in {"none", "flush", "terminal", "abandon"}
    /\ online \subseteq Users
    /\ db \in Rows /\ dbLog \subseteq Events /\ committed \in BOOLEAN
    /\ told \in Nat /\ terminals \in Seq({"gameCompleted", "gameAbandoned"})
    /\ answered \in BOOLEAN /\ faults \in 0..MaxFaults /\ crashes \in 0..MaxCrashes

\* Every event accepted so far and not lost: the log, then what is buffered.
Journal == dbLog \cup Range(pending)

\* The seqs of board b that belong on the log: all but the terminal event's.
LoggedSeqs(b) == 1 .. (IF b.status = "ongoing" THEN b.seq ELSE b.seq - 1)

\* The events of a set of them in seq order.
InOrder(events) ==
    [i \in 1..Cardinality({e.seq : e \in events}) |-> CHOOSE e \in events : e.seq = i]

\* The letters a log leaves on the grid.
ReplayedCells(events) ==
    [c \in Cells |->
       LET writes == {e \in events : e.type = "cellSet" /\ e.cell = c}
       IN  IF writes = {} THEN NoValue
           ELSE (CHOOSE e \in writes : \A f \in writes : f.seq <= e.seq).value]

IdsOf(events) == {e \in events : e.type \in {"cellSet", "checkVoteOpened"}}

-----------------------------------------------------------------------------
(* Safety.                                                                 *)

\* INV-5: the durable snapshot and the durable log are one consistent pair.  The
\* log holds exactly one row for each seq the snapshot has consumed, its terminal
\* one apart, and however often a command is sent and whatever restart lies between,
\* it is journaled again only behind as many seqs as the actor remembers ids.
\* Replaying the log gives the snapshot's letters, and the snapshot, as well as what
\* rehydration makes of it, is a board the engine could have produced.
RowAndLogAgree ==
    /\ {e.seq : e \in dbLog} = LoggedSeqs(db.board)
    /\ Cardinality(dbLog) = Cardinality(LoggedSeqs(db.board))
    /\ \A e, f \in IdsOf(dbLog) : e.id = f.id /\ e.seq < f.seq => f.seq - e.seq > RecentLimit
    /\ ReplayedCells(dbLog) = db.board.cells
    /\ GoodBoard(db.board) /\ GoodBoard(board)

\* INV-3: at most one terminal event is ever broadcast, of the status that is
\* durable by then; and as long as no flush fails, an abandon call is answered
\* with success only when the game is durably over.
TerminalIsDurableFirst ==
    /\ Len(terminals) <= 1
    /\ terminals = << "gameCompleted" >> => db.board.status = "completed"
    /\ terminals = << "gameAbandoned" >> => db.board.status = "abandoned"
    /\ answered /\ faults = 0 => db.board.status # "ongoing"

\* The single writer never trips upsertSnapshot's tripwire: no snapshot it sends
\* regresses the seq or changes a terminal status (INV-4, INV-7).
NeverRefused ==
    alive /\ awaiting # "none" => RowAccepts(Snapshot(stats))

\* PROTOCOL 10: an open vote of a live game has a deadline within its timebox
\* and something that will close it at that deadline, after a restart too.
OpenVoteIsTimed ==
    alive /\ board.vote # NoVote =>
        left \in 0..Ttl /\ (voteTimer \/ ExpiryTask \in Range(mailbox))

\* INV-5: as long as no flush fails, the tail that sockets have seen and a hard
\* kill would lose stays within the flush policy: at most FlushThreshold - 1
\* events below the threshold and the up to three of one more command.
LostTailIsBounded ==
    alive /\ faults = 0 => told - db.board.seq <= FlushThreshold + 2

\* The actor keeps the service's promise (DurableGame.tla).
Promise == INSTANCE DurableGame WITH
    Event <- Events,
    journal <- InOrder(IF alive THEN Journal ELSE dbLog),
    status <- IF alive THEN board.status ELSE db.board.status,
    durable <- Cardinality(dbLog),
    stored <- db.board.status,
    announced <- Len(terminals)

KeepsPromise == Promise!Spec

-----------------------------------------------------------------------------
(* Liveness, without faults.                                               *)

\* DESIGN 3: what is buffered gets flushed.
BufferIsFlushed == pending # <<>> ~> pending = <<>>

\* PROTOCOL 10: no vote stays open for ever, whoever votes.
OpenVoteCloses ==
    \A s \in 1 .. 2 * Cardinality(CommandIds) :
        (board.vote # NoVote /\ board.vote.openedSeq = s)
            ~> ~ (board.vote # NoVote /\ board.vote.openedSeq = s)

\* INV-3: a game that ends is announced to its players, where no flush fails.
TerminalIsAnnounced == board.status # "ongoing" ~> terminals # <<>>

-----------------------------------------------------------------------------
(* What the documents say and the code does not keep.                      *)

\* INV-3, "exactly one gameCompleted per game": a completed game is announced as
\* completed.  It is not where the terminal flush of completeGame fails.
CompletionIsAnnounced == board.status = "completed" ~> terminals = << "gameCompleted" >>

\* PROTOCOL 10: the timebox of a vote is CHECK_VOTE_TTL_MS; an expiry that lost
\* the race against a close is a silent no-op.
ExpiryOnlyAtDeadline ==
    [][\A i \in DOMAIN pending' : i > Len(pending) /\ pending'[i].type = "checkVoteClosed"
         /\ pending'[i].reason = "EXPIRED" => left \in {0, NoTime}]_vars

\* hydrate.ts: the stats of a completed game were computed once, inside the
\* terminal flush, and must survive.
StatsSurvive == [][db.stats => db'.stats]_vars

\* routes.ts: an abandon that was answered with success is a terminal state.
AnsweredAbandonIsFinal == answered => db.board.status # "ongoing"

=============================================================================
