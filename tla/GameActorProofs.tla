-------------------------- MODULE GameActorProofs --------------------------
(***************************************************************************)
(* The actor with its database, faults, crashes and restarts, for every    *)
(* grid, set of users, flush policy and bound.                             *)
(*                                                                         *)
(* Two inductive invariants on boards: what is in memory and in the row    *)
(* are boards the engine could have produced (Sound), and the row is never *)
(* ahead of the actor, which does not forget an end it owes (Ordered).     *)
(* A third relates boards to logs (JInv): the log with the buffered events *)
(* appended is a journal of the board in memory, the log itself one of the *)
(* row.  From it: the row is what its log says, an open vote is timed, no  *)
(* more than a flush's worth is ever lost, and the actor implements        *)
(* DurableGame.                                                            *)
(***************************************************************************)
EXTENDS GameActor, EngineProofs

\* What the proofs need of the row: the columns are there and the board is good.
GoodRow(row) ==
    /\ DOMAIN row = {"board", "left", "recent", "stats"}
    /\ row = [x \in DOMAIN row |-> row[x]]
    /\ row.board \in Boards /\ GoodBoard(row.board)

Sound ==
    /\ board \in Boards /\ GoodBoard(board)
    /\ GoodRow(db)
    /\ mailbox \in Seq(Tasks)
    /\ online \subseteq Users

\* The row is a past of the live board, and never of another end.
RowIsBehind ==
    /\ db.board.seq <= board.seq
    /\ db.board.status # "ongoing" => board.status = db.board.status

\* A terminal flush is for the end the board has, and nothing was announced before.
EndInFlight ==
    /\ awaiting = "terminal" => board.status = "completed" /\ terminals = <<>>
    /\ awaiting = "abandon" => board.status = "abandoned" /\ terminals = <<>>

Announced ==
    \/ terminals = <<>>
    \/ terminals = << "gameCompleted" >> /\ db.board.status = "completed"
    \/ terminals = << "gameAbandoned" >> /\ db.board.status = "abandoned"

\* Without faults, an end that is not durable is being written.
EndIsOwed ==
    faults = 0 =>
        /\ answered => db.board.status # "ongoing"
        /\ alive /\ board.status # "ongoing" =>
               db.board.status # "ongoing" \/ awaiting \in {"terminal", "abandon"}

Ordered ==
    /\ alive => RowIsBehind /\ EndInFlight
    /\ awaiting \in {"none", "flush", "terminal", "abandon"}
    /\ ~ alive => awaiting = "none"
    /\ committed => alive /\ awaiting # "none" /\ db.board.status = board.status
    /\ Announced
    /\ faults \in Nat /\ EndIsOwed

IInv == Sound /\ Ordered

-----------------------------------------------------------------------------
(* Boards.                                                                 *)

LEMMA EmptyBoardIsGood == EmptyBoard \in Boards /\ GoodBoard(EmptyBoard)
<1>1. EmptyBoard \in Boards
  BY NoVoteIsAVote DEF EmptyBoard, Boards, Statuses
<1>2. FilledCells(EmptyBoard) = {} /\ Cardinality(FilledCells(EmptyBoard)) = 0
  BY FS_EmptySet DEF EmptyBoard, FilledCells
<1>3. Cardinality(Cells) # 0
  BY EngineAssumption, FS_EmptySet
<1>4. GoodBoard(EmptyBoard)
  BY <1>2, <1>3 DEF EmptyBoard, GoodBoard, FilledIsExact, MarksAreWrong,
                    CompletedIffSolved, IsFull, VoteOnFullGrid, VoteIsUndecided
<1> QED BY <1>1, <1>4

\* Leaving an open vote out of a snapshot keeps a board good.
LEMMA WithoutVote ==
    ASSUME NEW b \in Boards, GoodBoard(b)
    PROVE  /\ [b EXCEPT !.vote = NoVote] \in Boards
           /\ GoodBoard([b EXCEPT !.vote = NoVote])
<1> DEFINE d == [b EXCEPT !.vote = NoVote]
<1>1. /\ d \in Boards /\ d.cells = b.cells /\ d.filled = b.filled /\ d.marks = b.marks
      /\ d.status = b.status /\ d.vote = NoVote
  BY NoVoteIsAVote DEF Boards
<1> HIDE DEF d
<1>2. FilledCells(d) = FilledCells(b) /\ ComparatorFailures(d) = ComparatorFailures(b)
  BY <1>1 DEF FilledCells, ComparatorFailures
<1>3. IsFull(d) = IsFull(b) /\ BoardIsCorrect(d) = BoardIsCorrect(b)
  BY <1>1 DEF IsFull, BoardIsCorrect
<1>4. GoodBoard(d)
  BY <1>1, <1>2, <1>3 DEF GoodBoard, FilledIsExact, MarksAreWrong, CompletedIffSolved,
                          VoteOnFullGrid, VoteIsUndecided
<1> QED BY <1>1, <1>4 DEF d

\* What a flush writes is good, and of the board's status and seq.
LEMMA SnapshotIsGood ==
    ASSUME board \in Boards, GoodBoard(board), NEW withStats
    PROVE  /\ GoodRow(Snapshot(withStats))
           /\ Snapshot(withStats).board.status = board.status
           /\ Snapshot(withStats).board.seq = board.seq
<1> DEFINE d == [board EXCEPT !.vote = NoVote]
           row == Snapshot(withStats)
<1>1. d \in Boards /\ GoodBoard(d) /\ d.status = board.status /\ d.seq = board.seq
  BY WithoutVote DEF Boards
<1>2. row.board = d \/ row.board = board
  <2>1. CASE left = NoTime
    BY <2>1 DEF Snapshot
  <2>2. CASE left # NoTime
    BY <2>2 DEF Snapshot, Boards
  <2> QED BY <2>1, <2>2
<1>3. /\ DOMAIN row = {"board", "left", "recent", "stats"}
      /\ row = [x \in DOMAIN row |-> row[x]]
  BY DEF Snapshot
<1> HIDE DEF d, row
<1>4. GoodRow(row) /\ row.board.status = board.status /\ row.board.seq = board.seq
  BY <1>1, <1>2, <1>3 DEF GoodRow
<1> QED BY <1>4 DEF row

\* Recounting the filled cells of a good board changes nothing.
LEMMA RecountIsExact ==
    ASSUME NEW b \in Boards, GoodBoard(b) PROVE Recounted(b) = b
BY DEF Recounted, GoodBoard, FilledIsExact, Boards

\* The board doAbandon leaves: any open vote closed, one seq for the end.
LEMMA AbandonedIsGood ==
    ASSUME NEW b \in Boards, GoodBoard(b), b.status = "ongoing",
           NEW r, r = IF b.vote = NoVote THEN Accept(b, <<>>)
                      ELSE CloseFailed(b, b.vote, "cancelled", "TERMINAL"),
           NEW d, d = [r.state EXCEPT !.status = "abandoned", !.seq = @ + 1]
    PROVE  d \in Boards /\ GoodBoard(d) /\ d.status = "abandoned" /\ b.seq <= d.seq
<1>1. r.state \in Boards /\ GoodBoard(r.state) /\ r.state.vote = NoVote /\ b.seq <= r.state.seq
  <2>1. CASE b.vote = NoVote
    BY <2>1 DEF Accept, Boards
  <2>2. CASE b.vote # NoVote
    <3>1. b.vote \in Votes /\ "cancelled" \in Outcomes /\ "TERMINAL" \in Reasons
      BY <2>2 DEF Boards, MaybeVotes, Outcomes, Reasons
    <3>2. r.state \in Boards /\ r.state.vote = NoVote /\ r.state.seq = b.seq + 1
      BY <2>2, <3>1, CloseFailedShape
    <3>3. GoodResult(b, r)
      BY <2>2, <3>1, CloseFailedIsGood, GoodGridOfGoodBoard
    <3> QED BY <3>2, <3>3 DEF GoodResult, Boards
  <2> QED BY <2>1, <2>2
<1> DEFINE s == r.state
<1>2. /\ d \in Boards /\ d.cells = s.cells /\ d.filled = s.filled /\ d.marks = s.marks
      /\ d.status = "abandoned" /\ d.vote = NoVote /\ d.seq = s.seq + 1
  <2> DEFINE n == s.seq + 1
             e == [s EXCEPT !.status = "abandoned", !.seq = n]
  <2>1. n \in Nat /\ d = e
    BY <1>1 DEF Boards
  <2> HIDE DEF n
  <2>2. /\ e \in Boards /\ e.cells = s.cells /\ e.filled = s.filled /\ e.marks = s.marks
        /\ e.status = "abandoned" /\ e.vote = NoVote /\ e.seq = n
    BY <1>1, <2>1 DEF Boards, Statuses
  <2> QED BY <2>1, <2>2 DEF n
<1>3. s \in Boards /\ GoodBoard(s) /\ b.seq <= s.seq
  BY <1>1
<1> HIDE DEF s
<1>4. FilledCells(d) = FilledCells(s) /\ ComparatorFailures(d) = ComparatorFailures(s)
  BY <1>2 DEF FilledCells, ComparatorFailures
<1>5. GoodBoard(d)
  BY <1>2, <1>3, <1>4 DEF GoodBoard, FilledIsExact, MarksAreWrong, CompletedIffSolved,
                          VoteOnFullGrid, VoteIsUndecided
<1> QED BY <1>2, <1>3, <1>5 DEF Boards

\* A close leaves the status alone.
LEMMA TallyKeepsStatus ==
    ASSUME NEW b, "status" \in DOMAIN b
    PROVE  ResolveByTally(b).state.status = b.status
BY DEF ResolveByTally, ClosePassed, CloseFailed, Accept

LEMMA VoteKeepsStatus ==
    ASSUME NEW b, "status" \in DOMAIN b, NEW v, NEW events
    PROVE  Then(events, ResolveByTally([b EXCEPT !.seq = @ + 1, !.vote = v])).state.status = b.status
<1> DEFINE d == [b EXCEPT !.seq = @ + 1, !.vote = v]
<1>1. "status" \in DOMAIN d /\ d.status = b.status
  OBVIOUS
<1> HIDE DEF d
<1>2. ResolveByTally(d).state.status = b.status
  BY <1>1, TallyKeepsStatus
<1> QED BY <1>2 DEF Then, Accept, d

\* The engine ends a game by completing it or not at all.
LEMMA EngineOnlyCompletes ==
    ASSUME NEW b \in Boards, NEW cmd \in CellCommands \cup Proposals \cup Ballots
    PROVE  ApplyWithVote(b, cmd).state.status \in {b.status, "completed"}
<1> "status" \in DOMAIN b
  BY DEF Boards
<1>1. CASE cmd \in CellCommands
  <2> DEFINE r == Reduce(b, cmd)
             next == r.state
  <2>1. "status" \in DOMAIN next /\ next.status = b.status
    BY DEF Reduce, Reject, Accept, Write
  <2>2. ApplyWithVote(b, cmd) = ApplyMutation(b, cmd)
    BY <1>1 DEF ApplyWithVote, CellCommands
  <2> HIDE DEF r
  <2>3. /\ \A why : LET d == CloseFailed(next, next.vote, "cancelled", why).state
                   IN  "status" \in DOMAIN d /\ d.status = b.status
        /\ \A d : "status" \in DOMAIN d => Complete(d).state.status = "completed"
    BY <2>1 DEF CloseFailed, Complete, Accept
  <2>4. ApplyMutation(b, cmd).state.status \in {b.status, "completed"}
    BY <2>1, <2>3 DEF ApplyMutation, Then, Accept, r
  <2> QED BY <2>2, <2>4
<1>2. CASE cmd \in Proposals
  <2>1. ApplyWithVote(b, cmd) = OpenVote(b, cmd)
    BY <1>2 DEF ApplyWithVote, Proposals
  <2> DEFINE v == [openedSeq |-> b.seq + 1, by |-> cmd.by, id |-> cmd.id,
                   electorate |-> cmd.electorate, approvals |-> {cmd.by},
                   rejections |-> {}]
             r == Then(<< VoteOpened(b.seq + 1, v) >>,
                       ResolveByTally([b EXCEPT !.seq = @ + 1, !.vote = v]))
  <2>2. r.state.status = b.status
    BY VoteKeepsStatus
  <2>3. OpenVote(b, cmd) = r \/ \E code : OpenVote(b, cmd) = Reject(b, code)
    BY DEF OpenVote
  <2> HIDE DEF r
  <2> QED BY <2>1, <2>2, <2>3 DEF Reject
<1>3. CASE cmd \in Ballots
  <2>1. ApplyWithVote(b, cmd) = CastVote(b, cmd)
    BY <1>3 DEF ApplyWithVote, Ballots
  <2> DEFINE v == IF cmd.approve
                  THEN [b.vote EXCEPT !.approvals = @ \cup {cmd.by}]
                  ELSE [b.vote EXCEPT !.rejections = @ \cup {cmd.by}]
             tally == << VoteCast(b.seq + 1, b.vote.openedSeq, cmd.by, cmd.approve) >>
             r == Then(tally, ResolveByTally([b EXCEPT !.seq = @ + 1, !.vote = v]))
  <2>2. r.state.status = b.status
    <3> HIDE DEF v, tally
    <3> QED BY VoteKeepsStatus
  <2>3. CastVote(b, cmd) = r \/ \E code : CastVote(b, cmd) = Reject(b, code)
    BY DEF CastVote
  <2> HIDE DEF r
  <2> QED BY <2>1, <2>2, <2>3 DEF Reject
<1> QED BY <1>1, <1>2, <1>3

-----------------------------------------------------------------------------
(* The mailbox.                                                            *)

LEMMA PostKeepsTasks ==
    ASSUME mailbox \in Seq(Tasks), NEW t \in Tasks, Post(t)
    PROVE  mailbox' \in Seq(Tasks)
BY DEF Post

LEMMA TimersPostTasks ==
    FlushTask \in Tasks /\ ExpiryTask \in Tasks /\ AbandonTask \in Tasks
BY DEF FlushTask, ExpiryTask, AbandonTask, Tasks

LEMMA DequeueKeepsTasks ==
    ASSUME mailbox \in Seq(Tasks), NEW kind, Dequeue(kind)
    PROVE  mailbox' \in Seq(Tasks) /\ Head(mailbox) \in Tasks /\ alive /\ awaiting = "none"
BY DEF Dequeue

\* What a client sends becomes a command of the engine.
LEMMA SubmitIsTyped ==
    ASSUME board \in Boards, NEW u \in Users, NEW msg \in Messages
    PROVE  CommandTask(u, msg) \in Tasks
<1>1. CASE msg \in CellCommands
  BY <1>1 DEF CommandTask, Tasks
<1>2. CASE msg \in {[type |-> "checkPuzzle", id |-> i] : i \in CommandIds}
  BY <1>2 DEF CommandTask, Tasks
<1>3. CASE msg \notin CellCommands /\ msg \notin {[type |-> "checkPuzzle", id |-> i] : i \in CommandIds}
  <2>1. PICK i \in CommandIds, s \in {board.vote.openedSeq : v \in {board.vote} \ {NoVote}},
             yes \in BOOLEAN :
          msg = [type |-> "castCheckVote", id |-> i, voteSeq |-> s, approve |-> yes]
    BY <1>3 DEF Messages
  <2>2. s \in Nat
    BY <2>1 DEF Boards, MaybeVotes, Votes
  <2> QED BY <2>1, <2>2 DEF CommandTask, Tasks
<1> QED BY <1>1, <1>2, <1>3

LEMMA CommandIsTyped ==
    ASSUME NEW t \in Tasks, t.kind = "command", online \subseteq Users
    PROVE  VoteCommand(t.by, t.msg) \in CellCommands \cup Proposals \cup Ballots
<1>1. t.by \in Users /\ t.msg \in CellCommands \cup [type : {"checkPuzzle"}, id : CommandIds]
                    \cup [type : {"castCheckVote"}, id : CommandIds, voteSeq : Nat,
                          approve : BOOLEAN]
  BY DEF Tasks
<1>2. CASE t.msg \in CellCommands
  BY <1>2 DEF VoteCommand, CellCommands
<1>3. CASE t.msg \in [type : {"checkPuzzle"}, id : CommandIds]
  <2>1. Electorate(t.by) \subseteq Users /\ t.by \in Electorate(t.by)
    BY <1>1 DEF Electorate
  <2> QED BY <1>1, <1>3, <2>1 DEF VoteCommand, Proposals
<1>4. CASE t.msg \in [type : {"castCheckVote"}, id : CommandIds, voteSeq : Nat, approve : BOOLEAN]
  BY <1>1, <1>4 DEF VoteCommand, Ballots
<1> QED BY <1>1, <1>2, <1>3, <1>4

-----------------------------------------------------------------------------
(* What the steps that move the board do to it.                            *)

\* A good result is a good board, not before the one it came from.
LEMMA ResultIsLater ==
    ASSUME NEW b \in Boards, NEW r, GoodResult(b, r)
    PROVE  r.state \in Boards /\ GoodBoard(r.state) /\ b.seq <= r.state.seq
<1> DEFINE n == Len(r.events)
           m == r.state.seq
<1>1. n \in Nat /\ m = b.seq + n /\ b.seq \in Nat
  BY DEF GoodResult, Numbered, Boards
<1> HIDE DEF n
<1>2. b.seq <= m
  BY <1>1
<1> QED BY <1>2 DEF GoodResult, m

LEMMA FlushOrNone ==
    ASSUME NEW buffer, AfterMutationFlush(buffer) PROVE awaiting' \in {"none", "flush"}
BY DEF AfterMutationFlush

LEMMA CommandMovesBoard ==
    ASSUME Sound, RunCommand
    PROVE  /\ board' \in Boards /\ GoodBoard(board') /\ board.seq <= board'.seq
           /\ \/ board' = board /\ awaiting' = "none"
              \/ /\ board.status = "ongoing"
                 /\ \/ awaiting' \in {"none", "flush"} /\ board'.status = "ongoing"
                    \/ awaiting' = "terminal" /\ board'.status = "completed"
<1> DEFINE by == Head(mailbox).by
           msg == Head(mailbox).msg
           cmd == VoteCommand(by, msg)
           result == ApplyWithVote(board, cmd)
           buffer == pending \o Buffered(result.events)
<1>1. Head(mailbox) \in Tasks /\ Head(mailbox).kind = "command" /\ awaiting = "none"
  BY DequeueKeepsTasks DEF Sound, RunCommand, Dequeue
<1>2. cmd \in CellCommands \cup Proposals \cup Ballots /\ cmd \in Commands
  BY <1>1, CommandIsTyped DEF Sound, Commands
<1> HIDE DEF cmd
<1>3. GoodResult(board, result)
  BY <1>2, EngineKeepsGoodBoards DEF Sound
<1>4. /\ result.error = "none" => board.status = "ongoing"
      /\ result.state.status \in {board.status, "completed"}
  BY <1>2, OverRejects, EngineOnlyCompletes DEF Sound
<1> DEFINE accepted ==
             /\ result.error = "none"
             /\ board' = result.state
             /\ IF result.state.status = "completed" THEN awaiting' = "terminal"
                ELSE AfterMutationFlush(buffer)
<1>5. Dropped \/ accepted
  BY Zenon DEF RunCommand, cmd
<1> HIDE DEF result, buffer
<1>6. CASE Dropped
  BY <1>1, <1>6 DEF Dropped, memory, Sound, Boards
<1>7. CASE accepted
  <2>2. CASE result.state.status = "completed"
    BY <1>3, <1>4, <1>7, <2>2, ResultIsLater DEF Sound
  <2>3. CASE result.state.status # "completed"
    <3>1. awaiting' \in {"none", "flush"}
      BY <1>7, <2>3, FlushOrNone
    <3> QED BY <1>3, <1>4, <1>7, <2>3, <3>1, ResultIsLater DEF Sound
  <2> QED BY <2>2, <2>3
<1> QED BY <1>5, <1>6, <1>7

LEMMA CommandKeepsHistory ==
    ASSUME RunCommand PROVE terminals' = terminals /\ answered' = answered
BY Zenon DEF RunCommand, Dropped, history

LEMMA ExpiryMovesBoard ==
    ASSUME Sound, RunExpiry
    PROVE  /\ board' \in Boards /\ GoodBoard(board') /\ board.seq <= board'.seq
           /\ awaiting' \in {"none", "flush"}
           /\ board'.status = board.status
           /\ board.status # "ongoing" => awaiting' = "none"
<1> DEFINE result == ApplyWithVote(board, Expiry)
<1>1. board \in Boards /\ GoodBoard(board) /\ awaiting = "none"
  BY DEF Sound, RunExpiry, Dequeue
<1>2. GoodResult(board, result)
  BY <1>1, EngineKeepsGoodBoards DEF Commands
<1>3. board' = result.state
      /\ IF result.events = <<>> THEN awaiting' = awaiting
         ELSE AfterMutationFlush(pending \o result.events)
  BY DEF RunExpiry
<1>4. result = ExpireVote(board)
  BY DEF ApplyWithVote, Expiry
<1>5. result.state.status = board.status
  <2>1. CASE board.vote = NoVote
    BY <1>4, <2>1 DEF ExpireVote, Accept
  <2>2. CASE board.vote # NoVote
    <3>1. result = CloseFailed(board, board.vote, "failed", "EXPIRED")
      BY <1>4, <2>2 DEF ExpireVote
    <3> HIDE DEF result
    <3> QED BY <1>1, <3>1 DEF CloseFailed, Accept, Boards
  <2> QED BY <2>1, <2>2
<1>6. board.status # "ongoing" => result.events = <<>>
  BY <1>1, <1>4 DEF ExpireVote, Accept, GoodBoard, VoteOnFullGrid
<1> HIDE DEF result
<1>7. awaiting' \in {"none", "flush"}
  BY <1>1, <1>3, FlushOrNone
<1> QED BY <1>1, <1>2, <1>3, <1>5, <1>6, <1>7, ResultIsLater

LEMMA AbandonMovesBoard ==
    ASSUME Sound, RunAbandon
    PROVE  /\ board' \in Boards /\ GoodBoard(board') /\ board.seq <= board'.seq
           /\ \/ /\ board.status # "ongoing" /\ board' = board /\ awaiting' = "none"
              \/ /\ board.status = "ongoing" /\ board'.status = "abandoned"
                 /\ awaiting' = "abandon" /\ (answered' => answered)
<1> DEFINE closed == IF board.vote = NoVote THEN Accept(board, <<>>)
                     ELSE CloseFailed(board, board.vote, "cancelled", "TERMINAL")
<1>1. board \in Boards /\ GoodBoard(board) /\ awaiting = "none"
  BY DEF Sound, RunAbandon, Dequeue
<1>2. CASE AlreadyOver
  BY <1>1, <1>2 DEF RunAbandon, AlreadyOver, memory, Boards
<1>3. CASE ~ AlreadyOver
  <2>1. /\ board' = [closed.state EXCEPT !.status = "abandoned", !.seq = @ + 1]
        /\ awaiting' = "abandon"
    BY <1>3 DEF RunAbandon
  <2>2. board.status = "ongoing"
    BY <1>3 DEF AlreadyOver
  <2>3. answered' => answered
    BY <1>3 DEF RunAbandon
  <2>5. closed = IF board.vote = NoVote THEN Accept(board, <<>>)
                 ELSE CloseFailed(board, board.vote, "cancelled", "TERMINAL")
    OBVIOUS
  <2> HIDE DEF closed
  <2>4. board' \in Boards /\ GoodBoard(board') /\ board'.status = "abandoned" /\ board.seq <= board'.seq
    BY <1>1, <2>1, <2>2, <2>5, AbandonedIsGood
  <2> QED BY <2>1, <2>2, <2>3, <2>4
<1> QED BY <1>2, <1>3

\* A restart serves the stored board, or that board with its expired vote closed.
LEMMA HydrateMovesBoard ==
    ASSUME Sound, Hydrate
    PROVE  /\ board' \in Boards /\ GoodBoard(board') /\ db.board.seq <= board'.seq
           /\ board'.status = db.board.status
<1> DEFINE stored == Recounted(db.board)
           expired == stored.vote # NoVote /\ db.left \in {NoTime, 0}
           result == IF expired THEN ExpireVote(stored) ELSE Accept(stored, <<>>)
<1>1. stored = db.board /\ stored \in Boards /\ GoodBoard(stored)
  BY RecountIsExact DEF Sound, GoodRow
<1>2. board' = result.state
  BY DEF Hydrate
<1> HIDE DEF stored
<1>3. CASE ~ expired
  BY <1>1, <1>2, <1>3 DEF Accept, Boards
<1>4. CASE expired
  <2>1. GoodResult(stored, ExpireVote(stored))
    BY <1>1, ExpireVoteIsGood
  <2>2. ExpireVote(stored).state.status = stored.status
    BY <1>1, <1>4 DEF ExpireVote, CloseFailed, Accept, Boards
  <2> QED BY <1>1, <1>2, <1>4, <2>1, <2>2, ResultIsLater
<1> QED BY <1>3, <1>4

-----------------------------------------------------------------------------
(* Sound is inductive.                                                     *)

LEMMA InitSound == Init => Sound
BY EmptyBoardIsGood DEF Init, Sound, GoodRow

LEMMA EmptyMailbox == <<>> \in Seq(Tasks)
OBVIOUS

LEMMA SoundStep == ASSUME Sound, Next PROVE Sound'
<1> USE DEF memory, durable, history, counters
<1>1. CASE Submit
  <2>1. PICK u \in online, msg \in Messages : Post(CommandTask(u, msg))
    BY <1>1 DEF Submit
  <2>2. mailbox' \in Seq(Tasks)
    BY <2>1, SubmitIsTyped, PostKeepsTasks DEF Sound
  <2> QED BY <1>1, <2>2 DEF Sound, Submit
<1>2. CASE Abandon
  BY <1>2, TimersPostTasks, PostKeepsTasks DEF Sound, Abandon
<1>3. CASE Drain
  BY <1>3, TimersPostTasks, PostKeepsTasks DEF Sound, Drain
<1>4. CASE Tick
  <2>1. GoodRow(db')
    BY <1>4 DEF Tick, Sound, GoodRow
  <2> QED BY <1>4, <2>1 DEF Sound, Tick
<1>5. ASSUME NEW u \in Users, Connect(u) \/ Disconnect(u) PROVE Sound'
  BY <1>5 DEF Sound, Connect, Disconnect
<1>6. CASE RunCommand
  BY <1>6, CommandMovesBoard, DequeueKeepsTasks DEF Sound, RunCommand
<1>7. CASE RunFlush
  BY <1>7, DequeueKeepsTasks DEF Sound, RunFlush
<1>8. CASE RunExpiry
  BY <1>8, ExpiryMovesBoard, DequeueKeepsTasks DEF Sound, RunExpiry
<1>9. CASE RunAbandon
  BY <1>9, AbandonMovesBoard, DequeueKeepsTasks DEF Sound, RunAbandon
<1>10. CASE FlushTimerFires \/ VoteTimerFires
  BY <1>10, TimersPostTasks, PostKeepsTasks DEF Sound, FlushTimerFires, VoteTimerFires
<1>11. CASE DbCommits
  <2>1. GoodRow(db')
    BY <1>11, SnapshotIsGood DEF DbCommits, Sound
  <2> QED BY <1>11, <2>1 DEF Sound, DbCommits
<1>12. CASE FlushSucceeds \/ FlushFails
  BY <1>12 DEF Sound, FlushSucceeds, FlushFails
<1>13. CASE Crash
  BY <1>13, EmptyBoardIsGood, EmptyMailbox DEF Sound, Crash
<1>14. CASE Hydrate
  <2>1. mailbox' \in Seq(Tasks)
    BY <1>14, TimersPostTasks DEF Hydrate
  <2>2. db' = db /\ online' = online
    BY <1>14 DEF Hydrate
  <2> QED BY <1>14, <2>1, <2>2, HydrateMovesBoard DEF Sound
<1> QED BY <1>1, <1>2, <1>3, <1>4, <1>5, <1>6, <1>7, <1>8, <1>9, <1>10, <1>11, <1>12, <1>13, <1>14
        DEF Next, Environment, Actor, Failures

-----------------------------------------------------------------------------
(* Ordered is inductive relative to it.                                    *)

LEMMA InitOrdered == Init => Ordered
BY DEF Init, Ordered, RowIsBehind, EndInFlight, Announced, EndIsOwed, EmptyBoard

\* What Ordered reads.
LEMMA OrderedKept ==
    ASSUME Ordered, board' = board, db' = db, alive' = alive, awaiting' = awaiting,
           committed' = committed, terminals' = terminals, answered' = answered,
           faults' = faults
    PROVE  Ordered'
BY DEF Ordered, RowIsBehind, EndInFlight, Announced, EndIsOwed

\* A task that leaves the row alone and keeps, moves or ends an ongoing board.
LEMMA OrderedAfterTask ==
    ASSUME Sound, Ordered, alive, awaiting = "none", db' = db, alive' = alive,
           committed' = committed, terminals' = terminals, faults' = faults,
           board' \in Boards, board.seq <= board'.seq,
           \/ board'.status = board.status /\ awaiting' \in {"none", "flush"}
           \/ /\ board.status = "ongoing"
              /\ \/ awaiting' = "terminal" /\ board'.status = "completed"
                 \/ awaiting' = "abandon" /\ board'.status = "abandoned",
           answered' => answered \/ board.status # "ongoing"
    PROVE  Ordered'
<1>1. /\ board.seq \in Nat /\ board'.seq \in Nat /\ db.board.seq \in Nat
      /\ db.board.seq <= board.seq
  BY DEF Sound, GoodRow, Boards, Ordered, RowIsBehind
<1>2. db.board.seq <= board'.seq
  BY <1>1
<1>3. board.status = "ongoing" => db.board.status = "ongoing" /\ terminals = <<>>
  BY DEF Ordered, RowIsBehind, Announced
<1>4. RowIsBehind'
  BY <1>2, <1>3 DEF Ordered, RowIsBehind
<1>5. EndInFlight' /\ Announced'
  BY <1>3 DEF EndInFlight, Announced, Ordered
<1>6. EndIsOwed'
  BY <1>3 DEF EndIsOwed, Ordered
<1> QED BY <1>4, <1>5, <1>6 DEF Ordered

LEMMA AnnouncedIsASeq ==
    ASSUME Announced PROVE terminals \o <<>> = terminals
BY DEF Announced

LEMMA OrderedStep == ASSUME Sound, Ordered, Next PROVE Ordered'
<1> USE DEF memory, durable, history, counters
<1>1. CASE Submit
  BY <1>1, OrderedKept DEF Submit
<1>2. CASE Abandon \/ Drain
  BY <1>2, OrderedKept DEF Abandon, Drain
<1>3. CASE Tick
  <2>1. db'.board = db.board
    BY <1>3 DEF Tick, Sound, GoodRow
  <2> QED BY <1>3, <2>1 DEF Tick, Ordered, RowIsBehind, EndInFlight, Announced, EndIsOwed
<1>4. ASSUME NEW u \in Users, Connect(u) \/ Disconnect(u) PROVE Ordered'
  BY <1>4, OrderedKept DEF Connect, Disconnect
<1>5. CASE RunCommand
  <2>1. /\ alive /\ awaiting = "none" /\ db' = db /\ alive' = alive /\ committed' = committed
        /\ faults' = faults
    BY <1>5 DEF RunCommand, Dequeue
  <2>2. terminals' = terminals /\ answered' = answered
    BY <1>5, CommandKeepsHistory
  <2> QED BY <1>5, <2>1, <2>2, CommandMovesBoard, OrderedAfterTask
<1>6. CASE RunFlush
  <2>1. /\ alive /\ awaiting = "none" /\ db' = db /\ alive' = alive /\ committed' = committed
        /\ faults' = faults /\ board' = board /\ terminals' = terminals /\ answered' = answered
        /\ awaiting' \in {"none", "flush"}
    BY <1>6 DEF RunFlush, Dequeue
  <2> QED BY <2>1, OrderedAfterTask DEF Sound, Boards
<1>7. CASE RunExpiry
  <2>1. /\ alive /\ awaiting = "none" /\ db' = db /\ alive' = alive /\ committed' = committed
        /\ faults' = faults /\ terminals' = terminals /\ answered' = answered
    BY <1>7 DEF RunExpiry, Dequeue
  <2> QED BY <1>7, <2>1, ExpiryMovesBoard, OrderedAfterTask
<1>8. CASE RunAbandon
  <2>1. /\ alive /\ awaiting = "none" /\ db' = db /\ alive' = alive /\ committed' = committed
        /\ faults' = faults /\ terminals' = terminals
    BY <1>8 DEF RunAbandon, Dequeue
  <2>2. answered' => answered \/ board.status # "ongoing"
    BY <1>8, AbandonMovesBoard DEF RunAbandon, AlreadyOver
  <2> QED BY <1>8, <2>1, <2>2, AbandonMovesBoard, OrderedAfterTask
<1>9. CASE FlushTimerFires \/ VoteTimerFires
  BY <1>9, OrderedKept DEF FlushTimerFires, VoteTimerFires
<1>10. CASE DbCommits
  <2> DEFINE row == Snapshot(awaiting = "terminal" \/ stats)
  <2>1. row.board.status = board.status /\ row.board.seq = board.seq
    BY SnapshotIsGood DEF Sound
  <2>2. /\ alive /\ awaiting # "none" /\ RowAccepts(row) /\ db' = row /\ committed' = TRUE
        /\ alive' = alive /\ board' = board /\ awaiting' = awaiting /\ faults' = faults
        /\ terminals' = terminals /\ answered' = answered
    BY <1>10 DEF DbCommits
  <2> HIDE DEF row
  <2>3. db'.board.status = board.status /\ db'.board.seq = board.seq
    BY <2>1, <2>2
  <2>4. db.board.status # "ongoing" => board.status = db.board.status
    BY <2>2 DEF Ordered, RowIsBehind
  <2>5. RowIsBehind' /\ EndInFlight'
    BY <2>2, <2>3 DEF Ordered, RowIsBehind, EndInFlight, Sound, Boards
  <2>6. Announced' /\ EndIsOwed'
    BY <2>2, <2>3, <2>4 DEF Ordered, Announced, EndIsOwed
  <2> QED BY <2>2, <2>3, <2>5, <2>6 DEF Ordered
<1>11. CASE FlushSucceeds
  <2>1. /\ alive /\ committed /\ awaiting' = "none" /\ committed' = FALSE
        /\ alive' = alive /\ board' = board /\ db' = db /\ faults' = faults
        /\ terminals' = terminals \o TerminalBroadcast
        /\ answered' = (answered \/ awaiting = "abandon")
    BY <1>11 DEF FlushSucceeds
  <2>2. awaiting # "none" /\ db.board.status = board.status
    BY <2>1 DEF Ordered
  <2>3. CASE awaiting = "flush"
    <3>1. terminals' = terminals
      BY <2>1, <2>3, AnnouncedIsASeq DEF TerminalBroadcast, Ordered
    <3>2. answered' => answered
      BY <2>1, <2>3
    <3> QED BY <2>1, <2>2, <2>3, <3>1, <3>2
            DEF Ordered, RowIsBehind, EndInFlight, Announced, EndIsOwed
  <2>4. CASE awaiting = "terminal"
    <3>1. terminals' = << "gameCompleted" >> /\ board.status = "completed"
      BY <2>1, <2>4 DEF TerminalBroadcast, Ordered, EndInFlight
    <3> QED BY <2>1, <2>2, <3>1 DEF Ordered, RowIsBehind, EndInFlight, Announced, EndIsOwed
  <2>5. CASE awaiting = "abandon"
    <3>1. terminals' = << "gameAbandoned" >> /\ board.status = "abandoned"
      BY <2>1, <2>5 DEF TerminalBroadcast, Ordered, EndInFlight
    <3> QED BY <2>1, <2>2, <3>1 DEF Ordered, RowIsBehind, EndInFlight, Announced, EndIsOwed
  <2> QED BY <2>2, <2>3, <2>4, <2>5 DEF Ordered
<1>12. CASE FlushFails
  <2>1. faults' = faults + 1 /\ faults \in Nat /\ faults' # 0
    BY <1>12 DEF FlushFails, Ordered
  <2>2. EndIsOwed'
    BY <2>1 DEF EndIsOwed
  <2> QED BY <1>12, <2>1, <2>2 DEF FlushFails, Ordered, RowIsBehind, EndInFlight, Announced
<1>13. CASE Crash
  BY <1>13 DEF Crash, Ordered, Announced, EndIsOwed
<1>14. CASE Hydrate
  <2>1. /\ ~ alive /\ awaiting' = awaiting /\ db' = db /\ committed' = committed /\ alive'
        /\ terminals' = terminals /\ answered' = answered /\ faults' = faults
    BY <1>14 DEF Hydrate
  <2>2. db.board.seq <= board'.seq /\ board'.status = db.board.status
    BY <1>14, HydrateMovesBoard
  <2> QED BY <2>1, <2>2 DEF Ordered, RowIsBehind, EndInFlight, Announced, EndIsOwed
<1> QED BY <1>1, <1>2, <1>3, <1>4, <1>5, <1>6, <1>7, <1>8, <1>9, <1>10, <1>11, <1>12, <1>13, <1>14
        DEF Next, Environment, Actor, Failures

-----------------------------------------------------------------------------
(* The theorems.                                                           *)

THEOREM Invariance == Spec => []IInv
<1>1. Init => IInv
  BY InitSound, InitOrdered DEF IInv
<1>2. IInv /\ [Next]_vars => IInv'
  <2>1. ASSUME IInv, Next PROVE IInv'
    BY <2>1, SoundStep, OrderedStep DEF IInv
  <2>2. ASSUME IInv, UNCHANGED vars PROVE IInv'
    <3>1. /\ UNCHANGED <<board, db, mailbox, online, alive, awaiting>>
          /\ UNCHANGED <<committed, terminals, answered, faults>>
      BY <2>2 DEF vars, history
    <3> QED BY <2>2, <3>1, OrderedKept DEF IInv, Sound
  <2> QED BY <2>1, <2>2
<1> QED BY <1>1, <1>2, PTL DEF Spec

\* Whatever is served and whatever is stored is a board the engine could have
\* produced, through faults, crashes and rehydration.
THEOREM BoardsStayGood == Spec => [](GoodBoard(board) /\ GoodBoard(db.board))
<1>1. IInv => GoodBoard(board) /\ GoodBoard(db.board)
  BY DEF IInv, Sound, GoodRow
<1> QED BY <1>1, Invariance, PTL

\* INV-4, INV-7: no snapshot regresses the row's seq or changes a durable end.
THEOREM SnapshotsAreAccepted == Spec => []NeverRefused
<1>1. IInv => NeverRefused
  <2> SUFFICES ASSUME IInv, alive, awaiting # "none" PROVE RowAccepts(Snapshot(stats))
    BY DEF NeverRefused
  <2>1. Snapshot(stats).board.status = board.status /\ Snapshot(stats).board.seq = board.seq
    BY SnapshotIsGood DEF IInv, Sound
  <2>2. /\ db.board.seq <= board.seq
        /\ db.board.status # "ongoing" => board.status = db.board.status
        /\ db.board.seq \in Nat /\ board.seq \in Nat
    BY DEF IInv, Sound, Ordered, RowIsBehind, GoodRow, Boards
  <2> QED BY <2>1, <2>2 DEF RowAccepts
<1> QED BY <1>1, Invariance, PTL

\* INV-3: one terminal event at most, announced after it is durable; without
\* faults an answered abandon is durable too.
THEOREM EndsAreDurableFirst == Spec => []TerminalIsDurableFirst
<1>1. IInv => TerminalIsDurableFirst
  <2> SUFFICES ASSUME IInv PROVE TerminalIsDurableFirst
    OBVIOUS
  <2>1. Announced /\ EndIsOwed
    BY DEF IInv, Ordered
  <2>2. CASE terminals = <<>>
    BY <2>1, <2>2 DEF EndIsOwed, TerminalIsDurableFirst
  <2>3. CASE terminals = << "gameCompleted" >> /\ db.board.status = "completed"
    BY <2>3 DEF TerminalIsDurableFirst
  <2>4. CASE terminals = << "gameAbandoned" >> /\ db.board.status = "abandoned"
    BY <2>4 DEF TerminalIsDurableFirst
  <2> QED BY <2>1, <2>2, <2>3, <2>4 DEF Announced
<1> QED BY <1>1, Invariance, PTL


-----------------------------------------------------------------------------
(* Journals: sets of events and the board they lead to.                    *)

\* The seqs of board b on the log are 1 .. LastSeq(b).
LastSeq(b) == IF b.status = "ongoing" THEN b.seq ELSE b.seq - 1

\* J holds one event for each seq on the log of board b and its last writes are
\* b's letters.
Faithful(b, J) ==
    /\ J \subseteq Events
    /\ {e.seq : e \in J} = LoggedSeqs(b)
    /\ \A e, f \in J : e.seq = f.seq => e = f
    /\ ReplayedCells(J) = b.cells

\* A step that is not the end of the game.
Going(b, e, d) == ActStep(b, e, d) \/ CloseStep(b, e, d) \/ CheckStep(b, e, d)

LEMMA BoardHasSeq ==
    ASSUME NEW b \in Boards PROVE b.seq \in Nat /\ b.seq + 0 = b.seq
<1>1. b.seq \in Nat
  BY DEF Boards
<1> QED BY <1>1

LEMMA GoingIsNext ==
    ASSUME NEW b, NEW e, NEW d, Going(b, e, d)
    PROVE  /\ IsNext(b, e, d) /\ d.status = "ongoing" /\ ~ IsTerminalEvent(e)
           /\ d.cells = IF e.type = "cellSet" THEN [b.cells EXCEPT ![e.cell] = e.value]
                        ELSE b.cells
<1>1. CASE CellStep(b, e, d)
  BY <1>1 DEF CellStep, IsNext, IsTerminalEvent
<1>2. CASE OpenStep(b, e, d)
  BY <1>2 DEF OpenStep, SameLetters, IsNext, IsTerminalEvent
<1>3. CASE CastStep(b, e, d)
  BY <1>3 DEF CastStep, SameLetters, IsNext, IsTerminalEvent
<1>4. CASE CloseStep(b, e, d)
  BY <1>4 DEF CloseStep, SameLetters, IsNext, IsTerminalEvent
<1>5. CASE CheckStep(b, e, d)
  BY <1>5 DEF CheckStep, IsNext, IsTerminalEvent
<1> QED BY <1>1, <1>2, <1>3, <1>4, <1>5 DEF Going, ActStep

\* What Faithful reads of the board.
LEMMA FaithfulReads ==
    ASSUME NEW b, NEW J, Faithful(b, J), NEW d,
           LoggedSeqs(d) = LoggedSeqs(b), d.cells = b.cells
    PROVE  Faithful(d, J)
BY DEF Faithful

\* The end takes a seq that never reaches the log.
LEMMA FaithfulEnd ==
    ASSUME NEW b, NEW J, Faithful(b, J), NEW e, NEW d, EndStep(b, e, d)
    PROVE  Faithful(d, J)
<1>1. d.seq = b.seq + 1 /\ b.status = "ongoing" /\ d.status = "completed" /\ b.seq \in Nat
      /\ d.cells = b.cells
  BY DEF EndStep, IsNext, SameLetters, Boards
<1>2. LoggedSeqs(d) = LoggedSeqs(b)
  BY <1>1 DEF LoggedSeqs
<1> QED BY <1>1, <1>2, FaithfulReads

\* The last write of a journal, with one more event after it.
LEMMA ReplayOneMore ==
    ASSUME NEW J, J \subseteq Events, NEW n \in Nat, \A f \in J : f.seq <= n,
           NEW e \in Events, e.seq = n + 1
    PROVE  ReplayedCells(J \cup {e}) =
             IF e.type = "cellSet" THEN [ReplayedCells(J) EXCEPT ![e.cell] = e.value]
             ELSE ReplayedCells(J)
<1> DEFINE writes(K, c) == {x \in K : x.type = "cellSet" /\ x.cell = c}
           last(K, c) == CHOOSE x \in writes(K, c) : \A f \in writes(K, c) : f.seq <= x.seq
           value(K, c) == IF writes(K, c) = {} THEN NoValue ELSE last(K, c).value
<1>1. \A K : ReplayedCells(K) = [c \in Cells |-> value(K, c)]
  BY DEF ReplayedCells
<1>2. ASSUME NEW c, ~ (e.type = "cellSet" /\ e.cell = c)
      PROVE  value(J \cup {e}, c) = value(J, c)
  <2>1. writes(J \cup {e}, c) = writes(J, c)
    BY <1>2
  <2>2. last(J \cup {e}, c) = last(J, c)
    BY <2>1
  <2> HIDE DEF writes, last
  <2> QED BY <2>1, <2>2
<1>3. ASSUME e.type = "cellSet"
      PROVE  value(J \cup {e}, e.cell) = e.value
  <2> DEFINE W == writes(J \cup {e}, e.cell)
  <2>1. e \in W /\ \A x \in W : x = e \/ (x \in J /\ x.seq <= n)
    BY <1>3
  <2>2. \A x \in W : x.seq <= e.seq
    <3> SUFFICES ASSUME NEW x \in W PROVE x.seq <= e.seq
      OBVIOUS
    <3>1. x = e \/ (x \in J /\ x.seq <= n)
      BY <2>1
    <3>2. x.seq \in Nat
      BY <3>1 DEF Events
    <3> QED BY <3>1, <3>2
  <2>3. \A x \in W : (\A f \in W : f.seq <= x.seq) => x = e
    <3> SUFFICES ASSUME NEW x \in W, \A f \in W : f.seq <= x.seq, x # e PROVE FALSE
      OBVIOUS
    <3>1. x \in J /\ x.seq <= n /\ n + 1 <= x.seq
      BY <2>1
    <3>2. x.seq \in Nat
      BY <3>1 DEF Events
    <3> QED BY <3>1, <3>2
  <2> HIDE DEF W
  <2>4. (CHOOSE x \in W : \A f \in W : f.seq <= x.seq) = e
    BY <2>1, <2>2, <2>3
  <2>5. W # {}
    BY <2>1
  <2> HIDE DEF writes
  <2>6. last(J \cup {e}, e.cell) = e
    BY <2>4 DEF W
  <2> HIDE DEF last
  <2> QED BY <2>5, <2>6 DEF W
<1> HIDE DEF value
<1>4. CASE e.type = "cellSet"
  <2>1. e.cell \in Cells
    BY <1>4 DEF Events
  <2>2. \A c \in Cells : value(J \cup {e}, c) = IF c = e.cell THEN e.value ELSE value(J, c)
    BY <1>2, <1>3, <1>4
  <2>3. [c \in Cells |-> value(J \cup {e}, c)] = [[c \in Cells |-> value(J, c)] EXCEPT ![e.cell] = e.value]
    BY <2>1, <2>2
  <2> QED BY <1>1, <1>4, <2>3
<1>5. CASE e.type # "cellSet"
  BY <1>1, <1>2, <1>5
<1> QED BY <1>4, <1>5

LEMMA FaithfulStep ==
    ASSUME NEW b, NEW J, Faithful(b, J), NEW e, NEW d, Going(b, e, d)
    PROVE  Faithful(d, J \cup {e})
<1>1. /\ e \in Events /\ e.seq = b.seq + 1 /\ d.seq = e.seq /\ b.status = "ongoing"
      /\ d.status = "ongoing" /\ b.seq \in Nat
      /\ d.cells = IF e.type = "cellSet" THEN [b.cells EXCEPT ![e.cell] = e.value] ELSE b.cells
  <2>1. IsNext(b, e, d)
    BY GoingIsNext
  <2>2. b.seq \in Nat
    BY <2>1, BoardHasSeq DEF IsNext
  <2> QED BY <2>1, <2>2, GoingIsNext DEF IsNext
<1>2. /\ J \subseteq Events /\ {f.seq : f \in J} = 1..b.seq
      /\ \A f, g \in J : f.seq = g.seq => f = g
      /\ ReplayedCells(J) = b.cells
  BY <1>1 DEF Faithful, LoggedSeqs
<1>3. \A f \in J : f.seq \in 1..b.seq
  BY <1>2
<1>4. \A f \in J : f.seq <= b.seq /\ f.seq # e.seq
  BY <1>1, <1>3
<1>5. ReplayedCells(J \cup {e}) = d.cells
  <2> DEFINE n == b.seq
  <2>1. n \in Nat /\ e.seq = n + 1 /\ \A f \in J : f.seq <= n
    BY <1>1, <1>4
  <2> HIDE DEF n
  <2>2. ReplayedCells(J \cup {e}) =
          IF e.type = "cellSet" THEN [ReplayedCells(J) EXCEPT ![e.cell] = e.value]
          ELSE ReplayedCells(J)
    BY <1>1, <1>2, <2>1, ReplayOneMore
  <2> QED BY <1>1, <1>2, <2>2
<1>6. \A f, g \in J \cup {e} : f.seq = g.seq => f = g
  BY <1>2, <1>4
<1>7. {f.seq : f \in J \cup {e}} = {f.seq : f \in J} \cup {e.seq}
  OBVIOUS
<1>8. 1..b.seq \cup {e.seq} = 1..d.seq
  BY <1>1
<1>9. {f.seq : f \in J \cup {e}} = LoggedSeqs(d)
  BY <1>1, <1>2, <1>7, <1>8 DEF LoggedSeqs
<1> QED BY <1>1, <1>2, <1>5, <1>6, <1>9 DEF Faithful

-----------------------------------------------------------------------------
(* What the actor buffers of a command's events.                           *)

\* The steps from b to d, none of them the end, with events q.
Chain(b, q, d) ==
    \/ q = <<>> /\ d = b
    \/ \E e : q = <<e>> /\ Going(b, e, d)
    \/ \E e, x, f : q = <<e, f>> /\ Going(b, e, x) /\ Going(x, f, d) /\ ~ HasId(f)
    \/ \E e, x, f, y, g : /\ q = <<e, f, g>> /\ Going(b, e, x) /\ Going(x, f, y)
                          /\ Going(y, g, d) /\ ~ HasId(f) /\ ~ HasId(g)

LEMMA BufferedNone == Buffered(<<>>) = <<>>
BY DEF Buffered

LEMMA BufferedOne ==
    ASSUME NEW e \in Events, ~ IsTerminalEvent(e)
    PROVE  Buffered(<<e>>) = <<e>> /\ <<e>> \in Seq(Events)
BY DEF Buffered

LEMMA BufferedTwo ==
    ASSUME NEW e \in Events, NEW f \in Events
    PROVE  /\ Buffered(<<e, f>>) = IF IsTerminalEvent(f) THEN <<e>> ELSE <<e, f>>
           /\ <<e, f>> \in Seq(Events)
<1> DEFINE s == <<e, f>>
           t == SubSeq(s, 1, 1)
<1>1. s \in Seq(Events) /\ Len(s) = 2 /\ s[1] = e /\ s[2] = f /\ s # <<>>
  OBVIOUS
<1>2. t \in Seq(Events) /\ Len(t) = 1 /\ t[1] = e
  BY <1>1
<1> HIDE DEF t
<1>3. t = <<e>>
  BY <1>2
<1> HIDE DEF s
<1>4. 2 - 1 = 1
  OBVIOUS
<1>5. Buffered(s) = IF IsTerminalEvent(f) THEN t ELSE s
  BY <1>1, <1>4 DEF Buffered, t
<1> QED BY <1>1, <1>3, <1>5 DEF s

LEMMA BufferedThree ==
    ASSUME NEW e \in Events, NEW f \in Events, NEW g \in Events
    PROVE  /\ Buffered(<<e, f, g>>) = IF IsTerminalEvent(g) THEN <<e, f>> ELSE <<e, f, g>>
           /\ <<e, f, g>> \in Seq(Events)
<1> DEFINE s == <<e, f, g>>
           t == SubSeq(s, 1, 2)
<1>1. s \in Seq(Events) /\ Len(s) = 3 /\ s[1] = e /\ s[2] = f /\ s[3] = g /\ s # <<>>
  OBVIOUS
<1>2. t \in Seq(Events) /\ Len(t) = 2 /\ t[1] = e /\ t[2] = f
  BY <1>1
<1> HIDE DEF t
<1>3. t = <<e, f>>
  BY <1>2, TwoOrThree
<1> HIDE DEF s
<1>4. 3 - 1 = 2
  OBVIOUS
<1>5. Buffered(s) = IF IsTerminalEvent(g) THEN t ELSE s
  BY <1>1, <1>4 DEF Buffered, t
<1> QED BY <1>1, <1>3, <1>5 DEF s

LEMMA OneThenMore ==
    ASSUME NEW e \in Events, NEW f \in Events
    PROVE  /\ <<e>> \o <<f>> = <<e, f>>
           /\ \A g \in Events : <<e>> \o <<f, g>> = <<e, f, g>>
<1>1. <<e>> \o <<f>> = <<e, f>>
  BY EventsInARow
<1>2. ASSUME NEW g \in Events PROVE <<e>> \o <<f, g>> = <<e, f, g>>
  BY EventsInARow
<1> QED BY <1>1, <1>2

\* A vote that closes, and the check it passed, buffer all their events.
LEMMA ClosePathIsChain ==
    ASSUME NEW b, NEW es, NEW d, ClosePath(b, es, d)
    PROVE  /\ es \in Seq(Events) /\ Buffered(es) = es
           /\ \/ \E e : es = <<e>> /\ Going(b, e, d) /\ ~ HasId(e)
              \/ \E e, x, f : /\ es = <<e, f>> /\ Going(b, e, x) /\ Going(x, f, d)
                              /\ ~ HasId(e) /\ ~ HasId(f)
<1>1. CASE \E e : es = <<e>> /\ CloseStep(b, e, d)
  <2>1. PICK e : es = <<e>> /\ CloseStep(b, e, d)
    BY <1>1
  <2>2. Going(b, e, d) /\ ~ HasId(e) /\ e \in Events
    BY <2>1 DEF Going, CloseStep, HasId, IsNext
  <2>3. ~ IsTerminalEvent(e)
    BY <2>2, GoingIsNext
  <2>4. <<e>> \in Seq(Events) /\ Buffered(<<e>>) = <<e>>
    BY <2>2, <2>3, BufferedOne
  <2> QED BY <2>1, <2>2, <2>4
<1>2. CASE \E e, m, f : es = <<e, f>> /\ PassSteps(b, e, m, f, d)
  <2>1. PICK e, m, f : es = <<e, f>> /\ PassSteps(b, e, m, f, d)
    BY <1>2
  <2>2. /\ Going(b, e, m) /\ ~ HasId(e) /\ e \in Events
        /\ Going(m, f, d) /\ ~ HasId(f) /\ f \in Events
    BY <2>1 DEF PassSteps, Going, CloseStep, CheckStep, HasId, IsNext
  <2>3. ~ IsTerminalEvent(f)
    BY <2>2, GoingIsNext
  <2>4. <<e, f>> \in Seq(Events) /\ Buffered(<<e, f>>) = <<e, f>>
    BY <2>2, <2>3, BufferedTwo
  <2> QED BY <2>1, <2>2, <2>4
<1> QED BY <1>1, <1>2 DEF ClosePath

\* What is buffered of a command leads to the board it left, or to the one its
\* end came to.
LEMMA PathIsChain ==
    ASSUME NEW b, NEW es, NEW d, Path(b, es, d)
    PROVE  \E m : Chain(b, Buffered(es), m) /\ (d = m \/ \E e : EndStep(m, e, d))
<1>1. ASSUME NEW c, NEW e, NEW x, ActStep(c, e, x)
      PROVE  Going(c, e, x) /\ e \in Events /\ ~ IsTerminalEvent(e)
  BY <1>1, GoingIsNext DEF Going, IsNext
<1>2. ASSUME NEW c, NEW e, NEW x, CloseStep(c, e, x)
      PROVE  Going(c, e, x) /\ e \in Events /\ ~ IsTerminalEvent(e) /\ ~ HasId(e)
  BY <1>2, GoingIsNext DEF Going, CloseStep, IsNext, HasId
<1>3. ASSUME NEW c, NEW e, NEW x, EndStep(c, e, x)
      PROVE  e \in Events /\ IsTerminalEvent(e)
  BY <1>3 DEF EndStep, IsNext, IsTerminalEvent
<1>4. CASE es = <<>> /\ d = b
  <2>1. Buffered(es) = <<>>
    BY <1>4, BufferedNone
  <2> QED BY <1>4, <2>1 DEF Chain
<1>5. CASE ClosePath(b, es, d)
  <2>1. /\ Buffered(es) = es
        /\ \/ \E e : es = <<e>> /\ Going(b, e, d) /\ ~ HasId(e)
           \/ \E e, x, f : /\ es = <<e, f>> /\ Going(b, e, x) /\ Going(x, f, d)
                           /\ ~ HasId(e) /\ ~ HasId(f)
    BY <1>5, ClosePathIsChain
  <2>2. Chain(b, es, d)
    BY <2>1 DEF Chain
  <2> QED BY <2>1, <2>2
<1>6. CASE \E e : es = <<e>> /\ ActStep(b, e, d)
  <2>1. PICK e : es = <<e>> /\ ActStep(b, e, d)
    BY <1>6
  <2>2. Going(b, e, d) /\ Buffered(es) = <<e>>
    BY <1>1, <2>1, BufferedOne
  <2> QED BY <2>2 DEF Chain
<1>7. CASE \E e, m, ys : es = <<e>> \o ys /\ ActStep(b, e, m) /\ ClosePath(m, ys, d)
  <2>1. PICK e, m, ys : es = <<e>> \o ys /\ ActStep(b, e, m) /\ ClosePath(m, ys, d)
    BY <1>7
  <2>2. Going(b, e, m) /\ e \in Events
    BY <1>1, <2>1
  <2>3. CASE \E f : ys = <<f>> /\ Going(m, f, d) /\ ~ HasId(f)
    <3>1. PICK f : ys = <<f>> /\ Going(m, f, d) /\ ~ HasId(f)
      BY <2>3
    <3>2. f \in Events /\ ~ IsTerminalEvent(f)
      BY <3>1, GoingIsNext DEF IsNext
    <3>3. es = <<e, f>> /\ Buffered(<<e, f>>) = <<e, f>>
      BY <2>1, <2>2, <3>1, <3>2, OneThenMore, BufferedTwo
    <3> QED BY <2>2, <3>1, <3>3 DEF Chain
  <2>4. CASE \E f, x, g : /\ ys = <<f, g>> /\ Going(m, f, x) /\ Going(x, g, d)
                          /\ ~ HasId(f) /\ ~ HasId(g)
    <3>1. PICK f, x, g : /\ ys = <<f, g>> /\ Going(m, f, x) /\ Going(x, g, d)
                         /\ ~ HasId(f) /\ ~ HasId(g)
      BY <2>4
    <3>2. f \in Events /\ g \in Events /\ ~ IsTerminalEvent(g)
      BY <3>1, GoingIsNext DEF IsNext
    <3>3. es = <<e, f, g>> /\ Buffered(<<e, f, g>>) = <<e, f, g>>
      BY <2>1, <2>2, <3>1, <3>2, OneThenMore, BufferedThree
    <3> QED BY <2>2, <3>1, <3>3 DEF Chain
  <2> QED BY <2>1, <2>3, <2>4, ClosePathIsChain
<1>8. CASE \E e, m, f : es = <<e, f>> /\ ActStep(b, e, m) /\ EndStep(m, f, d)
  <2>1. PICK e, m, f : es = <<e, f>> /\ ActStep(b, e, m) /\ EndStep(m, f, d)
    BY <1>8
  <2>2. Going(b, e, m) /\ Buffered(es) = <<e>>
    BY <1>1, <1>3, <2>1, BufferedTwo
  <2> QED BY <2>1, <2>2 DEF Chain
<1>9. CASE \E e, m, f, n, g : /\ es = <<e, f, g>> /\ ActStep(b, e, m)
                              /\ CloseStep(m, f, n) /\ EndStep(n, g, d)
  <2>1. PICK e, m, f, n, g : /\ es = <<e, f, g>> /\ ActStep(b, e, m)
                             /\ CloseStep(m, f, n) /\ EndStep(n, g, d)
    BY <1>9
  <2>2. /\ Going(b, e, m) /\ Going(m, f, n) /\ ~ HasId(f)
        /\ e \in Events /\ f \in Events /\ g \in Events /\ IsTerminalEvent(g)
    BY <1>1, <1>2, <1>3, <2>1
  <2>3. Buffered(es) = <<e, f>>
    BY <2>1, <2>2, BufferedThree
  <2> QED BY <2>1, <2>2, <2>3 DEF Chain
<1> QED BY <1>4, <1>5, <1>6, <1>7, <1>8, <1>9 DEF Path

LEMMA RangeOfOne ==
    ASSUME NEW e PROVE Range(<<e>>) = {e}
BY DEF Range

LEMMA RangeOfTwo ==
    ASSUME NEW e, NEW f PROVE Range(<<e, f>>) = {e, f}
<1> DEFINE s == <<e, f>>
<1>1. DOMAIN s = {1, 2} /\ s[1] = e /\ s[2] = f
  OBVIOUS
<1> HIDE DEF s
<1>2. Range(s) = {e, f}
  BY <1>1 DEF Range
<1> QED BY <1>2 DEF s

LEMMA RangeOfThree ==
    ASSUME NEW e, NEW f, NEW g PROVE Range(<<e, f, g>>) = {e, f, g}
<1> DEFINE s == <<e, f, g>>
<1>1. DOMAIN s = {1, 2, 3} /\ s[1] = e /\ s[2] = f /\ s[3] = g
  OBVIOUS
<1> HIDE DEF s
<1>2. Range(s) = {e, f, g}
  BY <1>1 DEF Range
<1> QED BY <1>2 DEF s

LEMMA RangeOfConcat ==
    ASSUME NEW S, NEW p \in Seq(S), NEW q \in Seq(S)
    PROVE  p \o q \in Seq(S) /\ Range(p \o q) = Range(p) \cup Range(q)
           /\ Len(p \o q) = Len(p) + Len(q)
<1> DEFINE s == p \o q
<1>1. /\ s \in Seq(S) /\ Len(s) = Len(p) + Len(q) /\ Len(p) \in Nat /\ Len(q) \in Nat
      /\ \A i \in 1..Len(p) : s[i] = p[i]
      /\ \A i \in 1..Len(q) : s[Len(p) + i] = q[i]
  OBVIOUS
<1>2. \A i \in 1..Len(s) : i \in 1..Len(p) \/ (i - Len(p) \in 1..Len(q) /\ i = Len(p) + (i - Len(p)))
  BY <1>1
<1>3. \A i \in 1..Len(q) : Len(p) + i \in 1..Len(s)
  BY <1>1
<1>4. \A i \in 1..Len(p) : i \in 1..Len(s)
  BY <1>1
<1>5. DOMAIN s = 1..Len(s) /\ DOMAIN p = 1..Len(p) /\ DOMAIN q = 1..Len(q)
  BY <1>1
<1> HIDE DEF s
<1>6. ASSUME NEW x \in Range(s) PROVE x \in Range(p) \cup Range(q)
  <2>1. PICK i \in 1..Len(s) : x = s[i]
    BY <1>5 DEF Range
  <2> QED BY <1>1, <1>2, <1>5, <2>1 DEF Range
<1>7. Range(p) \subseteq Range(s)
  BY <1>1, <1>4, <1>5 DEF Range
<1>8. Range(q) \subseteq Range(s)
  BY <1>1, <1>3, <1>5 DEF Range
<1>9. s \in Seq(S) /\ Range(s) = Range(p) \cup Range(q) /\ Len(s) = Len(p) + Len(q)
  BY <1>1, <1>6, <1>7, <1>8
<1> QED BY <1>9 DEF s

\* The events q take b, whose journal is J, to d.
Extends(b, J, q, d) ==
    /\ q \in Seq(Events) /\ Len(q) <= 3 /\ Faithful(d, J \cup Range(q))
    /\ d.seq = b.seq + Len(q) /\ d \in Boards /\ d.status = b.status
    /\ q # <<>> => b.status = "ongoing" /\ q[1].seq = b.seq + 1
    /\ \A e \in IdsOf(Range(q)) : e = q[1]

\* A chain extends the journal event by event.
LEMMA ChainExtends ==
    ASSUME NEW b, NEW J, Faithful(b, J), NEW q, NEW d, Chain(b, q, d), b \in Boards
    PROVE  Extends(b, J, q, d)
<1>1. ASSUME NEW c, NEW e, NEW x, Going(c, e, x)
      PROVE  /\ e \in Events /\ c \in Boards /\ x \in Boards /\ x.seq = c.seq + 1
             /\ c.status = "ongoing" /\ x.status = "ongoing" /\ c.seq \in Nat
             /\ e.seq = c.seq + 1
  <2>1. IsNext(c, e, x) /\ x.status = "ongoing"
    BY <1>1, GoingIsNext
  <2> QED BY <2>1, BoardHasSeq DEF IsNext
<1>2. CASE q = <<>> /\ d = b
  <2>1. q \in Seq(Events) /\ Len(q) = 0 /\ Range(q) = {} /\ J \cup {} = J
    BY <1>2 DEF Range
  <2>2. b.seq + 0 = b.seq /\ 0 <= 3
    BY BoardHasSeq
  <2>3. Faithful(d, J \cup Range(q))
    BY <1>2, <2>1
  <2>4. IdsOf(Range(q)) = {}
    BY <2>1 DEF IdsOf
  <2> QED BY <1>2, <2>1, <2>2, <2>3, <2>4 DEF Extends
<1>3. CASE \E e : q = <<e>> /\ Going(b, e, d)
  <2>1. PICK e : q = <<e>> /\ Going(b, e, d)
    BY <1>3
  <2>2. e \in Events /\ Range(q) = {e} /\ q \in Seq(Events) /\ Len(q) = 1
    BY <1>1, <2>1, RangeOfOne
  <2>3. Faithful(d, J \cup Range(q))
    BY <2>1, <2>2, FaithfulStep
  <2> QED BY <1>1, <2>1, <2>2, <2>3 DEF IdsOf, Extends
<1>4. CASE \E e, x, f : q = <<e, f>> /\ Going(b, e, x) /\ Going(x, f, d) /\ ~ HasId(f)
  <2>1. PICK e, x, f : q = <<e, f>> /\ Going(b, e, x) /\ Going(x, f, d) /\ ~ HasId(f)
    BY <1>4
  <2>2. /\ e \in Events /\ f \in Events
        /\ d.seq = b.seq + 2
    BY <1>1, <2>1
  <2>2a. /\ Range(q) = {e, f} /\ q \in Seq(Events) /\ Len(q) = 2
         /\ q[1] = e /\ e.seq = b.seq + 1
    BY <1>1, <2>1, <2>2, RangeOfTwo
  <2>3. Faithful(d, (J \cup {e}) \cup {f})
    BY <2>1, FaithfulStep
  <2>4. (J \cup {e}) \cup {f} = J \cup Range(q)
    BY <2>2a
  <2>5. \A y \in IdsOf(Range(q)) : y = q[1]
    BY <2>1, <2>2a DEF IdsOf, HasId
  <2>6. b.status = "ongoing" /\ d.status = "ongoing" /\ d \in Boards
    BY <1>1, <2>1
  <2>7. Len(q) <= 3 /\ d.seq = b.seq + Len(q)
    BY <2>2, <2>2a
  <2> QED BY <2>2a, <2>3, <2>4, <2>5, <2>6, <2>7 DEF Extends
<1>5. CASE \E e, x, f, y, g : /\ q = <<e, f, g>> /\ Going(b, e, x) /\ Going(x, f, y)
                              /\ Going(y, g, d) /\ ~ HasId(f) /\ ~ HasId(g)
  <2>1. PICK e, x, f, y, g : /\ q = <<e, f, g>> /\ Going(b, e, x) /\ Going(x, f, y)
                             /\ Going(y, g, d) /\ ~ HasId(f) /\ ~ HasId(g)
    BY <1>5
  <2>2. /\ e \in Events /\ f \in Events /\ g \in Events
        /\ d.seq = b.seq + 3
    BY <1>1, <2>1
  <2>2a. /\ Range(q) = {e, f, g} /\ q \in Seq(Events) /\ Len(q) = 3
         /\ q[1] = e /\ e.seq = b.seq + 1
    BY <1>1, <2>1, <2>2, RangeOfThree
  <2>3. Faithful(d, ((J \cup {e}) \cup {f}) \cup {g})
    BY <2>1, FaithfulStep
  <2>4. ((J \cup {e}) \cup {f}) \cup {g} = J \cup Range(q)
    BY <2>2a
  <2>5. \A z \in IdsOf(Range(q)) : z = q[1]
    BY <2>1, <2>2a DEF IdsOf, HasId
  <2>6. b.status = "ongoing" /\ d.status = "ongoing" /\ d \in Boards
    BY <1>1, <2>1
  <2>7. Len(q) <= 3 /\ d.seq = b.seq + Len(q)
    BY <2>2, <2>2a
  <2> QED BY <2>2a, <2>3, <2>4, <2>5, <2>6, <2>7 DEF Extends
<1> QED BY <1>2, <1>3, <1>4, <1>5 DEF Chain

-----------------------------------------------------------------------------
(* What the steps that move the board write.                               *)

\* From b, whose journal is J, the events q lead to d.
Writes(b, J, q, d) ==
    /\ q \in Seq(Events) /\ Len(q) <= 3 /\ b.status = "ongoing"
    /\ Faithful(d, J \cup Range(q)) /\ LastSeq(d) = LastSeq(b) + Len(q)

LEMMA PathWrites ==
    ASSUME NEW b \in Boards, b.status = "ongoing", NEW J, Faithful(b, J),
           NEW es, NEW d, Path(b, es, d)
    PROVE  /\ Writes(b, J, Buffered(es), d)
           /\ \A e \in IdsOf(Range(Buffered(es))) :
                 e = Buffered(es)[1] /\ e.seq = LastSeq(b) + 1
<1> DEFINE q == Buffered(es)
<1>1. PICK m : Chain(b, q, m) /\ (d = m \/ \E e : EndStep(m, e, d))
  BY PathIsChain
<1> HIDE DEF q
<1>2. /\ q \in Seq(Events) /\ Len(q) <= 3 /\ Faithful(m, J \cup Range(q))
      /\ m.seq = b.seq + Len(q) /\ m.status = "ongoing"
      /\ \A e \in IdsOf(Range(q)) : e = q[1] /\ e.seq = b.seq + 1
  <2>1. Chain(b, q, m)
    BY <1>1
  <2>2. Extends(b, J, q, m)
    BY <2>1, ChainExtends
  <2>3. \A e \in IdsOf(Range(q)) : q # <<>>
    BY DEF IdsOf, Range
  <2> QED BY <2>2, <2>3 DEF Extends
<1>3. Faithful(d, J \cup Range(q))
  BY <1>1, <1>2, FaithfulEnd
<1>4. LastSeq(d) = m.seq
  <2>1. CASE d = m
    BY <1>2, <2>1 DEF LastSeq
  <2>2. CASE \E e : EndStep(m, e, d)
    <3>1. d.seq = m.seq + 1 /\ d.status = "completed" /\ m \in Boards
      BY <2>2 DEF EndStep, IsNext
    <3> QED BY <3>1, BoardHasSeq DEF LastSeq
  <2> QED BY <1>1, <2>1, <2>2
<1>5. LastSeq(b) = b.seq
  BY DEF LastSeq
<1>6. Writes(b, J, q, d)
  BY <1>2, <1>3, <1>4, <1>5 DEF Writes
<1>7. \A e \in IdsOf(Range(q)) : e = q[1] /\ e.seq = LastSeq(b) + 1
  BY <1>2, <1>5
<1> QED BY <1>6, <1>7 DEF q

\* A sequence cut down to its places m to n.
LEMMA CutFromTo ==
    ASSUME NEW S, NEW s \in Seq(S), NEW m \in Nat \ {0}, NEW n \in Nat, m <= n, n <= Len(s)
    PROVE  /\ SubSeq(s, m, n) \in Seq(S) /\ Len(SubSeq(s, m, n)) = n - m + 1
           /\ \A i \in 1..n - m + 1 : SubSeq(s, m, n)[i] = s[m + i - 1]
<1>1. \A i \in m..n : s[i] \in S
  <2> SUFFICES ASSUME NEW i \in m..n PROVE s[i] \in S
    OBVIOUS
  <2>1. i \in 1..Len(s)
    OBVIOUS
  <2> QED BY <2>1
<1>2. m \in Int /\ n \in Int
  OBVIOUS
<1> QED BY <1>1, <1>2, SubSeqProperties

\* What a command itself tells is buffered.
LEMMA FirstIsBuffered ==
    ASSUME NEW es \in Seq(Events), es # <<>>, es[1].type \in Tellings
    PROVE  Buffered(es) # <<>> /\ Buffered(es)[1] = es[1]
<1>1. CASE Buffered(es) = es
  BY <1>1
<1>2. CASE Buffered(es) # es
  <2>1. Buffered(es) = SubSeq(es, 1, Len(es) - 1) /\ IsTerminalEvent(es[Len(es)])
    BY <1>2 DEF Buffered
  <2>1a. es[Len(es)] # es[1]
    BY <2>1 DEF IsTerminalEvent, Tellings
  <2>2. Len(es) # 1
    <3> DEFINE n == Len(es)
    <3>1. es[n] # es[1]
      BY <2>1a
    <3> HIDE DEF n
    <3>2. n # 1
      BY <3>1, Zenon
    <3> QED BY <3>2 DEF n
  <2>2a. Len(es) \in Nat \ {0}
    OBVIOUS
  <2>2b. Len(es) - 1 \in Nat \ {0} /\ Len(es) - 1 <= Len(es)
    <3>1. \A k \in Nat \ {0} : k # 1 => k - 1 \in Nat \ {0} /\ k - 1 <= k
      OBVIOUS
    <3> QED BY <2>2, <2>2a, <3>1
  <2>3. Len(SubSeq(es, 1, Len(es) - 1)) = Len(es) - 1 /\ SubSeq(es, 1, Len(es) - 1)[1] = es[1]
    <3>0. PICK n \in Nat \ {0} : n = Len(es) - 1
      BY <2>2b
    <3>1. 1 <= n /\ n <= Len(es) /\ n - 1 + 1 = n /\ 1 \in 1..n /\ 1 + 1 - 1 = 1
      BY <2>2b, <3>0
    <3>2. Len(SubSeq(es, 1, n)) = n /\ SubSeq(es, 1, n)[1] = es[1]
      BY <3>1, CutFromTo
    <3> QED BY <3>0, <3>2
  <2>4. Len(<<>>) = 0
    OBVIOUS
  <2>5. Len(Buffered(es)) = Len(es) - 1 /\ Buffered(es)[1] = es[1]
    BY <2>1, <2>3
  <2>6. Len(Buffered(es)) # 0
    BY <2>2b, <2>5
  <2> QED BY <2>4, <2>5, <2>6
<1> QED BY <1>1, <1>2

\* What RunCommand does with an accepted command.
Took(msg, q) ==
    /\ Writes(board, Journal, q, board') /\ pending' = pending \o q
    /\ msg.id \in CommandIds /\ msg.id \notin Range(recent)
    /\ recent' = LastOf(Append(recent, msg.id), RecentLimit)
    /\ q # <<>>
    /\ \A e \in IdsOf(Range(q)) : e.id = msg.id /\ e.seq = LastSeq(board) + 1
    /\ ReconcileVoteTimer(board') /\ told' = LastSeq(board')
    /\ \/ board'.status = "completed" /\ awaiting' = "terminal"
       \/ board'.status = "ongoing" /\ AfterMutationFlush(pending')

\* A command is dropped, or taken with the events it led to.
LEMMA CommandWrites ==
    ASSUME Sound, pending \in Seq(Events), Faithful(board, Journal), RunCommand
    PROVE  \/ Dropped /\ board' = board /\ pending' = pending /\ recent' = recent
              /\ left' = left /\ voteTimer' = voteTimer /\ told' = told /\ awaiting' = awaiting
           \/ \E q : Took(Head(mailbox).msg, q)
<1> DEFINE by == Head(mailbox).by
           msg == Head(mailbox).msg
           cmd == VoteCommand(by, msg)
           result == ApplyWithVote(board, cmd)
           es == result.events
           q == Buffered(es)
<1>1. Head(mailbox) \in Tasks /\ Head(mailbox).kind = "command"
  BY DequeueKeepsTasks DEF Sound, RunCommand, Dequeue
<1>2. cmd \in CellCommands \cup Proposals \cup Ballots /\ cmd \in Commands
  BY <1>1, CommandIsTyped DEF Sound, Commands
<1>3. msg.id \in CommandIds /\ cmd.id = msg.id
  <2>1. msg \in CellCommands \cup [type : {"checkPuzzle"}, id : CommandIds]
                    \cup [type : {"castCheckVote"}, id : CommandIds, voteSeq : Nat,
                          approve : BOOLEAN]
    BY <1>1 DEF Tasks
  <2>2. CASE msg \in CellCommands
    BY <2>2 DEF CellCommands, VoteCommand
  <2>3. CASE msg \in [type : {"checkPuzzle"}, id : CommandIds]
    BY <2>3 DEF VoteCommand
  <2>4. CASE msg \in [type : {"castCheckVote"}, id : CommandIds, voteSeq : Nat, approve : BOOLEAN]
    BY <2>4 DEF VoteCommand
  <2> QED BY <2>1, <2>2, <2>3, <2>4
<1> DEFINE taken ==
             /\ result.error = "none" /\ msg.id \notin Range(recent)
             /\ board' = result.state /\ pending' = pending \o q
             /\ recent' = LastOf(Append(recent, msg.id), RecentLimit)
             /\ ReconcileVoteTimer(result.state)
             /\ IF result.state.status = "completed"
                THEN awaiting' = "terminal" /\ told' = result.state.seq - 1
                ELSE AfterMutationFlush(pending \o q) /\ told' = result.state.seq
<1>4. Dropped \/ taken
  BY Zenon DEF RunCommand
<1> HIDE DEF cmd
<1>5. /\ es \in Seq(Events) /\ Path(board, es, result.state)
      /\ result.error = "none" => board.status = "ongoing"
      /\ result.state.status \in {board.status, "completed"}
  <2>1. GoodResult(board, result)
    BY <1>2, EngineKeepsGoodBoards DEF Sound
  <2>2. Path(board, es, result.state)
    BY <1>2, EngineTakesSteps DEF Sound
  <2>3. /\ result.error = "none" => board.status = "ongoing"
        /\ result.state.status \in {board.status, "completed"}
    BY <1>2, OverRejects, EngineOnlyCompletes DEF Sound
  <2> QED BY <2>1, <2>2, <2>3 DEF GoodResult
<1>6. /\ result.error = "none" => es # <<>>
      /\ es # <<>> => es[1].type \in Tellings /\ (HasId(es[1]) => es[1].id = msg.id)
  BY <1>2, <1>3, FirstCarriesId
<1> HIDE DEF result, msg
<1>7. CASE Dropped
  BY <1>7 DEF Dropped, memory
<1>8. CASE taken
  <2>1. board \in Boards /\ board.status = "ongoing"
    BY <1>5, <1>8 DEF Sound
  <2>2. /\ Writes(board, Journal, q, result.state)
        /\ \A e \in IdsOf(Range(q)) : e = q[1] /\ e.seq = LastSeq(board) + 1
    BY <1>5, <2>1, PathWrites
  <2>2a. es # <<>> /\ q # <<>> /\ q[1] = es[1]
    BY <1>5, <1>6, <1>8, FirstIsBuffered
  <2>3. ASSUME NEW e \in IdsOf(Range(q)) PROVE e.id = msg.id /\ e.seq = LastSeq(board) + 1
    <3>1. e = q[1] /\ HasId(e) /\ e.seq = LastSeq(board) + 1
      BY <2>2 DEF IdsOf, HasId
    <3> QED BY <1>6, <2>2a, <3>1
  <2> HIDE DEF es, q
  <2>4. /\ board' = result.state /\ pending' = pending \o q /\ ReconcileVoteTimer(board')
        /\ IF board'.status = "completed"
           THEN awaiting' = "terminal" /\ told' = board'.seq - 1
           ELSE AfterMutationFlush(pending') /\ told' = board'.seq
    <3>1. board' = result.state /\ pending' = pending \o q
      BY <1>8
    <3>2. ReconcileVoteTimer(board')
      BY <1>8, <3>1 DEF ReconcileVoteTimer
    <3>3. IF board'.status = "completed"
           THEN awaiting' = "terminal" /\ told' = board'.seq - 1
           ELSE AfterMutationFlush(pending') /\ told' = board'.seq
      BY <1>8, <3>1 DEF AfterMutationFlush
    <3> QED BY <3>1, <3>2, <3>3
  <2>5. told' = LastSeq(board')
        /\ \/ board'.status = "completed" /\ awaiting' = "terminal"
           \/ board'.status = "ongoing" /\ AfterMutationFlush(pending')
    BY <1>5, <2>1, <2>4 DEF LastSeq
  <2>6. Took(msg, q)
    BY <1>3, <1>8, <2>2, <2>2a, <2>3, <2>4, <2>5 DEF Took
  <2> QED BY <2>6 DEF msg
<1> QED BY <1>4, <1>7, <1>8

LEMMA NotEmpty ==
    ASSUME NEW q, Len(q) = 1 PROVE q # <<>>
<1>1. Len(<<>>) = 0
  OBVIOUS
<1> QED BY <1>1

\* q is the one event that closes the vote of b without a check, and d what it makes of b.
ClosesOnly(b, J, q, d) ==
    /\ Writes(b, J, q, d) /\ Len(q) = 1 /\ IdsOf(Range(q)) = {}
    /\ d.vote = NoVote /\ d.status = "ongoing" /\ d.seq = b.seq + 1

\* One close that ends in no check.
LEMMA CloseWrites ==
    ASSUME NEW b \in Boards, GoodBoard(b), b.vote # NoVote, NEW J, Faithful(b, J),
           NEW o \in Outcomes, o # "passed", NEW why \in Reasons, why # "REJECTED",
           NEW r, r = CloseFailed(b, b.vote, o, why)
    PROVE  ClosesOnly(b, J, r.events, r.state)
<1>1. b.status = "ongoing" /\ VoteIsUndecided(b)
  BY DEF GoodBoard, VoteOnFullGrid
<1>2. PICK e : r.events = <<e>> /\ CloseStep(b, e, r.state)
  BY <1>1, UndecidedClose
<1> DEFINE q == r.events
           d == r.state
<1> HIDE DEF q, d
<1>3. /\ q = <<e>> /\ Going(b, e, d) /\ ~ HasId(e) /\ e \in Events
      /\ d.vote = NoVote /\ d.status = "ongoing"
  <2>1. CloseStep(b, e, d) /\ q = <<e>>
    BY <1>2 DEF q, d
  <2>2. Going(b, e, d)
    BY <2>1 DEF Going
  <2> QED BY <1>1, <2>1, <2>2 DEF CloseStep, HasId, IsNext
<1>4. q \in Seq(Events) /\ Len(q) = 1 /\ Range(q) = {e}
  BY <1>3, RangeOfOne
<1>5. Len(q) <= 3 /\ Faithful(d, J \cup Range(q)) /\ d.seq = b.seq + 1
  <2>1. IsNext(b, e, d)
    BY <1>3, GoingIsNext
  <2>2. Faithful(d, J \cup {e})
    BY <1>3, FaithfulStep
  <2> QED BY <1>4, <2>1, <2>2 DEF IsNext
<1>6. IdsOf(Range(q)) = {}
  BY <1>3, <1>4 DEF IdsOf, HasId
<1>7. LastSeq(d) = LastSeq(b) + Len(q)
  BY <1>1, <1>3, <1>4, <1>5 DEF LastSeq
<1>8. Writes(b, J, q, d)
  BY <1>1, <1>4, <1>5, <1>7 DEF Writes
<1> QED BY <1>3, <1>4, <1>5, <1>6, <1>8 DEF ClosesOnly, q, d

LEMMA ExpiryWrites ==
    ASSUME Sound, pending \in Seq(Events), Faithful(board, Journal), RunExpiry
    PROVE  /\ board'.vote = NoVote
           /\ \/ /\ board' = board /\ pending' = pending /\ told' = told
                 /\ awaiting' = awaiting
              \/ \E q : /\ Writes(board, Journal, q, board') /\ pending' = pending \o q
                        /\ Len(q) = 1 /\ IdsOf(Range(q)) = {} /\ told' = LastSeq(board')
                        /\ board'.status = "ongoing" /\ AfterMutationFlush(pending')
<1> DEFINE result == ExpireVote(board)
<1>1. /\ board' = result.state /\ pending' = pending \o result.events
      /\ told' = IF result.events = <<>> THEN told ELSE result.state.seq
      /\ IF result.events = <<>> THEN awaiting' = awaiting
         ELSE AfterMutationFlush(pending \o result.events)
  BY DEF RunExpiry, ApplyWithVote, Expiry
<1>2. CASE board.vote = NoVote
  <2>1. result.state = board /\ result.events = <<>> /\ pending \o <<>> = pending
    BY <1>2 DEF ExpireVote, Accept
  <2> HIDE DEF result
  <2> QED BY <1>1, <1>2, <2>1
<1>3. CASE board.vote # NoVote
  <2> DEFINE o == "failed"
             why == "EXPIRED"
             q == result.events
  <2>1. o \in Outcomes /\ o # "passed" /\ why \in Reasons /\ why # "REJECTED"
    BY DEF Outcomes, Reasons
  <2>2. result = CloseFailed(board, board.vote, o, why)
    BY <1>3 DEF ExpireVote
  <2> HIDE DEF o, why, result
  <2>3. /\ Writes(board, Journal, q, result.state) /\ Len(q) = 1
        /\ IdsOf(Range(q)) = {} /\ result.state.vote = NoVote
        /\ result.state.status = "ongoing"
    <3>1. board \in Boards /\ GoodBoard(board)
      BY DEF Sound
    <3>2. ClosesOnly(board, Journal, q, result.state)
      BY <1>3, <2>1, <2>2, <3>1, CloseWrites
    <3> QED BY <3>2 DEF ClosesOnly
  <2> HIDE DEF q
  <2>4. q # <<>>
    <3>1. q \in Seq(Events) /\ Len(q) = 1
      BY <2>3 DEF Writes, q
    <3> QED BY <3>1, NotEmpty
  <2>5. told' = LastSeq(board') /\ AfterMutationFlush(pending')
    BY <1>1, <2>3, <2>4 DEF LastSeq, AfterMutationFlush, q
  <2> QED BY <1>1, <2>3, <2>5 DEF q
<1> QED BY <1>2, <1>3

LEMMA AbandonWrites ==
    ASSUME Sound, pending \in Seq(Events), Faithful(board, Journal), RunAbandon
    PROVE  \/ /\ board' = board /\ pending' = pending /\ told' = told
              /\ awaiting' = awaiting /\ board.status # "ongoing"
              /\ left' = left /\ voteTimer' = voteTimer
           \/ \E q : /\ Writes(board, Journal, q, board') /\ pending' = pending \o q
                     /\ Len(q) <= 1 /\ IdsOf(Range(q)) = {} /\ told' = LastSeq(board')
                     /\ board'.status = "abandoned" /\ board'.vote = NoVote
                     /\ awaiting' = "abandon" /\ left' \in {left, NoTime}
<1> DEFINE closed == IF board.vote = NoVote THEN Accept(board, <<>>)
                     ELSE CloseFailed(board, board.vote, "cancelled", "TERMINAL")
           q == closed.events
           m == closed.state
<1>1. CASE AlreadyOver
  BY <1>1 DEF RunAbandon, AlreadyOver, memory
<1>2. CASE ~ AlreadyOver
  <2>1. /\ board' = [m EXCEPT !.status = "abandoned", !.seq = @ + 1]
        /\ pending' = pending \o q /\ told' = m.seq
        /\ awaiting' = "abandon" /\ left' \in {left, NoTime}
    BY <1>2 DEF RunAbandon
  <2>2. board.status = "ongoing" /\ board \in Boards /\ GoodBoard(board)
    BY <1>2 DEF AlreadyOver, Sound
  <2>3. /\ Writes(board, Journal, q, m) /\ Len(q) <= 1 /\ IdsOf(Range(q)) = {}
        /\ m.vote = NoVote /\ m.status = "ongoing" /\ m \in Boards
    <3>1. CASE board.vote = NoVote
      <4>1. m = board /\ q = <<>>
        BY <3>1 DEF Accept
      <4> HIDE DEF m, q
      <4>2. Range(q) = {} /\ Len(q) = 0 /\ q \in Seq(Events)
        BY <4>1 DEF Range
      <4>3. LastSeq(m) = LastSeq(board) + Len(q)
        BY <2>2, <4>1, <4>2, BoardHasSeq DEF LastSeq
      <4>4. Journal \cup Range(q) = Journal /\ IdsOf(Range(q)) = {} /\ Len(q) <= 3 /\ Len(q) <= 1
        BY <4>2 DEF IdsOf
      <4> QED BY <2>2, <3>1, <4>1, <4>2, <4>3, <4>4 DEF Writes
    <3>2. CASE board.vote # NoVote
      <4> DEFINE o == "cancelled"
                 why == "TERMINAL"
      <4>1. o \in Outcomes /\ o # "passed" /\ why \in Reasons /\ why # "REJECTED"
        BY DEF Outcomes, Reasons
      <4>2. closed = CloseFailed(board, board.vote, o, why)
        BY <3>2
      <4> HIDE DEF o, why, closed
      <4>3. /\ Writes(board, Journal, q, m) /\ Len(q) = 1 /\ IdsOf(Range(q)) = {}
            /\ m.vote = NoVote /\ m.status = "ongoing"
        <5>1. ClosesOnly(board, Journal, q, m)
          BY <2>2, <3>2, <4>1, <4>2, CloseWrites DEF q, m
        <5> QED BY <5>1 DEF ClosesOnly
      <4>4. board.vote \in Votes
        BY <2>2, <3>2 DEF Boards, MaybeVotes
      <4>5. m \in Boards
        BY <2>2, <4>1, <4>2, <4>4, CloseFailedShape
      <4> QED BY <4>3, <4>5
    <3> QED BY <3>1, <3>2
  <2> HIDE DEF closed, q, m
  <2>4. /\ board'.status = "abandoned" /\ board'.vote = NoVote /\ board'.seq = m.seq + 1
        /\ board'.cells = m.cells /\ m.seq \in Nat
    BY <2>1, <2>3 DEF Boards
  <2>5. LastSeq(board') = m.seq /\ LastSeq(m) = m.seq /\ LoggedSeqs(board') = LoggedSeqs(m)
    BY <2>3, <2>4 DEF LastSeq, LoggedSeqs
  <2>6. Writes(board, Journal, q, board')
    BY <2>3, <2>4, <2>5, FaithfulReads DEF Writes
  <2> QED BY <2>1, <2>3, <2>4, <2>5, <2>6
<1> QED BY <1>1, <1>2

LEMMA HydrateWrites ==
    ASSUME Sound, Faithful(db.board, dbLog), Hydrate
    PROVE  \/ /\ board' = db.board /\ pending' = <<>> /\ left' = db.left
              /\ mailbox' = <<>> /\ told' = db.board.seq
              /\ db.board.vote # NoVote => voteTimer' /\ db.left \notin {NoTime, 0}
           \/ /\ Writes(db.board, dbLog, pending', board') /\ Len(pending') = 1
              /\ IdsOf(Range(pending')) = {} /\ board'.vote = NoVote
              /\ board'.status = "ongoing" /\ left' = NoTime
              /\ mailbox' = << FlushTask >> /\ told' = LastSeq(board')
<1> DEFINE stored == Recounted(db.board)
           expired == stored.vote # NoVote /\ db.left \in {NoTime, 0}
           result == IF expired THEN ExpireVote(stored) ELSE Accept(stored, <<>>)
<1>1. stored = db.board /\ stored \in Boards /\ GoodBoard(stored)
  BY RecountIsExact DEF Sound, GoodRow
<1>2. /\ board' = result.state /\ pending' = result.events
      /\ left' = IF expired THEN NoTime ELSE db.left
      /\ voteTimer' = (stored.vote # NoVote /\ ~ expired)
      /\ mailbox' = IF expired THEN << FlushTask >> ELSE <<>>
      /\ told' = result.state.seq
  BY DEF Hydrate
<1> HIDE DEF stored
<1>3. CASE ~ expired
  BY <1>1, <1>2, <1>3 DEF Accept
<1>4. CASE expired
  <2> DEFINE o == "failed"
             why == "EXPIRED"
  <2>1. o \in Outcomes /\ o # "passed" /\ why \in Reasons /\ why # "REJECTED"
    BY DEF Outcomes, Reasons
  <2>2. result = CloseFailed(stored, stored.vote, o, why)
    BY <1>4 DEF ExpireVote
  <2>3. stored.vote # NoVote
    BY <1>4
  <2> HIDE DEF o, why, result
  <2>4. /\ Writes(stored, dbLog, result.events, result.state) /\ Len(result.events) = 1
        /\ IdsOf(Range(result.events)) = {} /\ result.state.vote = NoVote
        /\ result.state.status = "ongoing"
    <3>1. ClosesOnly(stored, dbLog, result.events, result.state)
      BY <1>1, <2>1, <2>2, <2>3, CloseWrites
    <3> QED BY <3>1 DEF ClosesOnly
  <2> QED BY <1>1, <1>2, <1>4, <2>4 DEF LastSeq
<1> QED BY <1>3, <1>4

-----------------------------------------------------------------------------
(* The row and the log are one pair.                                       *)

\* The log holds what the row has consumed, and with the buffer what the live
\* board has; a committed flush has logged the whole buffer.
Journaled ==
    /\ Faithful(db.board, dbLog)
    /\ alive => pending \in Seq(Events) /\ Faithful(board, Journal)
    /\ committed => Range(pending) \subseteq dbLog /\ db.board.seq = board.seq

LEMMA EmptyIsFaithful == Faithful(EmptyBoard, {})
<1>1. LoggedSeqs(EmptyBoard) = {}
  BY DEF LoggedSeqs, EmptyBoard
<1>2. ReplayedCells({}) = EmptyBoard.cells
  BY DEF ReplayedCells, EmptyBoard
<1> QED BY <1>1, <1>2 DEF Faithful

LEMMA InitJournaled == Init => Journaled
<1> SUFFICES ASSUME Init PROVE Journaled
  OBVIOUS
<1>1. pending = <<>> /\ dbLog = {} /\ board = EmptyBoard /\ db.board = EmptyBoard /\ ~ committed
  BY DEF Init
<1>2. Journal = {} /\ pending \in Seq(Events)
  BY <1>1 DEF Journal, Range
<1> QED BY <1>1, <1>2, EmptyIsFaithful DEF Journaled

LEMMA JournaledKept ==
    ASSUME Journaled, db'.board = db.board,
           UNCHANGED <<alive, board, pending, dbLog, committed>>
    PROVE  Journaled'
BY DEF Journaled, Journal

\* A task of the mailbox extends the buffer as it moves the board.
LEMMA JournaledAfterTask ==
    ASSUME Journaled, alive, ~ committed, UNCHANGED <<alive, db, dbLog, committed>>,
           \/ board' = board /\ pending' = pending
           \/ \E q : Writes(board, Journal, q, board') /\ pending' = pending \o q
    PROVE  Journaled'
<1>1. CASE board' = board /\ pending' = pending
  BY <1>1, JournaledKept
<1>2. CASE \E q : Writes(board, Journal, q, board') /\ pending' = pending \o q
  <2>1. PICK q : Writes(board, Journal, q, board') /\ pending' = pending \o q
    BY <1>2
  <2>2. /\ pending \in Seq(Events) /\ q \in Seq(Events)
        /\ Faithful(board', Journal \cup Range(q))
    BY <2>1 DEF Journaled, Writes
  <2>3. pending' \in Seq(Events) /\ Range(pending') = Range(pending) \cup Range(q)
    BY <2>1, <2>2, RangeOfConcat
  <2>4. Journal' = Journal \cup Range(q)
    BY <2>3 DEF Journal
  <2> QED BY <2>2, <2>3, <2>4 DEF Journaled
<1> QED BY <1>1, <1>2

\* What a commit logs is the journal, and the row it writes is the live board's.
LEMMA CommitLogsJournal ==
    ASSUME Sound, Journaled, DbCommits
    PROVE  /\ dbLog' = Journal /\ Journal' = Journal
           /\ db'.board.seq = board.seq /\ db'.board.status = board.status
           /\ db'.board.cells = board.cells
<1> DEFINE row == Snapshot(awaiting = "terminal" \/ stats)
<1>1. /\ alive /\ dbLog' = dbLog \cup {e \in Range(pending) : e.seq \notin Logged}
      /\ pending' = pending /\ board' = board /\ db' = row
  BY DEF DbCommits, memory
<1>2. \A e, f \in Journal : e.seq = f.seq => e = f
  BY <1>1 DEF Journaled, Faithful
<1>3. \A e \in Range(pending) : e.seq \in Logged => e \in dbLog
  BY <1>2 DEF Logged, Journal
<1>4. dbLog' = Journal
  BY <1>1, <1>3 DEF Journal
<1>5. Journal' = Journal
  BY <1>1, <1>4 DEF Journal
<1>6. row.board.seq = board.seq /\ row.board.status = board.status
  BY SnapshotIsGood DEF Sound
<1>7. row.board.cells = board.cells
  BY DEF Snapshot, Sound, Boards
<1> HIDE DEF row
<1> QED BY <1>1, <1>4, <1>5, <1>6, <1>7

LEMMA JournaledStep == ASSUME Sound, Ordered, Journaled, Next PROVE Journaled'
<1> USE DEF memory, durable, history, counters
<1>1. CASE Submit \/ Abandon \/ Drain
  BY <1>1, JournaledKept DEF Submit, Abandon, Drain
<1>2. CASE Tick
  <2>1. db'.board = db.board
    BY <1>2 DEF Tick, Sound, GoodRow
  <2> QED BY <1>2, <2>1, JournaledKept DEF Tick
<1>3. ASSUME NEW u \in Users, Connect(u) \/ Disconnect(u) PROVE Journaled'
  BY <1>3, JournaledKept DEF Connect, Disconnect
<1>4. CASE RunCommand
  <2>1. alive /\ ~ committed /\ UNCHANGED <<alive, db, dbLog, committed>>
    BY <1>4 DEF RunCommand, Dequeue, Ordered
  <2>2. \/ board' = board /\ pending' = pending
        \/ \E q : Writes(board, Journal, q, board') /\ pending' = pending \o q
    BY <1>4, <2>1, CommandWrites DEF Journaled, Took
  <2> QED BY <2>1, <2>2, JournaledAfterTask
<1>5. CASE RunFlush
  BY <1>5, JournaledKept DEF RunFlush
<1>6. CASE RunExpiry
  <2>1. alive /\ ~ committed /\ UNCHANGED <<alive, db, dbLog, committed>>
    BY <1>6 DEF RunExpiry, Dequeue, Ordered
  <2>2. \/ board' = board /\ pending' = pending
        \/ \E q : Writes(board, Journal, q, board') /\ pending' = pending \o q
    BY <1>6, <2>1, ExpiryWrites DEF Journaled
  <2> QED BY <2>1, <2>2, JournaledAfterTask
<1>7. CASE RunAbandon
  <2>1. alive /\ ~ committed /\ UNCHANGED <<alive, db, dbLog, committed>>
    BY <1>7 DEF RunAbandon, Dequeue, Ordered
  <2>2. \/ board' = board /\ pending' = pending
        \/ \E q : Writes(board, Journal, q, board') /\ pending' = pending \o q
    BY <1>7, <2>1, AbandonWrites DEF Journaled
  <2> QED BY <2>1, <2>2, JournaledAfterTask
<1>8. CASE FlushTimerFires \/ VoteTimerFires
  BY <1>8, JournaledKept DEF FlushTimerFires, VoteTimerFires
<1>9. CASE DbCommits
  <2>1. /\ dbLog' = Journal /\ Journal' = Journal
        /\ db'.board.seq = board.seq /\ db'.board.status = board.status
        /\ db'.board.cells = board.cells
    BY <1>9, CommitLogsJournal
  <2>2. alive /\ pending' = pending /\ board' = board
    BY <1>9 DEF DbCommits
  <2>3. Faithful(board, Journal) /\ pending \in Seq(Events)
    BY <2>2 DEF Journaled
  <2>4. LoggedSeqs(db'.board) = LoggedSeqs(board)
    BY <2>1 DEF LoggedSeqs
  <2>5. Faithful(db'.board, Journal)
    BY <2>1, <2>3, <2>4, FaithfulReads
  <2>6. Range(pending) \subseteq Journal
    BY DEF Journal
  <2> QED BY <2>1, <2>2, <2>3, <2>5, <2>6 DEF Journaled
<1>10. CASE FlushSucceeds
  <2>1. /\ alive /\ committed /\ pending' = <<>> /\ ~ committed'
        /\ UNCHANGED <<alive, board, db, dbLog>>
    BY <1>10 DEF FlushSucceeds
  <2>2. Journal' = dbLog /\ Journal = dbLog /\ pending' \in Seq(Events)
    BY <2>1 DEF Journal, Journaled, Range
  <2> QED BY <2>1, <2>2 DEF Journaled
<1>11. CASE FlushFails
  <2>1. ~ committed' /\ UNCHANGED <<alive, board, pending, db, dbLog>>
    BY <1>11 DEF FlushFails
  <2> QED BY <2>1 DEF Journaled, Journal
<1>12. CASE Crash
  BY <1>12 DEF Crash, Journaled
<1>13. CASE Hydrate
  <2>1. UNCHANGED <<db, dbLog, committed>> /\ ~ alive
    BY <1>13 DEF Hydrate
  <2>2. ~ committed
    BY <2>1 DEF Ordered
  <2>3. Faithful(db.board, dbLog)
    BY DEF Journaled
  <2>4. pending' \in Seq(Events) /\ Faithful(board', Journal')
    <3>1. CASE board' = db.board /\ pending' = <<>>
      <4>1. Journal' = dbLog
        BY <2>1, <3>1 DEF Journal, Range
      <4> QED BY <2>3, <3>1, <4>1
    <3>2. CASE Writes(db.board, dbLog, pending', board')
      <4>1. Journal' = dbLog \cup Range(pending')
        BY <2>1 DEF Journal
      <4> QED BY <3>2, <4>1 DEF Writes
    <3> QED BY <1>13, <2>3, <3>1, <3>2, HydrateWrites
  <2> QED BY <2>1, <2>2, <2>3, <2>4 DEF Journaled
<1> QED BY <1>1, <1>2, <1>3, <1>4, <1>5, <1>6, <1>7, <1>8, <1>9, <1>10, <1>11, <1>12, <1>13
        DEF Next, Environment, Actor, Failures

\* A journal has as many events as its board has seqs on the log.
LEMMA JournalSize ==
    ASSUME NEW b \in Boards, NEW J, Faithful(b, J)
    PROVE  IsFiniteSet(J) /\ Cardinality(J) = Cardinality(LoggedSeqs(b))
<1> DEFINE S == LoggedSeqs(b)
           f == [n \in S |-> CHOOSE e \in J : e.seq = n]
<1>1. {e.seq : e \in J} = S /\ \A e, g \in J : e.seq = g.seq => e = g
  BY DEF Faithful
<1>2. IsFiniteSet(S)
  <2>1. b.seq \in Int /\ b.seq - 1 \in Int
    BY BoardHasSeq
  <2>2. IsFiniteSet(1..b.seq)
    BY <2>1, 1 \in Int, FS_Interval
  <2>3. IsFiniteSet(1..b.seq - 1)
    BY <2>1, 1 \in Int, FS_Interval
  <2> QED BY <2>2, <2>3 DEF LoggedSeqs
<1> HIDE DEF S
<1>3. \A n \in S : f[n] \in J /\ f[n].seq = n
  BY <1>1
<1>4. \A e \in J : e.seq \in S /\ f[e.seq] = e
  BY <1>1
<1>5. f \in Bijection(S, J)
  <2>1. f \in Injection(S, J)
    BY <1>3 DEF Injection, IsInjective
  <2>2. f \in Surjection(S, J)
    BY <1>3, <1>4 DEF Surjection
  <2> QED BY <2>1, <2>2 DEF Bijection
<1>6. ExistsBijection(S, J)
  BY <1>5 DEF ExistsBijection
<1> QED BY <1>2, <1>6, FS_Bijection DEF S

-----------------------------------------------------------------------------
(* How far the row may be behind.                                          *)

\* The buffer spans what the row lacks, no socket was told of more, and the flush
\* policy bounds the buffer as long as no flush fails.
Tailed ==
    /\ told \in Nat
    /\ alive =>
         /\ LastSeq(board) <= LastSeq(db.board) + Len(pending)
         /\ told <= LastSeq(board) \/ told <= db.board.seq
         /\ faults = 0 => Len(pending) <= FlushThreshold + 2
         /\ faults = 0 /\ awaiting = "none" =>
              \/ Len(pending) < FlushThreshold
              \/ Len(pending) <= 1 /\ mailbox # <<>> /\ Head(mailbox).kind = "flush"

LEMMA LastSeqIsInt ==
    ASSUME NEW b \in Boards
    PROVE  LastSeq(b) \in Int /\ LastSeq(b) <= b.seq /\ b.seq <= LastSeq(b) + 1 /\ b.seq \in Nat
<1>1. b.seq \in Nat
  BY BoardHasSeq
<1> QED BY <1>1 DEF LastSeq

LEMMA InitTailed == Init => Tailed
<1> SUFFICES ASSUME Init PROVE Tailed
  OBVIOUS
<1>1. Len(pending) = 0 /\ told = 0 /\ board = db.board /\ board = EmptyBoard
  BY DEF Init
<1>2. LastSeq(board) = 0
  BY <1>1 DEF LastSeq, EmptyBoard
<1>3. FlushThreshold \in Nat \ {0}
  BY ActorAssumption
<1> QED BY <1>1, <1>2, <1>3 DEF Tailed

\* Whatever joins the mailbox finds it empty or a flush in flight.
LEMMA TailedKept ==
    ASSUME Tailed, Quiescent \/ UNCHANGED mailbox, db'.board = db.board,
           UNCHANGED <<alive, board, pending, awaiting, told, faults>>
    PROVE  Tailed'
BY DEF Tailed, Quiescent

LEMMA TailedAfterTask ==
    ASSUME Sound, Sound', Journaled, Tailed, alive, awaiting = "none",
           Head(mailbox).kind # "flush", UNCHANGED <<alive, db, faults>>,
           \/ board' = board /\ pending' = pending /\ told' = told
           \/ /\ \E q : Writes(board, Journal, q, board') /\ pending' = pending \o q
              /\ told' = LastSeq(board')
              /\ awaiting' \in {"terminal", "abandon"} \/ AfterMutationFlush(pending')
    PROVE  Tailed'
<1>1. faults = 0 => Len(pending) < FlushThreshold
  BY DEF Tailed
<1>2. pending \in Seq(Events) /\ Len(pending) \in Nat /\ FlushThreshold \in Nat
  BY ActorAssumption DEF Journaled
<1>3. /\ board \in Boards /\ board' \in Boards /\ db.board \in Boards
      /\ LastSeq(board) \in Int /\ LastSeq(db.board) \in Int /\ LastSeq(board') \in Int
  BY LastSeqIsInt DEF Sound, GoodRow
<1>4. CASE board' = board /\ pending' = pending /\ told' = told
  BY <1>1, <1>2, <1>4 DEF Tailed
<1>5. CASE /\ \E q : Writes(board, Journal, q, board') /\ pending' = pending \o q
           /\ told' = LastSeq(board')
           /\ awaiting' \in {"terminal", "abandon"} \/ AfterMutationFlush(pending')
  <2>1. PICK q : Writes(board, Journal, q, board') /\ pending' = pending \o q
    BY <1>5
  <2>2. /\ q \in Seq(Events) /\ Len(q) \in Nat /\ Len(q) <= 3
        /\ LastSeq(board') = LastSeq(board) + Len(q) /\ board.status = "ongoing"
    BY <2>1 DEF Writes
  <2>3. Len(pending') = Len(pending) + Len(q)
    BY <1>2, <2>1, <2>2
  <2>4. LastSeq(board') \in Nat
    <3>1. LastSeq(board) = board.seq /\ board.seq \in Nat
      BY <1>3, <2>2, BoardHasSeq DEF LastSeq
    <3> QED BY <2>2, <3>1
  <2>5. LastSeq(board') <= LastSeq(db'.board) + Len(pending')
    <3>1. LastSeq(board) <= LastSeq(db.board) + Len(pending)
      BY DEF Tailed
    <3> QED BY <1>2, <1>3, <2>2, <2>3, <3>1
  <2>6. faults = 0 => Len(pending') <= FlushThreshold + 2
    BY <1>1, <1>2, <2>2, <2>3
  <2>7. awaiting' = "none" => Len(pending') < FlushThreshold
    <3>1. Len(pending') \in Nat
      BY <1>2, <2>2, <2>3
    <3> QED BY <1>2, <1>5, <3>1 DEF AfterMutationFlush
  <2> QED BY <1>3, <1>5, <2>4, <2>5, <2>6, <2>7 DEF Tailed
<1> QED BY <1>4, <1>5

LEMMA TailedStep == ASSUME Sound, Ordered, Journaled, Tailed, Next, Sound', Ordered' PROVE Tailed'
<1> USE DEF memory, durable, history, counters
<1>0. FlushThreshold \in Nat \ {0}
  BY ActorAssumption
<1>1. CASE Submit \/ Abandon \/ Drain
  BY <1>1, TailedKept DEF Submit, Abandon, Drain
<1>2. CASE Tick
  <2>1. db'.board = db.board
    BY <1>2 DEF Tick, Sound, GoodRow
  <2> QED BY <1>2, <2>1, TailedKept DEF Tick
<1>3. ASSUME NEW u \in Users, Connect(u) \/ Disconnect(u) PROVE Tailed'
  BY <1>3, TailedKept DEF Connect, Disconnect
<1>4. CASE RunCommand
  <2>1. /\ alive /\ awaiting = "none" /\ UNCHANGED <<alive, db, faults>>
        /\ Head(mailbox).kind # "flush"
    BY <1>4 DEF RunCommand, Dequeue
  <2>2. \/ board' = board /\ pending' = pending /\ told' = told
        \/ \E q : Took(Head(mailbox).msg, q)
    BY <1>4, <2>1, CommandWrites DEF Journaled
  <2>3. CASE \E q : Took(Head(mailbox).msg, q)
    <3>1. PICK q : Took(Head(mailbox).msg, q)
      BY <2>3
    <3>2. /\ Writes(board, Journal, q, board') /\ pending' = pending \o q
          /\ told' = LastSeq(board')
          /\ awaiting' \in {"terminal", "abandon"} \/ AfterMutationFlush(pending')
      BY <3>1 DEF Took
    <3> QED BY <2>1, <3>2, TailedAfterTask
  <2> QED BY <2>1, <2>2, <2>3, TailedAfterTask
<1>5. CASE RunFlush
  <2>1. /\ alive /\ UNCHANGED <<alive, board, db, faults, pending, told>>
        /\ awaiting' = IF pending = <<>> THEN "none" ELSE "flush"
    BY <1>5 DEF RunFlush, Dequeue
  <2>2. awaiting' = "none" => Len(pending) < FlushThreshold
    BY <1>0, <2>1
  <2>3. /\ told \in Nat /\ LastSeq(board) <= LastSeq(db.board) + Len(pending)
        /\ told <= LastSeq(board) \/ told <= db.board.seq
        /\ faults = 0 => Len(pending) <= FlushThreshold + 2
    BY <2>1 DEF Tailed
  <2> QED BY <2>1, <2>2, <2>3 DEF Tailed
<1>6. CASE RunExpiry
  <2>1. /\ alive /\ awaiting = "none" /\ UNCHANGED <<alive, db, faults>>
        /\ Head(mailbox).kind # "flush"
    BY <1>6 DEF RunExpiry, Dequeue
  <2> QED BY <1>6, <2>1, ExpiryWrites, TailedAfterTask DEF Journaled
<1>7. CASE RunAbandon
  <2>1. /\ alive /\ awaiting = "none" /\ UNCHANGED <<alive, db, faults>>
        /\ Head(mailbox).kind # "flush"
    BY <1>7 DEF RunAbandon, Dequeue
  <2> QED BY <1>7, <2>1, AbandonWrites, TailedAfterTask DEF Journaled
<1>8. CASE FlushTimerFires \/ VoteTimerFires
  BY <1>8, TailedKept DEF FlushTimerFires, VoteTimerFires
<1>9. CASE DbCommits
  <2>1. /\ alive /\ awaiting # "none" /\ UNCHANGED <<alive, board, pending, awaiting, told, faults>>
    BY <1>9 DEF DbCommits
  <2>2. db'.board.seq = board.seq /\ db'.board.status = board.status
    BY <1>9, CommitLogsJournal
  <2>3. LastSeq(db'.board) = LastSeq(board)
    BY <2>2 DEF LastSeq
  <2>4. /\ board \in Boards /\ db.board.seq <= board.seq /\ db.board.seq \in Nat
        /\ pending \in Seq(Events)
    BY <2>1, BoardHasSeq DEF Sound, GoodRow, Ordered, RowIsBehind, Journaled
  <2>5. LastSeq(board) <= LastSeq(db'.board) + Len(pending)
    BY <2>3, <2>4, LastSeqIsInt
  <2>6. told <= LastSeq(board) \/ told <= db'.board.seq
    <3>1. told \in Nat /\ (told <= LastSeq(board) \/ told <= db.board.seq)
      BY <2>1 DEF Tailed
    <3>2. board.seq \in Nat
      BY <2>4, BoardHasSeq
    <3> QED BY <2>2, <2>4, <3>1, <3>2
  <2> QED BY <2>1, <2>5, <2>6 DEF Tailed
<1>10. CASE FlushSucceeds
  <2>1. /\ alive /\ committed /\ pending' = <<>> /\ UNCHANGED <<alive, board, db, faults>>
        /\ told' \in {told, board.seq}
    BY <1>10 DEF FlushSucceeds
  <2>2. db.board.seq = board.seq /\ db.board.status = board.status
    BY <2>1 DEF Ordered, Journaled
  <2>3. LastSeq(db.board) = LastSeq(board) /\ LastSeq(board) \in Int /\ board.seq \in Nat
    BY <2>2, LastSeqIsInt DEF LastSeq, Sound
  <2>4. Len(pending') = 0
    BY <2>1
  <2>5. /\ told \in Nat /\ (told <= LastSeq(board) \/ told <= db.board.seq)
    BY <2>1 DEF Tailed
  <2> HIDE <1>10
  <2> QED BY <1>0, <2>1, <2>2, <2>3, <2>4, <2>5 DEF Tailed
<1>11. CASE FlushFails
  <2>1. faults' # 0 /\ UNCHANGED <<alive, board, pending, db, told>>
    BY <1>11 DEF FlushFails, Ordered
  <2> QED BY <2>1 DEF Tailed
<1>12. CASE Crash
  BY <1>12 DEF Crash, Tailed
<1>13. CASE Hydrate
  <2>1. UNCHANGED <<db, awaiting, faults>>
    BY <1>13 DEF Hydrate
  <2>2. db.board \in Boards /\ board' \in Boards
    BY DEF Sound, GoodRow
  <2>2a. /\ LastSeq(db.board) \in Int /\ db.board.seq \in Nat
         /\ LastSeq(board') \in Int /\ board'.seq \in Nat
    BY <2>2, LastSeqIsInt
  <2>3. CASE board' = db.board /\ pending' = <<>> /\ told' = db.board.seq
    <3>1. Len(pending') = 0
      BY <2>3
    <3> QED BY <1>0, <2>1, <2>2a, <2>3, <3>1 DEF Tailed
  <2>4. CASE /\ Writes(db.board, dbLog, pending', board') /\ Len(pending') = 1
             /\ mailbox' = << FlushTask >> /\ told' = LastSeq(board')
             /\ board'.status = "ongoing"
    <3>1. LastSeq(board') = LastSeq(db.board) + 1
      BY <2>4 DEF Writes
    <3>2. mailbox' # <<>> /\ Head(mailbox').kind = "flush"
      BY <2>4 DEF FlushTask
    <3>3. told' = board'.seq
      BY <2>4 DEF LastSeq
    <3> QED BY <1>0, <2>1, <2>2a, <2>4, <3>1, <3>2, <3>3 DEF Tailed
  <2> QED BY <1>13, <2>3, <2>4, HydrateWrites DEF Journaled
<1> QED BY <1>1, <1>2, <1>3, <1>4, <1>5, <1>6, <1>7, <1>8, <1>9, <1>10, <1>11, <1>12, <1>13
        DEF Next, Environment, Actor, Failures

-----------------------------------------------------------------------------
(* An open vote is timed.                                                  *)

Times == 0..Ttl \cup {NoTime}

\* An open vote has its deadline, and the timer or the task that closes it then.
Timed ==
    /\ left \in Times /\ db.left \in Times
    /\ alive /\ board.vote # NoVote =>
           left # NoTime /\ (voteTimer \/ ExpiryTask \in Range(mailbox))

LEMMA AppendKeeps ==
    ASSUME NEW S, NEW s \in Seq(S), NEW x
    PROVE  Range(s) \subseteq Range(Append(s, x)) /\ x \in Range(Append(s, x))
<1>1. /\ DOMAIN s = 1..Len(s) /\ Len(s) \in Nat
      /\ DOMAIN Append(s, x) = 1..Len(s) + 1
      /\ \A i \in 1..Len(s) : Append(s, x)[i] = s[i]
      /\ Append(s, x)[Len(s) + 1] = x
  OBVIOUS
<1> DEFINE a == Append(s, x)
<1> HIDE DEF a
<1>2. /\ DOMAIN a = 1..Len(s) + 1 /\ \A i \in 1..Len(s) : a[i] = s[i]
      /\ a[Len(s) + 1] = x
  BY <1>1 DEF a
<1>3. x \in Range(a)
  <2>1. Len(s) + 1 \in DOMAIN a
    BY <1>1, <1>2
  <2> QED BY <1>2, <2>1 DEF Range
<1>4. ASSUME NEW y \in Range(s) PROVE y \in Range(a)
  <2>1. PICK i \in 1..Len(s) : s[i] = y
    BY <1>1 DEF Range
  <2>2. i \in DOMAIN a /\ a[i] = y
    BY <1>1, <1>2, <2>1
  <2> QED BY <2>2 DEF Range
<1> QED BY <1>3, <1>4 DEF a

LEMMA TailKeepsOthers ==
    ASSUME NEW S, NEW s \in Seq(S), s # <<>>, NEW x \in Range(s), x # Head(s)
    PROVE  x \in Range(Tail(s))
<1>1. /\ DOMAIN s = 1..Len(s) /\ Len(s) \in Nat \ {0} /\ Head(s) = s[1]
      /\ DOMAIN Tail(s) = 1..Len(s) - 1
      /\ \A i \in 1..Len(s) - 1 : Tail(s)[i] = s[i + 1]
  OBVIOUS
<1> DEFINE t == Tail(s)
<1> HIDE DEF t
<1>2. PICK i \in 1..Len(s) : s[i] = x
  BY <1>1 DEF Range
<1>3. i # 1
  BY <1>1, <1>2
<1>4. i - 1 \in 1..Len(s) - 1 /\ (i - 1) + 1 = i
  BY <1>1, <1>3
<1>5. i - 1 \in DOMAIN t /\ t[i - 1] = x
  BY <1>1, <1>2, <1>4 DEF t
<1> QED BY <1>5 DEF Range, t

LEMMA InitTimed == Init => Timed
BY ActorAssumption DEF Init, Timed, Times, EmptyBoard

\* A deadline and its timer or task stay while neither is touched.
LEMMA TimedKept ==
    ASSUME Timed, Range(mailbox) \subseteq Range(mailbox'),
           UNCHANGED <<alive, board, left, voteTimer>>, db'.left = db.left
    PROVE  Timed'
BY DEF Timed

\* Another task than the expiry leaves the mailbox and the vote alone.
LEMMA TimedAfterTask ==
    ASSUME Sound, Timed, UNCHANGED <<alive, board, left, voteTimer, db>>,
           NEW kind, Dequeue(kind), kind # "expiry"
    PROVE  Timed'
<1>1. /\ mailbox \in Seq(Tasks) /\ mailbox # <<>> /\ mailbox' = Tail(mailbox)
      /\ Head(mailbox) # ExpiryTask
  BY DEF Dequeue, Sound, ExpiryTask
<1>2. ExpiryTask \in Range(mailbox) => ExpiryTask \in Range(mailbox')
  BY <1>1, TailKeepsOthers
<1> QED BY <1>2 DEF Timed

LEMMA ElapsedIsTime == ASSUME NEW t \in Times PROVE Elapsed(t) \in Times /\ (t # NoTime => Elapsed(t) # NoTime)
<1>1. Ttl \in Nat \ {0} /\ NoTime \notin Nat
  BY ActorAssumption
<1>2. CASE t = NoTime \/ t = 0
  BY <1>2 DEF Elapsed
<1>3. CASE t \in 1..Ttl
  <2>1. t - 1 \in 0..Ttl /\ t - 1 \in Nat /\ t # NoTime
    BY <1>1, <1>3
  <2> QED BY <1>1, <1>3, <2>1 DEF Elapsed, Times
<1> QED BY <1>1, <1>2, <1>3 DEF Times

LEMMA TimedStep == ASSUME Sound, Journaled, Timed, Next PROVE Timed'
<1> USE DEF memory, durable, history, counters
<1>0. mailbox \in Seq(Tasks) /\ Ttl \in Times /\ NoTime \in Times /\ Ttl # NoTime /\ 0 \in Times
  BY ActorAssumption DEF Sound, Times
<1>1. CASE Submit \/ Abandon \/ Drain \/ FlushTimerFires
  <2>1. PICK task : Post(task)
    BY <1>1 DEF Submit, Abandon, Drain, FlushTimerFires
  <2>2. Range(mailbox) \subseteq Range(mailbox')
    BY <1>0, <2>1, AppendKeeps DEF Post
  <2> QED BY <1>1, <2>2, TimedKept DEF Submit, Abandon, Drain, FlushTimerFires
<1>2. CASE Tick
  <2>1. db'.left = Elapsed(db.left)
    BY <1>2 DEF Tick, Sound, GoodRow
  <2>2. left' = Elapsed(left) /\ UNCHANGED <<alive, board, voteTimer, mailbox>>
    BY <1>2 DEF Tick
  <2>3. /\ Elapsed(left) \in Times /\ Elapsed(db.left) \in Times
        /\ left # NoTime => Elapsed(left) # NoTime
    BY ElapsedIsTime DEF Timed
  <2> QED BY <2>1, <2>2, <2>3 DEF Timed
<1>3. ASSUME NEW u \in Users, Connect(u) \/ Disconnect(u) PROVE Timed'
  BY <1>3, TimedKept DEF Connect, Disconnect
<1>4. CASE RunCommand
  <2>1. alive /\ Dequeue("command") /\ UNCHANGED <<alive, db>>
    BY <1>4 DEF RunCommand, Dequeue
  <2>2. CASE UNCHANGED <<board, left, voteTimer>>
    BY <2>1, <2>2, TimedAfterTask
  <2>3. CASE \E q : Took(Head(mailbox).msg, q)
    <3>1. ReconcileVoteTimer(board')
      BY <2>3 DEF Took
    <3>2. CASE board'.vote = NoVote
      BY <1>0, <2>1, <3>1, <3>2 DEF ReconcileVoteTimer, Timed
    <3>3. CASE board'.vote # NoVote /\ board.vote = NoVote
      BY <1>0, <2>1, <3>1, <3>3 DEF ReconcileVoteTimer, Timed
    <3>4. CASE board'.vote # NoVote /\ board.vote # NoVote
      <4>1. UNCHANGED <<left, voteTimer>>
        BY <3>1, <3>4 DEF ReconcileVoteTimer
      <4>2. mailbox # <<>> /\ mailbox' = Tail(mailbox) /\ Head(mailbox) # ExpiryTask
        BY <2>1 DEF Dequeue, ExpiryTask
      <4>3. ExpiryTask \in Range(mailbox) => ExpiryTask \in Range(mailbox')
        BY <1>0, <4>2, TailKeepsOthers
      <4> QED BY <2>1, <3>4, <4>1, <4>3 DEF Timed
    <3> QED BY <3>2, <3>3, <3>4
  <2>4. pending \in Seq(Events) /\ Faithful(board, Journal)
    BY <2>1 DEF Journaled
  <2> QED BY <1>4, <2>2, <2>3, <2>4, CommandWrites
<1>5. CASE RunFlush
  BY <1>5, TimedAfterTask DEF RunFlush
<1>6. CASE RunExpiry
  <2>1. alive /\ left' = NoTime /\ UNCHANGED db
    BY <1>6 DEF RunExpiry, Dequeue
  <2>2. board'.vote = NoVote
    BY <1>6, <2>1, ExpiryWrites DEF Journaled
  <2> QED BY <1>0, <2>1, <2>2 DEF Timed
<1>7. CASE RunAbandon
  <2>1. alive /\ Dequeue("abandon") /\ UNCHANGED <<alive, db>>
    BY <1>7 DEF RunAbandon, Dequeue
  <2>2. CASE UNCHANGED <<board, left, voteTimer>>
    BY <2>1, <2>2, TimedAfterTask
  <2>3. CASE board'.vote = NoVote /\ left' \in {left, NoTime}
    BY <1>0, <2>1, <2>3 DEF Timed
  <2> QED BY <1>7, <2>1, <2>2, <2>3, AbandonWrites DEF Journaled
<1>8. CASE VoteTimerFires
  <2>1. mailbox' = Append(mailbox, ExpiryTask) /\ UNCHANGED <<alive, board, left, db>>
    BY <1>8 DEF VoteTimerFires, Post
  <2>2. ExpiryTask \in Range(mailbox')
    BY <1>0, <2>1, AppendKeeps
  <2> QED BY <2>1, <2>2 DEF Timed
<1>9. CASE DbCommits
  <2>1. /\ UNCHANGED <<alive, board, left, voteTimer, mailbox>>
        /\ db' = Snapshot(awaiting = "terminal" \/ stats)
    BY <1>9 DEF DbCommits
  <2>2. db'.left \in {left, NoTime}
    BY <2>1 DEF Snapshot
  <2> QED BY <1>0, <2>1, <2>2 DEF Timed
<1>10. CASE FlushSucceeds
  BY <1>10, TimedKept DEF FlushSucceeds
<1>11. CASE FlushFails
  BY <1>11, TimedKept DEF FlushFails
<1>12. CASE Crash
  BY <1>0, <1>12 DEF Crash, Timed
<1>13. CASE Hydrate
  <2>1. UNCHANGED db
    BY <1>13 DEF Hydrate
  <2>2. CASE /\ board' = db.board /\ left' = db.left
             /\ db.board.vote # NoVote => voteTimer' /\ db.left \notin {NoTime, 0}
    BY <2>1, <2>2 DEF Timed
  <2>3. CASE board'.vote = NoVote /\ left' = NoTime
    BY <1>0, <2>1, <2>3 DEF Timed
  <2> QED BY <1>13, <2>2, <2>3, HydrateWrites DEF Journaled
<1> QED BY <1>1, <1>2, <1>3, <1>4, <1>5, <1>6, <1>7, <1>8, <1>9, <1>10, <1>11, <1>12, <1>13
        DEF Next, Environment, Actor, Failures

-----------------------------------------------------------------------------
(* What the actor remembers of the commands it journaled.                  *)

\* r has the ids of the commands that led to the events of J up to seq n: each one
\* is at a place that no more commands have passed than seqs, or RecentLimit seqs
\* have passed, and an id is back only further on than that.
Remembers(r, J, n) ==
    /\ r \in Seq(CommandIds) /\ Len(r) <= RecentLimit
    /\ \A e \in IdsOf(J) :
         \/ RecentLimit <= n - e.seq
         \/ \E i \in 1..Len(r) : r[i] = e.id /\ Len(r) - i <= n - e.seq
    /\ \A e, f \in IdsOf(J) : e.id = f.id /\ e.seq < f.seq => RecentLimit < f.seq - e.seq

\* So it is of the ids the actor remembers, and of those in the row.
Remembered ==
    /\ Remembers(db.recent, dbLog, LastSeq(db.board))
    /\ alive => Remembers(recent, Journal, LastSeq(board))

\* s is what is kept of r and a new id: all of it, or all but the oldest.
Joined(s, r, id) ==
    /\ s \in Seq(CommandIds) /\ Len(s) \in 1..RecentLimit /\ s[Len(s)] = id
    /\ \/ Len(s) = Len(r) + 1 /\ \A i \in 1..Len(r) : s[i] = r[i]
       \/ Len(s) = RecentLimit /\ Len(r) = RecentLimit
          /\ \A i \in 2..Len(r) : s[i - 1] = r[i]

LEMMA LastOfAppend ==
    ASSUME NEW r \in Seq(CommandIds), Len(r) <= RecentLimit, NEW id \in CommandIds,
           NEW s, s = LastOf(Append(r, id), RecentLimit)
    PROVE  Joined(s, r, id)
<1> DEFINE a == Append(r, id)
<1>1. RecentLimit \in Nat \ {0} /\ Len(r) \in Nat
  BY ActorAssumption
<1>2. /\ a \in Seq(CommandIds) /\ Len(a) = Len(r) + 1 /\ a[Len(r) + 1] = id
      /\ \A i \in 1..Len(r) : a[i] = r[i]
  BY <1>1
<1> HIDE DEF a
<1>3. CASE Len(a) <= RecentLimit
  <2>1. s = a
    BY <1>3 DEF LastOf, a
  <2> QED BY <1>1, <1>2, <1>3, <2>1 DEF Joined
<1>4. CASE ~ (Len(a) <= RecentLimit)
  <2>1. Len(r) = RecentLimit /\ Len(a) - RecentLimit + 1 = 2
    BY <1>1, <1>2, <1>4
  <2>2. s = SubSeq(a, 2, Len(a))
    BY <1>4, <2>1 DEF LastOf, a
  <2>3. /\ s \in Seq(CommandIds) /\ Len(s) = Len(a) - 1
        /\ \A i \in 1..Len(s) : s[i] = a[i + 1]
    <3> DEFINE n == Len(a)
    <3>1. n \in Nat /\ 2 <= n /\ n <= Len(a) /\ n - 2 + 1 = n - 1
      BY <1>1, <1>2, <2>1
    <3>2. \A i \in 1..n - 1 : 2 + i - 1 = i + 1
      OBVIOUS
    <3> HIDE DEF n
    <3>3. /\ SubSeq(a, 2, n) \in Seq(CommandIds) /\ Len(SubSeq(a, 2, n)) = n - 1
          /\ \A i \in 1..n - 1 : SubSeq(a, 2, n)[i] = a[i + 1]
      BY <1>2, <3>1, <3>2, CutFromTo
    <3> QED BY <2>2, <3>3 DEF n
  <2>4. Len(s) = RecentLimit /\ s[Len(s)] = id
    BY <1>1, <1>2, <2>1, <2>3
  <2>5. ASSUME NEW i \in 2..Len(r) PROVE s[i - 1] = r[i]
    <3>1. i \in 1..Len(r) /\ i - 1 \in 1..Len(s) /\ (i - 1) + 1 = i
      BY <1>1, <2>1, <2>4
    <3> QED BY <1>2, <2>3, <3>1
  <2> QED BY <1>1, <2>1, <2>3, <2>4, <2>5 DEF Joined
<1> QED BY <1>3, <1>4

\* A command leads to events behind those of J, and its id joins those remembered.
LEMMA AppendRemembers ==
    ASSUME NEW J, NEW n \in Nat, NEW r, Remembers(r, J, n), \A e \in IdsOf(J) : e.seq \in 1..n,
           NEW id \in CommandIds, id \notin Range(r),
           NEW K, \A e \in IdsOf(K) : e.id = id /\ e.seq = n + 1, NEW m \in Nat, n < m,
           NEW s, s = LastOf(Append(r, id), RecentLimit)
    PROVE  Remembers(s, J \cup K, m)
<1>1. r \in Seq(CommandIds) /\ Len(r) <= RecentLimit /\ Len(r) \in Nat
  BY DEF Remembers
<1>2. /\ s \in Seq(CommandIds) /\ Len(s) \in 1..RecentLimit /\ s[Len(s)] = id
      /\ \/ Len(s) = Len(r) + 1 /\ \A i \in 1..Len(r) : s[i] = r[i]
         \/ Len(s) = RecentLimit /\ Len(r) = RecentLimit
            /\ \A i \in 2..Len(r) : s[i - 1] = r[i]
  <2>1. Joined(s, r, id)
    BY <1>1, LastOfAppend
  <2> QED BY <2>1 DEF Joined
<1>3. RecentLimit \in Nat \ {0} /\ Len(s) <= RecentLimit /\ Len(s) \in Nat \ {0}
  BY <1>2, ActorAssumption
<1>4. \A e \in IdsOf(J \cup K) : e \in IdsOf(J) \/ e \in IdsOf(K)
  BY DEF IdsOf
<1>5. \A e \in IdsOf(J) :
        \/ RecentLimit <= n - e.seq
        \/ \E i \in 1..Len(r) : r[i] = e.id /\ Len(r) - i <= n - e.seq
  BY DEF Remembers
<1>6. ASSUME NEW e \in IdsOf(J \cup K)
      PROVE  \/ RecentLimit <= m - e.seq
             \/ \E i \in 1..Len(s) : s[i] = e.id /\ Len(s) - i <= m - e.seq
  <2>1. CASE e \in IdsOf(J) /\ RecentLimit <= n - e.seq
    <3>1. e.seq \in Nat
      BY <2>1
    <3> QED BY <1>3, <2>1, <3>1
  <2>2. ASSUME e \in IdsOf(J), NEW i \in 1..Len(r), r[i] = e.id, Len(r) - i <= n - e.seq
        PROVE  \/ RecentLimit <= m - e.seq
               \/ \E j \in 1..Len(s) : s[j] = e.id /\ Len(s) - j <= m - e.seq
    <3>1. e.seq \in Nat /\ i \in Nat
      BY <2>2
    <3>2. CASE Len(s) = Len(r) + 1 /\ \A j \in 1..Len(r) : s[j] = r[j]
      <4>1. i \in 1..Len(s) /\ Len(s) - i <= m - e.seq
        BY <1>1, <2>2, <3>1, <3>2
      <4> QED BY <2>2, <3>2, <4>1
    <3>3. CASE /\ Len(s) = RecentLimit /\ Len(r) = RecentLimit
               /\ \A j \in 2..Len(r) : s[j - 1] = r[j]
      <4>1. CASE i = 1
        BY <1>3, <2>2, <3>1, <3>3, <4>1
      <4>2. CASE i # 1
        <5>1. i \in 2..Len(r) /\ i - 1 \in 1..Len(s) /\ Len(s) - (i - 1) <= m - e.seq
          BY <1>1, <1>3, <2>2, <3>1, <3>3, <4>2
        <5> QED BY <2>2, <3>3, <5>1
      <4> QED BY <4>1, <4>2
    <3> QED BY <1>2, <3>2, <3>3
  <2>3. CASE e \in IdsOf(K)
    <3>1. s[Len(s)] = e.id /\ Len(s) - Len(s) <= m - e.seq /\ Len(s) \in 1..Len(s)
      BY <1>2, <1>3, <2>3
    <3> QED BY <3>1
  <2> QED BY <1>4, <1>5, <2>1, <2>2, <2>3
<1>7. ASSUME NEW e \in IdsOf(J \cup K), NEW f \in IdsOf(J \cup K), e.id = f.id, e.seq < f.seq
      PROVE  RecentLimit < f.seq - e.seq
  <2>1. CASE e \in IdsOf(J) /\ f \in IdsOf(J)
    BY <1>7, <2>1 DEF Remembers
  <2>2. CASE e \in IdsOf(J) /\ f \in IdsOf(K)
    <3>1. \A i \in 1..Len(r) : r[i] # e.id
      BY <1>1, <1>7, <2>2 DEF Range
    <3>2. RecentLimit <= n - e.seq /\ f.seq = n + 1 /\ e.seq \in Nat
      BY <1>5, <2>2, <3>1
    <3> QED BY <1>3, <3>2
  <2>3. CASE e \in IdsOf(K)
    <3>1. e.seq = n + 1 /\ (f.seq \in 1..n \/ f.seq = n + 1)
      BY <1>4, <2>3
    <3> QED BY <1>7, <3>1
  <2> QED BY <1>4, <2>1, <2>2, <2>3
<1>8. /\ \A e \in IdsOf(J \cup K) :
           \/ RecentLimit <= m - e.seq
           \/ \E i \in 1..Len(s) : s[i] = e.id /\ Len(s) - i <= m - e.seq
      /\ \A e, f \in IdsOf(J \cup K) : e.id = f.id /\ e.seq < f.seq => RecentLimit < f.seq - e.seq
  BY <1>6, <1>7
<1> QED BY <1>2, <1>3, <1>8 DEF Remembers

\* Events without an id leave what is remembered as it is.
LEMMA RemembersMore ==
    ASSUME NEW r, NEW J, NEW n \in Nat, Remembers(r, J, n), \A e \in IdsOf(J) : e.seq \in 1..n,
           NEW K, IdsOf(K) = {}, NEW m \in Nat, n <= m
    PROVE  Remembers(r, J \cup K, m)
<1>1. IdsOf(J \cup K) = IdsOf(J)
  BY DEF IdsOf
<1>2. r \in Seq(CommandIds) /\ Len(r) \in Nat /\ RecentLimit \in Nat
  BY ActorAssumption DEF Remembers
<1>3. ASSUME NEW e \in IdsOf(J)
      PROVE  \/ RecentLimit <= m - e.seq
             \/ \E i \in 1..Len(r) : r[i] = e.id /\ Len(r) - i <= m - e.seq
  <2>1. e.seq \in Nat
    OBVIOUS
  <2>2. CASE RecentLimit <= n - e.seq
    BY <1>2, <2>1, <2>2
  <2>3. ASSUME NEW i \in 1..Len(r), r[i] = e.id, Len(r) - i <= n - e.seq
        PROVE  \E j \in 1..Len(r) : r[j] = e.id /\ Len(r) - j <= m - e.seq
    <3>1. Len(r) - i <= m - e.seq
      BY <1>2, <2>1, <2>3
    <3> QED BY <2>3, <3>1
  <2> QED BY <2>2, <2>3 DEF Remembers
<1> QED BY <1>1, <1>3 DEF Remembers

\* The events of a journal have seqs that its board consumed.
LEMMA JournalSeqs ==
    ASSUME NEW b, NEW J, Faithful(b, J) PROVE \A e \in IdsOf(J) : e.seq \in 1..LastSeq(b)
<1>1. {e.seq : e \in J} = 1..LastSeq(b)
  BY DEF Faithful, LoggedSeqs, LastSeq
<1> QED BY <1>1 DEF IdsOf

-----------------------------------------------------------------------------
(* The inductive invariant of the actor and its log.                       *)

\* An end takes a seq of its own, so no board has fewer than none on the log.
Counted == LastSeq(db.board) \in Nat /\ (alive => LastSeq(board) \in Nat)

LEMMA CountedStep == ASSUME Sound, Ordered, Journaled, Counted, Next PROVE Counted'
<1> USE DEF memory, durable, history, counters
<1>1. ASSUME NEW b, NEW J, NEW q, NEW d, Writes(b, J, q, d), LastSeq(b) \in Nat
      PROVE  LastSeq(d) \in Nat
  <2>1. q \in Seq(Events) /\ LastSeq(d) = LastSeq(b) + Len(q)
    BY <1>1 DEF Writes
  <2>2. Len(q) \in Nat
    BY <2>1
  <2> QED BY <1>1, <2>1, <2>2
<1>2. ASSUME alive => board' = board \/ \E q : Writes(board, Journal, q, board'),
             alive' => alive, db'.board = db.board
      PROVE  Counted'
  BY <1>1, <1>2 DEF Counted
<1>3. CASE Submit \/ Abandon \/ Drain \/ FlushTimerFires \/ VoteTimerFires \/ RunFlush
  BY <1>2, <1>3 DEF Submit, Abandon, Drain, FlushTimerFires, VoteTimerFires, RunFlush
<1>4. CASE Tick
  <2>1. db'.board = db.board
    BY <1>4 DEF Tick, Sound, GoodRow
  <2> QED BY <1>2, <1>4, <2>1 DEF Tick
<1>5. ASSUME NEW u \in Users, Connect(u) \/ Disconnect(u) PROVE Counted'
  BY <1>2, <1>5 DEF Connect, Disconnect
<1>6. CASE RunCommand
  <2>1. alive /\ UNCHANGED <<alive, db>>
    BY <1>6 DEF RunCommand, Dequeue
  <2>2. board' = board \/ \E q : Writes(board, Journal, q, board')
    BY <1>6, <2>1, CommandWrites DEF Journaled, Took
  <2> QED BY <1>2, <2>1, <2>2
<1>7. CASE RunExpiry
  <2>1. alive /\ UNCHANGED <<alive, db>>
    BY <1>7 DEF RunExpiry, Dequeue
  <2>2. board' = board \/ \E q : Writes(board, Journal, q, board')
    BY <1>7, <2>1, ExpiryWrites DEF Journaled
  <2> QED BY <1>2, <2>1, <2>2
<1>8. CASE RunAbandon
  <2>1. alive /\ UNCHANGED <<alive, db>>
    BY <1>8 DEF RunAbandon, Dequeue
  <2>2. board' = board \/ \E q : Writes(board, Journal, q, board')
    BY <1>8, <2>1, AbandonWrites DEF Journaled
  <2> QED BY <1>2, <2>1, <2>2
<1>9. CASE DbCommits
  <2>1. db'.board.seq = board.seq /\ db'.board.status = board.status
    BY <1>9, CommitLogsJournal
  <2>2. alive /\ UNCHANGED <<alive, board>>
    BY <1>9 DEF DbCommits
  <2> QED BY <2>1, <2>2 DEF Counted, LastSeq
<1>10. CASE FlushSucceeds \/ FlushFails
  BY <1>2, <1>10 DEF FlushSucceeds, FlushFails
<1>11. CASE Crash
  BY <1>11 DEF Crash, Counted
<1>12. CASE Hydrate
  <2>1. UNCHANGED db /\ LastSeq(db.board) \in Nat
    BY <1>12 DEF Hydrate, Counted
  <2>2. board' = db.board \/ Writes(db.board, dbLog, pending', board')
    BY <1>12, HydrateWrites DEF Journaled
  <2> QED BY <1>1, <2>1, <2>2 DEF Counted
<1> QED BY <1>3, <1>4, <1>5, <1>6, <1>7, <1>8, <1>9, <1>10, <1>11, <1>12
        DEF Next, Environment, Actor, Failures

LEMMA InitRemembered == Init => Remembered
<1> SUFFICES ASSUME Init PROVE Remembered
  OBVIOUS
<1>1. recent = <<>> /\ db.recent = <<>> /\ Journal = {} /\ dbLog = {}
  BY DEF Init, Journal, Range
<1>2. IdsOf({}) = {} /\ <<>> \in Seq(CommandIds) /\ Len(<<>>) = 0 /\ 0 <= RecentLimit
  BY ActorAssumption DEF IdsOf
<1> QED BY <1>1, <1>2 DEF Remembered, Remembers

LEMMA RememberedKept ==
    ASSUME Remembered, db'.recent = db.recent, db'.board = db.board,
           UNCHANGED <<alive, board, recent, pending, dbLog>>
    PROVE  Remembered'
BY DEF Remembered, Journal

LEMMA RememberedStep ==
    ASSUME Sound, Ordered, Journaled, Counted, Remembered, Next
    PROVE  Remembered'
<1> USE DEF memory, durable, history, counters
<1>1. CASE Submit \/ Abandon \/ Drain
  BY <1>1, RememberedKept DEF Submit, Abandon, Drain
<1>2. CASE Tick
  <2>1. db'.recent = db.recent /\ db'.board = db.board
    BY <1>2 DEF Tick, Sound, GoodRow
  <2> QED BY <1>2, <2>1, RememberedKept DEF Tick
<1>3. ASSUME NEW u \in Users, Connect(u) \/ Disconnect(u) PROVE Remembered'
  BY <1>3, RememberedKept DEF Connect, Disconnect
<1>4. CASE RunCommand
  <2>1. /\ alive /\ UNCHANGED <<alive, db, dbLog>> /\ pending \in Seq(Events)
        /\ Faithful(board, Journal) /\ LastSeq(board) \in Nat
        /\ Remembers(recent, Journal, LastSeq(board))
    BY <1>4 DEF RunCommand, Dequeue, Journaled, Counted, Remembered
  <2>2. CASE board' = board /\ pending' = pending /\ recent' = recent
    BY <2>1, <2>2, RememberedKept
  <2>3. CASE \E q : Took(Head(mailbox).msg, q)
    <3> DEFINE id == Head(mailbox).msg.id
    <3>1. PICK q : Took(Head(mailbox).msg, q)
      BY <2>3
    <3>2. /\ q \in Seq(Events) /\ q # <<>> /\ pending' = pending \o q
          /\ LastSeq(board') = LastSeq(board) + Len(q)
          /\ id \in CommandIds /\ id \notin Range(recent)
          /\ recent' = LastOf(Append(recent, id), RecentLimit)
          /\ \A e \in IdsOf(Range(q)) : e.id = id /\ e.seq = LastSeq(board) + 1
      BY <3>1 DEF Took, Writes
    <3> HIDE DEF id
    <3>3. Journal' = Journal \cup Range(q)
      BY <2>1, <3>2, RangeOfConcat DEF Journal
    <3>4. LastSeq(board') \in Nat /\ LastSeq(board) < LastSeq(board')
      <4>1. Len(q) \in Nat \ {0}
        BY <3>2
      <4> QED BY <2>1, <3>2, <4>1
    <3>5. Remembers(recent', Journal \cup Range(q), LastSeq(board'))
      BY <2>1, <3>2, <3>4, JournalSeqs, AppendRemembers
    <3> QED BY <2>1, <3>3, <3>5 DEF Remembered, LastSeq
  <2> QED BY <1>4, <2>1, <2>2, <2>3, CommandWrites
<1>5. CASE RunFlush
  BY <1>5, RememberedKept DEF RunFlush
<1>6. ASSUME alive, UNCHANGED <<alive, db, dbLog, recent>>, NEW q, pending' = pending \o q,
             Writes(board, Journal, q, board'), IdsOf(Range(q)) = {}
      PROVE  Remembered'
  <2>1. /\ pending \in Seq(Events) /\ Remembers(recent, Journal, LastSeq(board))
        /\ Faithful(board, Journal) /\ LastSeq(board) \in Nat
    BY <1>6 DEF Journaled, Counted, Remembered
  <2>2. q \in Seq(Events) /\ LastSeq(board') = LastSeq(board) + Len(q)
    BY <1>6 DEF Writes
  <2>3. Journal' = Journal \cup Range(q)
    BY <1>6, <2>1, <2>2, RangeOfConcat DEF Journal
  <2>4. LastSeq(board') \in Nat /\ LastSeq(board) <= LastSeq(board')
    <3>1. Len(q) \in Nat
      BY <2>2
    <3> QED BY <2>1, <2>2, <3>1
  <2>5. Remembers(recent, Journal \cup Range(q), LastSeq(board'))
    BY <1>6, <2>1, <2>4, JournalSeqs, RemembersMore
  <2> QED BY <1>6, <2>3, <2>5 DEF Remembered, LastSeq
<1>7. CASE RunExpiry
  <2>1. alive /\ UNCHANGED <<alive, db, dbLog, recent>>
    BY <1>7 DEF RunExpiry, Dequeue
  <2>2. CASE board' = board /\ pending' = pending
    BY <2>1, <2>2, RememberedKept
  <2>3. CASE \E q : /\ Writes(board, Journal, q, board') /\ pending' = pending \o q
                    /\ IdsOf(Range(q)) = {}
    BY <1>6, <2>1, <2>3
  <2> QED BY <1>7, <2>1, <2>2, <2>3, ExpiryWrites DEF Journaled
<1>8. CASE RunAbandon
  <2>1. alive /\ UNCHANGED <<alive, db, dbLog, recent>>
    BY <1>8 DEF RunAbandon, Dequeue
  <2>2. CASE board' = board /\ pending' = pending
    BY <2>1, <2>2, RememberedKept
  <2>3. CASE \E q : /\ Writes(board, Journal, q, board') /\ pending' = pending \o q
                    /\ IdsOf(Range(q)) = {}
    BY <1>6, <2>1, <2>3
  <2> QED BY <1>8, <2>1, <2>2, <2>3, AbandonWrites DEF Journaled
<1>9. CASE FlushTimerFires \/ VoteTimerFires
  BY <1>9, RememberedKept DEF FlushTimerFires, VoteTimerFires
<1>10. CASE DbCommits
  <2>1. /\ dbLog' = Journal /\ Journal' = Journal
        /\ db'.board.seq = board.seq /\ db'.board.status = board.status
    BY <1>10, CommitLogsJournal
  <2>2. alive /\ board' = board /\ recent' = recent /\ db'.recent = recent
    BY <1>10 DEF DbCommits, Snapshot
  <2>3. LastSeq(db.board)' = LastSeq(board) /\ LastSeq(board)' = LastSeq(board)
    BY <2>1, <2>2 DEF LastSeq
  <2> QED BY <2>1, <2>2, <2>3 DEF Remembered
<1>11. CASE FlushSucceeds
  <2>1. alive /\ committed /\ pending' = <<>> /\ UNCHANGED <<alive, board, db, dbLog, recent>>
    BY <1>11 DEF FlushSucceeds
  <2>2. Journal' = dbLog /\ Journal = dbLog
    BY <2>1 DEF Journal, Journaled, Range
  <2> QED BY <2>1, <2>2 DEF Remembered, LastSeq
<1>12. CASE FlushFails
  BY <1>12, RememberedKept DEF FlushFails
<1>13. CASE Crash
  BY <1>13 DEF Crash, Remembered
<1>14. CASE Hydrate
  <2>1. /\ UNCHANGED <<db, dbLog>> /\ recent' = db.recent
        /\ Remembers(db.recent, dbLog, LastSeq(db.board))
        /\ Faithful(db.board, dbLog) /\ LastSeq(db.board) \in Nat
    BY <1>14 DEF Hydrate, Journaled, Counted, Remembered
  <2>2. /\ IdsOf(Range(pending')) = {}
        /\ LastSeq(board') \in Nat /\ LastSeq(db.board) <= LastSeq(board')
    <3>1. CASE pending' = <<>> /\ board' = db.board
      <4>1. Range(<<>>) = {} /\ IdsOf({}) = {}
        BY DEF Range, IdsOf
      <4> QED BY <2>1, <3>1, <4>1
    <3>2. CASE Writes(db.board, dbLog, pending', board') /\ IdsOf(Range(pending')) = {}
      <4>1. Len(pending') \in Nat /\ LastSeq(board') = LastSeq(db.board) + Len(pending')
        BY <3>2 DEF Writes
      <4> QED BY <2>1, <3>2, <4>1
    <3> QED BY <1>14, <2>1, <3>1, <3>2, HydrateWrites
  <2>3. Remembers(recent', dbLog \cup Range(pending'), LastSeq(board'))
    BY <2>1, <2>2, JournalSeqs, RemembersMore
  <2> QED BY <2>1, <2>3 DEF Remembered, Journal, LastSeq
<1> QED BY <1>1, <1>2, <1>3, <1>4, <1>5, <1>7, <1>8, <1>9, <1>10, <1>11, <1>12, <1>13, <1>14
        DEF Next, Environment, Actor, Failures

JInv == IInv /\ Journaled /\ Counted /\ Tailed /\ Timed

LEMMA InitJInv == Init => JInv
<1>1. Init => Counted
  BY DEF Init, Counted, LastSeq, EmptyBoard
<1> QED BY <1>1, InitSound, InitOrdered, InitJournaled, InitTailed, InitTimed DEF JInv, IInv

LEMMA NextJInv == JInv /\ [Next]_vars => JInv'
<1>1. ASSUME JInv, Next PROVE JInv'
  <2>1. IInv'
    BY <1>1, SoundStep, OrderedStep DEF JInv, IInv
  <2>2. Journaled' /\ Counted' /\ Timed'
    BY <1>1, JournaledStep, CountedStep, TimedStep DEF JInv, IInv
  <2>3. Tailed'
    BY <1>1, <2>1, TailedStep DEF JInv, IInv
  <2> QED BY <2>1, <2>2, <2>3 DEF JInv
<1>2. ASSUME JInv, UNCHANGED vars PROVE JInv'
  <2>1. /\ UNCHANGED <<alive, board, left, voteTimer, pending, mailbox, awaiting, online>>
        /\ UNCHANGED <<db, dbLog, committed, told, terminals, answered, faults>>
    BY <1>2 DEF vars, history
  <2>2. IInv'
    BY <1>2, <2>1, OrderedKept DEF JInv, IInv, Sound
  <2>3. Journaled' /\ Tailed'
    BY <1>2, <2>1, JournaledKept, TailedKept DEF JInv
  <2>4. Counted' /\ Timed'
    BY <1>2, <2>1 DEF JInv, Counted, Timed
  <2> QED BY <2>2, <2>3, <2>4 DEF JInv
<1> QED BY <1>1, <1>2

\* The log never parts from the row, nor the buffer from what is in memory.
THEOREM JournalInvariance == Spec => []JInv
BY InitJInv, NextJInv, PTL DEF Spec

\* PROTOCOL 10: whatever happened before, a restart included, the open vote of a
\* live game has a deadline and the timer or the task that closes it.
THEOREM OpenVotesAreTimed == Spec => []OpenVoteIsTimed
<1>1. JInv => OpenVoteIsTimed
  BY DEF JInv, Timed, Times, OpenVoteIsTimed
<1> QED BY <1>1, JournalInvariance, PTL

\* INV-5: without failed flushes, what sockets were told and a hard kill would take
\* back is at most FlushThreshold + 2 events, whatever the threshold.
THEOREM LostTailStaysBounded == Spec => []LostTailIsBounded
<1>1. JInv => LostTailIsBounded
  <2> SUFFICES ASSUME JInv, alive, faults = 0 PROVE told - db.board.seq <= FlushThreshold + 2
    BY DEF LostTailIsBounded
  <2>1. FlushThreshold \in Nat
    BY ActorAssumption
  <2>2. /\ told \in Nat /\ (told <= LastSeq(board) \/ told <= db.board.seq)
        /\ LastSeq(board) <= LastSeq(db.board) + Len(pending)
        /\ Len(pending) <= FlushThreshold + 2
    BY DEF JInv, Tailed
  <2>3. /\ LastSeq(board) \in Int /\ LastSeq(db.board) \in Int /\ db.board.seq \in Nat
        /\ LastSeq(db.board) <= db.board.seq
    BY LastSeqIsInt DEF JInv, IInv, Sound, GoodRow
  <2>4. Len(pending) \in Nat
    BY DEF JInv, Journaled
  <2> QED BY <2>1, <2>2, <2>3, <2>4
<1> QED BY <1>1, JournalInvariance, PTL

\* INV-5, what RowAndLogAgree says of seqs, letters and boards: the log holds one
\* event for each seq the snapshot consumed, and its last writes are the letters.
RowIsItsLog ==
    /\ {e.seq : e \in dbLog} = LoggedSeqs(db.board)
    /\ Cardinality(dbLog) = Cardinality(LoggedSeqs(db.board))
    /\ ReplayedCells(dbLog) = db.board.cells
    /\ GoodBoard(db.board) /\ GoodBoard(board)

LEMMA JInvAgrees == JInv => RowIsItsLog
<1>1. JInv => Faithful(db.board, dbLog) /\ db.board \in Boards /\ GoodBoard(db.board) /\ GoodBoard(board)
  BY DEF JInv, IInv, Sound, GoodRow, Journaled
<1>2. JInv => Cardinality(dbLog) = Cardinality(LoggedSeqs(db.board))
  BY <1>1, JournalSize
<1> QED BY <1>1, <1>2 DEF RowIsItsLog, Faithful

\* INV-5 for every capacity of the id memory.
THEOREM RowStaysItsLog == Spec => []RowIsItsLog
BY JInvAgrees, JournalInvariance, PTL

\* INV-5 in full: the snapshot is its log, and no command sent again, whatever
\* restart lies between, is journaled within RecentLimit seqs of itself.
THEOREM RowAndLogStayOne == Spec => []RowAndLogAgree
<1>1. JInv /\ Remembered /\ [Next]_vars => Remembered'
  <2>1. ASSUME JInv, Remembered, Next PROVE Remembered'
    BY <2>1, RememberedStep DEF JInv, IInv
  <2>2. ASSUME Remembered, UNCHANGED vars PROVE Remembered'
    BY <2>2, RememberedKept DEF vars
  <2> QED BY <2>1, <2>2
<1>2. JInv /\ Remembered => RowAndLogAgree
  <2> SUFFICES ASSUME JInv, Remembered PROVE RowAndLogAgree
    OBVIOUS
  <2>1. dbLog \subseteq Events /\ \A e \in IdsOf(dbLog) : e.seq \in 1..LastSeq(db.board)
    BY JournalSeqs DEF JInv, Journaled, Faithful
  <2>2. ASSUME NEW e \in IdsOf(dbLog), NEW f \in IdsOf(dbLog), e.id = f.id, e.seq < f.seq
        PROVE  f.seq - e.seq > RecentLimit
    <3>1. RecentLimit < f.seq - e.seq /\ RecentLimit \in Nat /\ e.seq \in Int /\ f.seq \in Int
      BY <2>1, <2>2, ActorAssumption DEF Remembered, Remembers
    <3> QED BY <3>1
  <2> QED BY <2>2, JInvAgrees DEF RowAndLogAgree, RowIsItsLog
<1> QED BY <1>1, <1>2, InitRemembered, JournalInvariance, PTL DEF Spec

-----------------------------------------------------------------------------
(* The actor implements the service's promise.                             *)

\* A journal in order: the event of seq i at place i.
LEMMA InOrderOfFaithful ==
    ASSUME NEW b \in Boards, NEW J, Faithful(b, J), LastSeq(b) \in Nat
    PROVE  /\ InOrder(J) \in Seq(Events) /\ Len(InOrder(J)) = LastSeq(b)
           /\ \A i \in 1..LastSeq(b) : InOrder(J)[i] \in J /\ InOrder(J)[i].seq = i
           /\ Cardinality(J) = LastSeq(b)
<1> DEFINE n == LastSeq(b)
           s == [i \in 1..n |-> CHOOSE e \in J : e.seq = i]
<1>1. {e.seq : e \in J} = 1..n /\ J \subseteq Events
  BY DEF Faithful, LoggedSeqs, LastSeq
<1>2. n \in Nat
  OBVIOUS
<1> HIDE DEF n
<1>3. Cardinality(1..n) = n
  <2>1. n \in Int
    BY <1>2
  <2>2. Cardinality(1..n) = IF 1 > n THEN 0 ELSE n - 1 + 1
    BY <2>1, 1 \in Int, FS_Interval
  <2> QED BY <1>2, <2>2
<1>4. InOrder(J) = s
  BY <1>1, <1>3 DEF InOrder
<1>5. \A i \in 1..n : s[i] \in J /\ s[i].seq = i
  BY <1>1
<1>6. s \in Seq(Events) /\ Len(s) = n
  BY <1>1, <1>2, <1>5
<1>7. Cardinality(J) = n
  <2>1. LoggedSeqs(b) = 1..n
    BY DEF LoggedSeqs, LastSeq, n
  <2> QED BY <1>3, <2>1, JournalSize
<1> HIDE DEF s
<1> QED BY <1>4, <1>5, <1>6, <1>7 DEF n

\* More events put a journal behind the one there was.
LEMMA InOrderExtends ==
    ASSUME NEW b \in Boards, NEW J, Faithful(b, J), LastSeq(b) \in Nat,
           NEW d \in Boards, NEW K, Faithful(d, K), LastSeq(d) \in Nat, J \subseteq K
    PROVE  /\ Len(InOrder(J)) <= Len(InOrder(K))
           /\ SubSeq(InOrder(K), 1, Len(InOrder(J))) = InOrder(J)
<1> DEFINE s == InOrder(J)
           t == InOrder(K)
           n == LastSeq(b)
           m == LastSeq(d)
<1>1. /\ s \in Seq(Events) /\ Len(s) = n
      /\ \A i \in 1..n : s[i] \in J /\ s[i].seq = i
  BY InOrderOfFaithful
<1>2. /\ t \in Seq(Events) /\ Len(t) = m
      /\ \A i \in 1..m : t[i] \in K /\ t[i].seq = i
  BY InOrderOfFaithful
<1>3. 1..n \subseteq 1..m
  <2>1. {e.seq : e \in J} = 1..n /\ {e.seq : e \in K} = 1..m
    BY DEF Faithful, LoggedSeqs, LastSeq
  <2> QED BY <2>1
<1>4. n \in Nat /\ m \in Nat
  OBVIOUS
<1>5. \A e, f \in K : e.seq = f.seq => e = f
  BY DEF Faithful
<1> HIDE DEF s, t, n, m
<1>6. n <= m
  <2>1. CASE n = 0
    BY <1>4, <2>1
  <2>2. CASE n # 0
    <3>1. n \in 1..n
      BY <1>4, <2>2
    <3> QED BY <1>3, <1>4, <3>1
  <2> QED BY <2>1, <2>2
<1>7. \A i \in 1..n : t[i] = s[i]
  BY <1>1, <1>2, <1>3, <1>5
<1>8. SubSeq(t, 1, n) = s
  BY <1>1, <1>2, <1>4, <1>6, <1>7
<1> QED BY <1>1, <1>2, <1>6, <1>8 DEF s, t

LEMMA InOrderOfNone == InOrder({}) = <<>>
<1>1. {e.seq : e \in {}} = {} /\ Cardinality({}) = 0
  BY FS_EmptySet
<1>2. InOrder({}) = [i \in 1..0 |-> CHOOSE e \in {} : e.seq = i]
  BY <1>1 DEF InOrder
<1>3. 1..0 = {}
  OBVIOUS
<1> QED BY <1>2, <1>3

\* What the promise calls the journal and the status.
ServedEvents == IF alive THEN Journal ELSE dbLog
ServedBoard == IF alive THEN board ELSE db.board

Served ==
    /\ ServedBoard \in Boards /\ Faithful(ServedBoard, ServedEvents)
    /\ LastSeq(ServedBoard) \in Nat
    /\ db.board \in Boards /\ Faithful(db.board, dbLog) /\ LastSeq(db.board) \in Nat
    /\ dbLog \subseteq ServedEvents

LEMMA JInvServes == JInv => Served
BY DEF JInv, IInv, Sound, GoodRow, Journaled, Counted, ServedBoard, ServedEvents, Journal, Served

\* The abstract state, named once.
LEMMA PromiseState ==
    /\ (IF alive THEN Journal ELSE dbLog) = ServedEvents
    /\ (IF alive THEN board.status ELSE db.board.status) = ServedBoard.status
    /\ (IF alive' THEN Journal' ELSE dbLog') = ServedEvents'
    /\ (IF alive' THEN board'.status ELSE db'.board.status) = ServedBoard'.status
BY DEF ServedEvents, ServedBoard

LEMMA InitPromise == Init => Promise!Init
<1> SUFFICES ASSUME Init PROVE Promise!Init
  OBVIOUS
<1>1. /\ alive /\ pending = <<>> /\ dbLog = {} /\ board = EmptyBoard /\ db.board = EmptyBoard
      /\ terminals = <<>>
  BY DEF Init
<1>2. Journal = {}
  BY <1>1 DEF Journal, Range
<1>3. Cardinality({}) = 0 /\ Len(<<>>) = 0
  BY FS_EmptySet
<1>4. EmptyBoard.status = "ongoing"
  BY DEF EmptyBoard
<1> QED BY <1>1, <1>2, <1>3, <1>4, InOrderOfNone DEF Promise!Init

\* Nothing the promise speaks of changes.
LEMMA PromiseStutters ==
    ASSUME ServedEvents' = ServedEvents, ServedBoard'.status = ServedBoard.status,
           dbLog' = dbLog, db'.board.status = db.board.status, terminals' = terminals
    PROVE  UNCHANGED Promise!gameVars
BY PromiseState DEF Promise!gameVars

\* An ongoing game whose journal grows.
LEMMA PromiseAccepts ==
    ASSUME Served, Served', ServedBoard.status = "ongoing",
           ServedEvents \subseteq ServedEvents',
           dbLog' = dbLog, db'.board.status = db.board.status, terminals' = terminals
    PROVE  Promise!Accept
<1>1. /\ InOrder(ServedEvents') \in Seq(Events)
      /\ Len(InOrder(ServedEvents)) <= Len(InOrder(ServedEvents'))
      /\ SubSeq(InOrder(ServedEvents'), 1, Len(InOrder(ServedEvents))) = InOrder(ServedEvents)
  <2>1. /\ ServedBoard \in Boards /\ Faithful(ServedBoard, ServedEvents)
        /\ LastSeq(ServedBoard) \in Nat
    BY DEF Served
  <2>2. /\ ServedBoard' \in Boards /\ Faithful(ServedBoard', ServedEvents')
        /\ LastSeq(ServedBoard') \in Nat
    BY DEF Served
  <2> QED BY <2>1, <2>2, InOrderOfFaithful, InOrderExtends
<1>2. ServedBoard'.status \in {"ongoing", "completed", "abandoned"}
  <2>1. ServedBoard' \in Boards
    BY DEF Served
  <2> QED BY <2>1 DEF Boards, Statuses
<1> QED BY <1>1, <1>2, PromiseState DEF Promise!Accept

LEMMA PromiseStep == ASSUME JInv, Served, Served', Next PROVE Promise!Next \/ UNCHANGED Promise!gameVars
<1> USE DEF memory, durable, history, counters
<1>0. /\ alive => pending \in Seq(Events) /\ Faithful(board, Journal)
      /\ Faithful(db.board, dbLog) /\ Sound /\ Ordered /\ Journaled
  BY DEF JInv, IInv, Journaled
<1> DEFINE Done == Promise!Next \/ UNCHANGED Promise!gameVars
<1>1. ASSUME UNCHANGED <<alive, board, pending, dbLog, terminals>>,
             db'.board.status = db.board.status, alive \/ db'.board = db.board
      PROVE  Done
  BY <1>1, PromiseStutters DEF ServedEvents, ServedBoard, Journal
<1>2. ASSUME alive, UNCHANGED <<alive, db, dbLog, terminals>>,
             \/ board' = board /\ pending' = pending
             \/ \E q : Writes(board, Journal, q, board') /\ pending' = pending \o q
      PROVE  Done
  <2>1. CASE board' = board /\ pending' = pending
    BY <1>1, <1>2, <2>1
  <2>2. CASE \E q : Writes(board, Journal, q, board') /\ pending' = pending \o q
    <3>1. PICK q : Writes(board, Journal, q, board') /\ pending' = pending \o q
      BY <2>2
    <3>2. board.status = "ongoing" /\ q \in Seq(Events)
      BY <3>1 DEF Writes
    <3>3. Range(pending') = Range(pending) \cup Range(q)
      BY <1>0, <1>2, <3>1, <3>2, RangeOfConcat
    <3>4. ServedEvents \subseteq ServedEvents' /\ ServedBoard.status = "ongoing"
      BY <1>2, <3>2, <3>3 DEF ServedEvents, ServedBoard, Journal
    <3>5. Promise!Accept
      BY <1>2, <3>4, PromiseAccepts
    <3> QED BY <3>5 DEF Promise!Next
  <2> QED BY <1>2, <2>1, <2>2
<1>3. CASE Submit \/ Abandon \/ Drain \/ FlushTimerFires \/ VoteTimerFires \/ RunFlush
  BY <1>1, <1>3 DEF Submit, Abandon, Drain, FlushTimerFires, VoteTimerFires, RunFlush
<1>4. CASE Tick
  <2>1. db'.board = db.board
    BY <1>0, <1>4 DEF Tick, Sound, GoodRow
  <2> QED BY <1>1, <1>4, <2>1 DEF Tick
<1>5. ASSUME NEW u \in Users, Connect(u) \/ Disconnect(u) PROVE Done
  BY <1>1, <1>5 DEF Connect, Disconnect
<1>6. CASE RunCommand
  <2>1. alive /\ UNCHANGED <<alive, db, dbLog>>
    BY <1>6 DEF RunCommand, Dequeue
  <2>2. UNCHANGED terminals
    BY <1>6 DEF RunCommand, Dropped
  <2>3. \/ board' = board /\ pending' = pending
        \/ \E q : Writes(board, Journal, q, board') /\ pending' = pending \o q
    BY <1>0, <1>6, <2>1, CommandWrites DEF Took
  <2> QED BY <1>2, <2>1, <2>2, <2>3
<1>7. CASE RunExpiry
  <2>1. alive /\ UNCHANGED <<alive, db, dbLog, terminals>>
    BY <1>7 DEF RunExpiry, Dequeue
  <2>2. \/ board' = board /\ pending' = pending
        \/ \E q : Writes(board, Journal, q, board') /\ pending' = pending \o q
    BY <1>0, <1>7, <2>1, ExpiryWrites
  <2> QED BY <1>2, <2>1, <2>2
<1>8. CASE RunAbandon
  <2>1. alive /\ UNCHANGED <<alive, db, dbLog, terminals>>
    BY <1>8 DEF RunAbandon, Dequeue
  <2>2. \/ board' = board /\ pending' = pending
        \/ \E q : Writes(board, Journal, q, board') /\ pending' = pending \o q
    BY <1>0, <1>8, <2>1, AbandonWrites
  <2> QED BY <1>2, <2>1, <2>2
<1>9. CASE DbCommits
  <2>1. /\ dbLog' = Journal /\ Journal' = Journal
        /\ db'.board.status = board.status
    BY <1>0, <1>9, CommitLogsJournal
  <2>2. alive /\ UNCHANGED <<alive, board, terminals>>
    BY <1>9 DEF DbCommits
  <2>3. /\ ServedEvents' = Journal /\ ServedEvents = Journal
        /\ ServedBoard' = board /\ ServedBoard = board
    BY <2>1, <2>2 DEF ServedEvents, ServedBoard
  <2>4. Len(InOrder(ServedEvents)) = Cardinality(ServedEvents)
    BY InOrderOfFaithful DEF Served
  <2>5. Promise!Persist
    BY <2>1, <2>2, <2>3, <2>4, PromiseState DEF Promise!Persist
  <2> QED BY <2>5 DEF Promise!Next
<1>10. CASE FlushSucceeds
  <2>1. /\ alive /\ committed /\ pending' = <<>> /\ UNCHANGED <<alive, board, db, dbLog>>
        /\ terminals' = terminals \o TerminalBroadcast
    BY <1>10 DEF FlushSucceeds
  <2>2. Journal' = dbLog /\ Journal = dbLog
    BY <1>0, <2>1 DEF Journal, Journaled, Range
  <2>3. ServedEvents' = ServedEvents /\ ServedBoard' = ServedBoard
    BY <2>1, <2>2 DEF ServedEvents, ServedBoard
  <2>4. /\ awaiting \in {"flush", "terminal", "abandon"}
        /\ db.board.status = board.status
    BY <1>0, <2>1 DEF Ordered
  <2>5. CASE awaiting = "flush"
    <3>1. TerminalBroadcast = <<>>
      BY <2>5 DEF TerminalBroadcast
    <3>2. terminals \o <<>> = terminals
      <4>1. terminals \in Seq({"gameCompleted", "gameAbandoned"})
        <5>1. terminals \in {<<>>, << "gameCompleted" >>, << "gameAbandoned" >>}
          BY <1>0 DEF Ordered, Announced
        <5>2. {<<>>, << "gameCompleted" >>, << "gameAbandoned" >>}
                \subseteq Seq({"gameCompleted", "gameAbandoned"})
          OBVIOUS
        <5> QED BY <5>1, <5>2
      <4> QED BY <4>1
    <3> QED BY <2>1, <2>3, <3>1, <3>2, PromiseStutters
  <2>6. CASE awaiting \in {"terminal", "abandon"}
    <3>1. terminals = <<>> /\ db.board.status # "ongoing"
      BY <1>0, <2>1, <2>4, <2>6 DEF Ordered, EndInFlight
    <3>2. TerminalBroadcast = << "gameCompleted" >> \/ TerminalBroadcast = << "gameAbandoned" >>
      BY <2>6 DEF TerminalBroadcast
    <3>3. Len(terminals) = 0 /\ Len(terminals') = 1
      BY <2>1, <3>1, <3>2
    <3>4. Promise!Announce
      BY <2>1, <2>3, <3>1, <3>3, PromiseState DEF Promise!Announce
    <3> QED BY <3>4 DEF Promise!Next
  <2> QED BY <2>4, <2>5, <2>6
<1>11. CASE FlushFails
  BY <1>1, <1>11 DEF FlushFails
<1>12. CASE Crash
  <2>1. alive /\ ~ alive' /\ UNCHANGED <<db, dbLog, terminals>>
    BY <1>12 DEF Crash
  <2>2. ServedEvents' = dbLog /\ ServedBoard' = db.board
    BY <2>1 DEF ServedEvents, ServedBoard
  <2>3. /\ Len(InOrder(dbLog)) = Cardinality(dbLog)
        /\ SubSeq(InOrder(ServedEvents), 1, Len(InOrder(dbLog))) = InOrder(dbLog)
    BY InOrderOfFaithful, InOrderExtends DEF Served
  <2>4. Promise!Lose
    BY <2>1, <2>2, <2>3, PromiseState DEF Promise!Lose, Promise!Kept
  <2> QED BY <2>4 DEF Promise!Next
<1>13. CASE Hydrate
  <2>1. ~ alive /\ alive' /\ UNCHANGED <<db, dbLog, terminals>>
    BY <1>13 DEF Hydrate
  <2>2. ServedEvents = dbLog /\ ServedBoard = db.board
    BY <2>1 DEF ServedEvents, ServedBoard
  <2>3. ServedEvents' = dbLog \cup Range(pending') /\ ServedBoard' = board'
    BY <2>1 DEF ServedEvents, ServedBoard, Journal
  <2>4. CASE board' = db.board /\ pending' = <<>>
    <3>1. ServedEvents' = ServedEvents
      BY <2>2, <2>3, <2>4 DEF Range
    <3> QED BY <2>1, <2>2, <2>3, <2>4, <3>1, PromiseStutters
  <2>5. CASE Writes(db.board, dbLog, pending', board')
    <3>1. db.board.status = "ongoing"
      BY <2>5 DEF Writes
    <3>2. Promise!Accept
      BY <2>1, <2>2, <2>3, <3>1, PromiseAccepts
    <3> QED BY <3>2 DEF Promise!Next
  <2> QED BY <1>0, <1>13, <2>4, <2>5, HydrateWrites
<1> QED BY <1>3, <1>4, <1>5, <1>6, <1>7, <1>8, <1>9, <1>10, <1>11, <1>12, <1>13
        DEF Next, Environment, Actor, Failures

\* The actor, its flushes, faults, crashes and restarts implement the service's
\* promise: each of its steps is a step of DurableGame or changes nothing there.
THEOREM ActorKeepsPromise == Spec => KeepsPromise
<1>1. Spec => [](JInv /\ Served)
  BY JInvServes, JournalInvariance, PTL
<1>2. JInv /\ Served /\ Served' /\ [Next]_vars => [Promise!Next]_(Promise!gameVars)
  <2>1. ASSUME JInv, Served, Served', Next PROVE Promise!Next \/ UNCHANGED Promise!gameVars
    BY <2>1, PromiseStep
  <2>2. ASSUME UNCHANGED vars PROVE UNCHANGED Promise!gameVars
    <3>1. UNCHANGED <<alive, board, pending, db, dbLog, terminals>>
      BY <2>2 DEF vars, history
    <3> QED BY <3>1, PromiseStutters DEF ServedEvents, ServedBoard, Journal
  <2> QED BY <2>1, <2>2
<1> QED BY <1>1, <1>2, InitPromise, PTL DEF Spec, KeepsPromise, Promise!Spec

-----------------------------------------------------------------------------
(* What the promise gives, whoever keeps it: a durable end is the one      *)
(* served and final, what was announced is durable, and no step takes back *)
(* a durable event.                                                        *)

\* The abstract state as five names.
pJournal == InOrder(IF alive THEN Journal ELSE dbLog)
pStatus == IF alive THEN board.status ELSE db.board.status
pDurable == Cardinality(dbLog)
pStored == db.board.status
pAnnounced == Len(terminals)

LEMMA PromiseSteps ==
    /\ Promise!Kept = SubSeq(pJournal, 1, pDurable)
    /\ Promise!Accept =>
           /\ pStatus = "ongoing" /\ pJournal' \in Seq(Events)
           /\ Len(pJournal) <= Len(pJournal')
              /\ SubSeq(pJournal', 1, Len(pJournal)) = pJournal
           /\ pStatus' \in {"ongoing", "completed", "abandoned"}
           /\ pDurable' = pDurable /\ pStored' = pStored /\ pAnnounced' = pAnnounced
    /\ Promise!Persist => pDurable' = Len(pJournal) /\ pStored' = pStatus
         /\ pJournal' = pJournal /\ pStatus' = pStatus /\ pAnnounced' = pAnnounced
    /\ Promise!Announce =>
           pStored # "ongoing" /\ pAnnounced = 0 /\ pAnnounced' = 1
           /\ pJournal' = pJournal /\ pStatus' = pStatus /\ pDurable' = pDurable
              /\ pStored' = pStored
    /\ Promise!Lose => pJournal' = SubSeq(pJournal, 1, pDurable) /\ pStatus' = pStored
         /\ pDurable' = pDurable /\ pStored' = pStored /\ pAnnounced' = pAnnounced
    /\ UNCHANGED Promise!gameVars => pJournal' = pJournal /\ pStatus' = pStatus
         /\ pDurable' = pDurable /\ pStored' = pStored /\ pAnnounced' = pAnnounced
BY DEF Promise!Kept, Promise!Accept, Promise!Persist, Promise!Announce, Promise!Lose,
       Promise!gameVars, pJournal, pStatus, pDurable, pStored, pAnnounced

LEMMA PromiseInit == Promise!Init => pJournal = <<>> /\ pDurable = 0
  /\ pStatus = "ongoing" /\ pStored = "ongoing" /\ pAnnounced = 0
BY DEF Promise!Init, pJournal, pStatus, pDurable, pStored, pAnnounced

LEMMA PromiseStates ==
    /\ Promise!TypeOK <=>
           /\ pJournal \in Seq(Events) /\ pDurable \in 0..Len(pJournal)
           /\ pStatus \in {"ongoing", "completed", "abandoned"}
           /\ pStored \in {"ongoing", "completed", "abandoned"} /\ pAnnounced \in 0..1
    /\ Promise!StoredIsServed <=>
           (pStored # "ongoing" => pStatus = pStored /\ pDurable = Len(pJournal))
    /\ Promise!AnnouncedIsStored <=> (pAnnounced = 1 => pStored # "ongoing")
BY DEF Promise!TypeOK, Promise!StoredIsServed, Promise!AnnouncedIsStored, pJournal,
       pStatus, pDurable, pStored, pAnnounced

PInv == Promise!TypeOK /\ Promise!StoredIsServed /\ Promise!AnnouncedIsStored

\* The durable part of a journal is a prefix of every extension of it.
LEMMA PrefixOfExtension ==
    ASSUME NEW S, NEW s \in Seq(S), NEW t \in Seq(S), NEW n \in 0..Len(s),
           Len(s) <= Len(t), SubSeq(t, 1, Len(s)) = s
    PROVE  SubSeq(t, 1, n) = SubSeq(s, 1, n)
<1>1. \A i \in 1..n : t[i] = s[i]
  <2>1. SUFFICES ASSUME NEW i \in 1..n PROVE t[i] = s[i]
    OBVIOUS
  <2>2. SubSeq(t, 1, Len(s))[i] = t[i]
    OBVIOUS
  <2>3. QED
    BY <2>2
<1>2. QED
  BY <1>1

\* Keeping the first n elements of the first n elements changes nothing.
LEMMA PrefixOfPrefix ==
    ASSUME NEW S, NEW s \in Seq(S), NEW n \in 0..Len(s)
    PROVE  /\ SubSeq(s, 1, n) \in Seq(S) /\ Len(SubSeq(s, 1, n)) = n
           /\ SubSeq(SubSeq(s, 1, n), 1, n) = SubSeq(s, 1, n)
           /\ n = Len(s) => SubSeq(s, 1, n) = s
OBVIOUS

\* What a step of the promise keeps, and what it never does to the durable part.
PStep ==
    /\ pDurable <= Len(pJournal') /\ pDurable <= pDurable'
       /\ SubSeq(pJournal', 1, pDurable) = SubSeq(pJournal, 1, pDurable)
    /\ pStored # "ongoing" => pJournal' = pJournal /\ pStatus' = pStatus
         /\ pStored' = pStored

LEMMA PromiseKeeps == ASSUME PInv, Promise!Next \/ UNCHANGED Promise!gameVars PROVE PInv' /\ PStep
<1>0. /\ pJournal \in Seq(Events) /\ pDurable \in 0..Len(pJournal)
      /\ pStatus \in {"ongoing", "completed", "abandoned"}
      /\ pStored \in {"ongoing", "completed", "abandoned"} /\ pAnnounced \in 0..1
      /\ (pStored # "ongoing" => pStatus = pStored /\ pDurable = Len(pJournal))
           /\ (pAnnounced = 1 => pStored # "ongoing")
  BY PromiseStates DEF PInv
<1> SUFFICES /\ pJournal' \in Seq(Events) /\ pDurable' \in 0..Len(pJournal')
             /\ pStatus' \in {"ongoing", "completed", "abandoned"}
             /\ pStored' \in {"ongoing", "completed", "abandoned"} /\ pAnnounced' \in 0..1
             /\ pStored' # "ongoing" => pStatus' = pStored' /\ pDurable' = Len(pJournal')
             /\ pAnnounced' = 1 => pStored' # "ongoing"
             /\ PStep
  <2>1. Promise!TypeOK' <=>
           /\ pJournal' \in Seq(Events) /\ pDurable' \in 0..Len(pJournal')
           /\ pStatus' \in {"ongoing", "completed", "abandoned"}
           /\ pStored' \in {"ongoing", "completed", "abandoned"} /\ pAnnounced' \in 0..1
    BY DEF Promise!TypeOK, pJournal, pStatus, pDurable, pStored, pAnnounced
  <2>2. Promise!StoredIsServed' <=> (pStored' # "ongoing" => pStatus' = pStored'
          /\ pDurable' = Len(pJournal'))
    BY DEF Promise!StoredIsServed, pJournal, pStatus, pDurable, pStored, pAnnounced
  <2>3. Promise!AnnouncedIsStored' <=> (pAnnounced' = 1 => pStored' # "ongoing")
    BY DEF Promise!AnnouncedIsStored, pJournal, pStatus, pDurable, pStored, pAnnounced
  <2> QED BY <2>1, <2>2, <2>3 DEF PInv
<1>1. CASE Promise!Accept
  <2>1. /\ pStatus = "ongoing" /\ pJournal' \in Seq(Events)
        /\ Len(pJournal) <= Len(pJournal') /\ SubSeq(pJournal', 1, Len(pJournal)) = pJournal
        /\ pStatus' \in {"ongoing", "completed", "abandoned"}
        /\ pDurable' = pDurable /\ pStored' = pStored /\ pAnnounced' = pAnnounced
    BY <1>1, PromiseSteps
  <2>2. SubSeq(pJournal', 1, pDurable) = SubSeq(pJournal, 1, pDurable)
    BY <1>0, <2>1, PrefixOfExtension
  <2>3. pStored = "ongoing"
    BY <1>0, <2>1
  <2>4. pJournal \in Seq(Events) /\ pJournal' \in Seq(Events)
    BY <1>0, <2>1
  <2>5. Len(pJournal) \in Nat /\ Len(pJournal') \in Nat
    BY <2>4
  <2>6. Len(pJournal) <= Len(pJournal') /\ pDurable' = pDurable /\ pDurable \in 0..Len(pJournal)
    BY <1>0, <2>1
  <2>7. pDurable' \in 0..Len(pJournal') /\ pDurable <= Len(pJournal') /\ pDurable <= pDurable'
    BY <2>5, <2>6
  <2>8. /\ pStatus' \in {"ongoing", "completed", "abandoned"} /\ pStored' = pStored
        /\ pAnnounced' = pAnnounced
    BY <2>1
  <2>9. pAnnounced' \in 0..1 /\ pAnnounced' # 1
    BY <1>0, <2>3, <2>8
  <2> QED BY <2>2, <2>3, <2>4, <2>7, <2>8, <2>9 DEF PStep
<1>2. CASE Promise!Persist
  <2>1. pDurable' = Len(pJournal) /\ pStored' = pStatus /\ pJournal' = pJournal
        /\ pStatus' = pStatus /\ pAnnounced' = pAnnounced
    BY <1>2, PromiseSteps
  <2> QED BY <1>0, <2>1 DEF PStep
<1>3. CASE Promise!Announce
  <2>1. pStored # "ongoing" /\ pAnnounced' = 1 /\ pJournal' = pJournal
        /\ pStatus' = pStatus /\ pDurable' = pDurable /\ pStored' = pStored
    BY <1>3, PromiseSteps
  <2> QED BY <1>0, <2>1 DEF PStep
<1>4. CASE Promise!Lose
  <2>1. pJournal' = SubSeq(pJournal, 1, pDurable) /\ pStatus' = pStored
        /\ pDurable' = pDurable /\ pStored' = pStored /\ pAnnounced' = pAnnounced
    BY <1>4, PromiseSteps
  <2>2. pJournal' \in Seq(Events) /\ Len(pJournal') = pDurable
        /\ SubSeq(pJournal', 1, pDurable) = SubSeq(pJournal, 1, pDurable)
        /\ (pDurable = Len(pJournal) => pJournal' = pJournal)
    BY <1>0, <2>1, PrefixOfPrefix
  <2> QED BY <1>0, <2>1, <2>2 DEF PStep
<1>5. CASE UNCHANGED Promise!gameVars
  <2>1. pJournal' = pJournal /\ pStatus' = pStatus /\ pDurable' = pDurable
        /\ pStored' = pStored /\ pAnnounced' = pAnnounced
    BY <1>5, PromiseSteps
  <2> QED BY <1>0, <2>1 DEF PStep
<1> QED BY <1>1, <1>2, <1>3, <1>4, <1>5 DEF Promise!Next

LEMMA PromiseInvariance == Promise!Spec => []PInv
<1>1. Promise!Init => PInv
  <2> SUFFICES ASSUME Promise!Init PROVE PInv
    OBVIOUS
  <2>1. pJournal = <<>> /\ pDurable = 0 /\ pStatus = "ongoing" /\ pStored = "ongoing"
        /\ pAnnounced = 0
    BY PromiseInit
  <2>2. pJournal \in Seq(Events) /\ Len(pJournal) = 0
    BY <2>1
  <2> QED BY <2>1, <2>2, PromiseStates DEF PInv
<1>2. PInv /\ [Promise!Next]_(Promise!gameVars) => PInv'
  BY PromiseKeeps
<1> QED BY <1>1, <1>2, PTL DEF Promise!Spec

\* INV-3: what the actor announced is durable, and a durable end is the one it serves,
\* with nothing left to lose, through every fault, crash and restart.
THEOREM AnnouncedIsDurable == Spec => [](Promise!AnnouncedIsStored
  /\ Promise!StoredIsServed)
<1>1. PInv => Promise!AnnouncedIsStored /\ Promise!StoredIsServed
  BY DEF PInv
<1> QED BY <1>1, ActorKeepsPromise, PromiseInvariance, PTL DEF KeepsPromise

\* INV-5: no step of the actor, its database or a hard kill takes back or rewrites a
\* durable event.
THEOREM DurableNeverLost == Spec => Promise!DurableIsKept
<1>1. PInv /\ [Promise!Next]_(Promise!gameVars) =>
          [/\ pDurable <= Len(pJournal') /\ pDurable <= pDurable'
              /\ SubSeq(pJournal', 1, pDurable) = Promise!Kept]_(Promise!gameVars)
  BY PromiseKeeps, PromiseSteps DEF PStep
<1>2. Spec => [][/\ pDurable <= Len(pJournal') /\ pDurable <= pDurable'
                 /\ SubSeq(pJournal', 1, pDurable) = Promise!Kept]_(Promise!gameVars)
  BY <1>1, ActorKeepsPromise, PromiseInvariance, PTL DEF KeepsPromise, Promise!Spec
<1> QED BY <1>2 DEF Promise!DurableIsKept, pJournal, pDurable

\* INV-4: once durable, a terminal state and its journal are final.
THEOREM DurableEndIsFinal == Spec => Promise!StoredIsFinal
<1>1. PInv /\ [Promise!Next]_(Promise!gameVars) =>
          [pStored # "ongoing" => UNCHANGED <<pJournal, pStatus, pStored>>]_(Promise!gameVars)
  BY PromiseKeeps DEF PStep
<1>2. Spec => [][pStored # "ongoing" => UNCHANGED <<pJournal, pStatus, pStored>>]_(Promise!gameVars)
  BY <1>1, ActorKeepsPromise, PromiseInvariance, PTL DEF KeepsPromise, Promise!Spec
<1> QED BY <1>2 DEF Promise!StoredIsFinal, pJournal, pStatus, pStored

=============================================================================
