------------------------------- MODULE Engine -------------------------------
(***************************************************************************)
(* The pure game engine (packages/engine/src/reducer.ts, completion.ts):   *)
(* one command applied to one board state gives the next state, the        *)
(* sequenced events it produced and, when it was refused, the error code.  *)
(*                                                                         *)
(* A letter is a member of Values.  What a client typed is a member of     *)
(* Inputs and Normalized says which letter it denotes (NoValue when the    *)
(* charset check refuses it).  Which letters the comparator accepts at a   *)
(* solution cell (the whole answer or its first letter) is Accepted.  Who  *)
(* wrote a cell, and wall-clock stamps, are left out of the board.         *)
(***************************************************************************)
EXTENDS Integers, FiniteSets, Sequences

CONSTANTS
    Cells,          \* the playable cells of the grid
    SolutionCells,  \* the cells the solution names
    Targets,        \* the cell numbers a command may name, playable or not
    Values,         \* letters a cell can hold
    Inputs,         \* values as they arrive on the wire
    Normalized,     \* what normalizeValue makes of each input
    Accepted,       \* the letters the comparator accepts, per solution cell
    Users,
    CommandIds,
    NoValue,        \* null: an empty cell, or an input that is not a letter
    NoVote          \* null: no check vote is open

ASSUME EngineAssumption ==
    /\ IsFiniteSet(Cells) /\ Cells # {}
    /\ SolutionCells \subseteq Cells /\ Cells \subseteq Targets
    /\ NoValue \notin Values
    /\ Normalized \in [Inputs -> Values \cup {NoValue}]
    /\ Accepted \in [SolutionCells -> SUBSET Values]
    /\ IsFiniteSet(Users)

Statuses == {"ongoing", "completed", "abandoned"}

Votes == [openedSeq : Nat, by : Users, id : CommandIds,
          electorate : SUBSET Users, approvals : SUBSET Users,
          rejections : SUBSET Users]

ASSUME NoVoteAssumption == NoVote \notin Votes

MaybeVotes == Votes \cup {NoVote}

\* BoardState.  `firstFill` is the seq that set firstFillAt (0: null); `checks` is checkCount;
\* `marks` is checkedWrong; `vote` is checkVote.
Boards == [status : Statuses, cells : [Cells -> Values \cup {NoValue}],
           filled : Int, seq : Nat, firstFill : Nat,
           marks : SUBSET Cells, checks : Nat, vote : MaybeVotes]

EmptyBoard ==
    [status |-> "ongoing", cells |-> [c \in Cells |-> NoValue], filled |-> 0,
     seq |-> 0, firstFill |-> 0, marks |-> {}, checks |-> 0, vote |-> NoVote]

-----------------------------------------------------------------------------
(* Commands.  Ballots name a vote by the seq it opened at; a proposal       *)
(* carries its electorate, frozen by the caller, with the proposer in it.   *)

CellCommands ==
    [type : {"placeLetter"}, cell : Targets, value : Inputs, id : CommandIds]
      \cup [type : {"clearCell"}, cell : Targets, id : CommandIds]
Proposals ==
    {p \in [type : {"checkPuzzle"}, by : Users, id : CommandIds,
            electorate : SUBSET Users] : p.by \in p.electorate}
Ballots ==
    [type : {"castCheckVote"}, by : Users, id : CommandIds, voteSeq : Nat,
     approve : BOOLEAN]
Expiry == [type |-> "expireCheckVote"]
Commands == CellCommands \cup Proposals \cup Ballots \cup {Expiry}

-----------------------------------------------------------------------------
(* Results: what every engine entry point returns.                         *)

Reject(b, code) == [state |-> b, events |-> <<>>, error |-> code]
Accept(b, events) == [state |-> b, events |-> events, error |-> "none"]

-----------------------------------------------------------------------------
(* Events.                                                                 *)

CellSet(seq, cell, value, id) ==
    [type |-> "cellSet", seq |-> seq, cell |-> cell, value |-> value, id |-> id]
VoteOpened(seq, vote) ==
    [type |-> "checkVoteOpened", seq |-> seq, by |-> vote.by,
     electorate |-> vote.electorate, id |-> vote.id]
VoteCast(seq, voteSeq, by, approve) ==
    [type |-> "checkVoteCast", seq |-> seq, voteSeq |-> voteSeq, by |-> by,
     approve |-> approve]
VoteClosed(seq, voteSeq, outcome, reason) ==
    [type |-> "checkVoteClosed", seq |-> seq, voteSeq |-> voteSeq,
     outcome |-> outcome, reason |-> reason]
PuzzleChecked(seq, wrong, count, by, id) ==
    [type |-> "puzzleChecked", seq |-> seq, wrongCells |-> wrong,
     checkCount |-> count, by |-> by, id |-> id]
GameCompleted(seq) == [type |-> "gameCompleted", seq |-> seq]

Outcomes == {"passed", "failed", "cancelled"}
Reasons == {"none", "REJECTED", "EXPIRED", "GRID_BROKEN", "TERMINAL"}

Events ==
    [type : {"cellSet"}, seq : Nat, cell : Cells, value : Values \cup {NoValue},
     id : CommandIds]
      \cup [type : {"checkVoteOpened"}, seq : Nat, by : Users,
            electorate : SUBSET Users, id : CommandIds]
      \cup [type : {"checkVoteCast"}, seq : Nat, voteSeq : Nat, by : Users,
            approve : BOOLEAN]
      \cup [type : {"checkVoteClosed"}, seq : Nat, voteSeq : Nat,
            outcome : Outcomes, reason : Reasons]
      \cup [type : {"puzzleChecked"}, seq : Nat, wrongCells : SUBSET Cells,
            checkCount : Nat, by : Users, id : CommandIds]
      \cup [type : {"gameCompleted"}, seq : Nat]

-----------------------------------------------------------------------------
(* reducer.ts *)

ValueOf(cmd) == IF cmd.type = "placeLetter" THEN Normalized[cmd.value] ELSE NoValue

\* Mutant: an overwrite counts as one more filled cell.
Write_CountsOverwrites(b, c, v) ==
    [b EXCEPT !.cells[c] = v, !.seq = @ + 1, !.firstFill = IF @ = 0 /\ v # NoValue THEN b.seq + 1 ELSE @,
              !.filled = IF v # NoValue THEN @ + 1 ELSE @ - 1,
              !.marks = IF v # b.cells[c] THEN @ \ {c} ELSE @]

\* Mutant: a mark survives a change of its cell's value.
Write_KeepsMarks(b, c, v) ==
    [b EXCEPT !.cells[c] = v, !.seq = @ + 1, !.firstFill = IF @ = 0 /\ v # NoValue THEN b.seq + 1 ELSE @,
              !.filled = @ + (IF v # NoValue THEN 1 ELSE 0)
                           - (IF b.cells[c] # NoValue THEN 1 ELSE 0)]

\* Mutant: any write clears the mark, a same-value write included.
Write_DropsMarks(b, c, v) ==
    [Write_KeepsMarks(b, c, v) EXCEPT !.marks = @ \ {c}]

\* The next state of an accepted cell write of v at c (a placeLetter exactly when
\* v is a letter).
Write(b, c, v) ==
    [b EXCEPT !.cells[c] = v,
              !.seq = @ + 1,
              !.filled = @ + (IF v # NoValue THEN 1 ELSE 0)
                           - (IF b.cells[c] # NoValue THEN 1 ELSE 0),
              !.firstFill = IF @ = 0 /\ v # NoValue THEN b.seq + 1 ELSE @,
              !.marks = IF v # b.cells[c] THEN @ \ {c} ELSE @]

\* Mutant: the terminal gate is missing.
Reduce_IgnoresTerminal(b, cmd) ==
    IF cmd.cell \notin Cells THEN Reject(b, "INVALID_CELL")
    ELSE IF cmd.type = "placeLetter" /\ ValueOf(cmd) = NoValue
         THEN Reject(b, "INVALID_VALUE")
    ELSE Accept(Write(b, cmd.cell, ValueOf(cmd)),
                << CellSet(b.seq + 1, cmd.cell, ValueOf(cmd), cmd.id) >>)

\* Gates in protocol order: terminal state, then cell, then value.
Reduce(b, cmd) ==
    IF b.status # "ongoing" THEN Reject(b, "GAME_NOT_ONGOING")
    ELSE IF cmd.cell \notin Cells THEN Reject(b, "INVALID_CELL")
    ELSE IF cmd.type = "placeLetter" /\ ValueOf(cmd) = NoValue
         THEN Reject(b, "INVALID_VALUE")
    ELSE Accept(Write(b, cmd.cell, ValueOf(cmd)),
                << CellSet(b.seq + 1, cmd.cell, ValueOf(cmd), cmd.id) >>)

-----------------------------------------------------------------------------
(* completion.ts: completion and the check vote *)

IsFull(b) == b.filled = Cardinality(Cells)

BoardIsCorrect(b) ==
    \A c \in SolutionCells : b.cells[c] # NoValue /\ b.cells[c] \in Accepted[c]

ComparatorFailures(b) ==
    {c \in SolutionCells : b.cells[c] = NoValue \/ b.cells[c] \notin Accepted[c]}

\* Mutant: half of the electorate is enough.
Needed_Half(electorate) == (Cardinality(electorate) + 1) \div 2

Needed(electorate) == Cardinality(electorate) \div 2 + 1

\* Mutant: the check is announced before the close that accepted it.
ClosePassed_ChecksFirst(b, vote) ==
    Accept([b EXCEPT !.seq = @ + 2, !.marks = ComparatorFailures(b),
                     !.checks = @ + 1, !.vote = NoVote],
           << PuzzleChecked(b.seq + 1, ComparatorFailures(b), b.checks + 1,
                            vote.by, vote.id),
              VoteClosed(b.seq + 2, vote.openedSeq, "passed", "none") >>)

\* A close that passes is the accepted check: the marks are recomputed against
\* the board at close time and replace any standing set.
ClosePassed(b, vote) ==
    Accept([b EXCEPT !.seq = @ + 2, !.marks = ComparatorFailures(b),
                     !.checks = @ + 1, !.vote = NoVote],
           << VoteClosed(b.seq + 1, vote.openedSeq, "passed", "none"),
              PuzzleChecked(b.seq + 2, ComparatorFailures(b), b.checks + 1,
                            vote.by, vote.id) >>)

\* Mutant: the close takes a seq on the wire and none on the board.
CloseFailed_NoSeq(b, vote, outcome, reason) ==
    Accept([b EXCEPT !.vote = NoVote],
           << VoteClosed(b.seq + 1, vote.openedSeq, outcome, reason) >>)

CloseFailed(b, vote, outcome, reason) ==
    Accept([b EXCEPT !.seq = @ + 1, !.vote = NoVote],
           << VoteClosed(b.seq + 1, vote.openedSeq, outcome, reason) >>)

\* Mutant: the tally looks for a pass only, never for a lost majority.
ResolveByTally_NeverRejects(b) ==
    IF Cardinality(b.vote.approvals) >= Needed(b.vote.electorate)
    THEN ClosePassed(b, b.vote)
    ELSE Accept(b, <<>>)

ResolveByTally(b) ==
    IF Cardinality(b.vote.approvals) >= Needed(b.vote.electorate)
    THEN ClosePassed(b, b.vote)
    ELSE IF Cardinality(b.vote.electorate) - Cardinality(b.vote.rejections)
              < Needed(b.vote.electorate)
    THEN CloseFailed(b, b.vote, "failed", "REJECTED")
    ELSE Accept(b, <<>>)

\* The events of a step followed by those of the result it leads to.
Then(events, result) == Accept(result.state, events \o result.events)

\* Mutant: a proposal replaces the vote that is open.
OpenVote_Replaces(b, cmd) ==
    LET vote == [openedSeq |-> b.seq + 1, by |-> cmd.by, id |-> cmd.id,
                 electorate |-> cmd.electorate, approvals |-> {cmd.by},
                 rejections |-> {}]
    IN  IF b.status # "ongoing" THEN Reject(b, "GAME_NOT_ONGOING")
        ELSE IF ~ IsFull(b) THEN Reject(b, "GRID_NOT_FULL")
        ELSE Then(<< VoteOpened(b.seq + 1, vote) >>,
                  ResolveByTally([b EXCEPT !.seq = @ + 1, !.vote = vote]))

OpenVote(b, cmd) ==
    LET vote == [openedSeq |-> b.seq + 1, by |-> cmd.by, id |-> cmd.id,
                 electorate |-> cmd.electorate, approvals |-> {cmd.by},
                 rejections |-> {}]
    IN  IF b.status # "ongoing" THEN Reject(b, "GAME_NOT_ONGOING")
        ELSE IF ~ IsFull(b) THEN Reject(b, "GRID_NOT_FULL")
        ELSE IF b.vote # NoVote THEN Reject(b, "VOTE_PENDING")
        ELSE Then(<< VoteOpened(b.seq + 1, vote) >>,
                  ResolveByTally([b EXCEPT !.seq = @ + 1, !.vote = vote]))

\* Mutant: a second ballot moves the voter to the other side.
CastVote_Revote(b, cmd) ==
    IF b.status # "ongoing" THEN Reject(b, "GAME_NOT_ONGOING")
    ELSE IF b.vote = NoVote \/ b.vote.openedSeq # cmd.voteSeq
         THEN Reject(b, "NO_VOTE_OPEN")
    ELSE IF cmd.by \notin b.vote.electorate THEN Reject(b, "NOT_ELECTOR")
    ELSE LET yes == b.vote.approvals \ {cmd.by}
             no == b.vote.rejections \ {cmd.by}
             vote == [b.vote EXCEPT !.approvals = yes \cup {u \in {cmd.by} : cmd.approve},
                                    !.rejections = no \cup {u \in {cmd.by} : ~ cmd.approve}]
         IN  Then(<< VoteCast(b.seq + 1, b.vote.openedSeq, cmd.by, cmd.approve) >>,
                  ResolveByTally([b EXCEPT !.seq = @ + 1, !.vote = vote]))

CastVote(b, cmd) ==
    IF b.status # "ongoing" THEN Reject(b, "GAME_NOT_ONGOING")
    ELSE IF b.vote = NoVote \/ b.vote.openedSeq # cmd.voteSeq
         THEN Reject(b, "NO_VOTE_OPEN")
    ELSE IF cmd.by \notin b.vote.electorate THEN Reject(b, "NOT_ELECTOR")
    ELSE IF cmd.by \in b.vote.approvals \cup b.vote.rejections
         THEN Reject(b, "ALREADY_VOTED")
    ELSE LET vote == IF cmd.approve
                     THEN [b.vote EXCEPT !.approvals = @ \cup {cmd.by}]
                     ELSE [b.vote EXCEPT !.rejections = @ \cup {cmd.by}]
         IN  Then(<< VoteCast(b.seq + 1, b.vote.openedSeq, cmd.by, cmd.approve) >>,
                  ResolveByTally([b EXCEPT !.seq = @ + 1, !.vote = vote]))

ExpireVote(b) ==
    IF b.vote = NoVote THEN Accept(b, <<>>)
    ELSE CloseFailed(b, b.vote, "failed", "EXPIRED")

\* The board after gameCompleted took the next seq.
Complete(b) ==
    Accept([b EXCEPT !.status = "completed", !.seq = @ + 1],
           << GameCompleted(b.seq + 1) >>)

\* Mutant: completion is looked for only when the filled count changed.
ApplyMutation_EdgeTriggered(b, cmd) ==
    LET r == Reduce(b, cmd)
        next == r.state
        willComplete == next.filled # b.filled /\ IsFull(next) /\ BoardIsCorrect(next)
    IN  IF r.error # "none" THEN r
        ELSE IF next.vote # NoVote /\ ~ IsFull(next)
        THEN Then(r.events, CloseFailed(next, next.vote, "cancelled", "GRID_BROKEN"))
        ELSE IF willComplete THEN Then(r.events, Complete(next))
        ELSE r

\* Mutant: a vote rides on when the grid under it is broken.
ApplyMutation_KeepsVote(b, cmd) ==
    LET r == Reduce(b, cmd)
    IN  IF r.error # "none" THEN r
        ELSE IF IsFull(r.state) /\ BoardIsCorrect(r.state)
        THEN Then(r.events, Complete([r.state EXCEPT !.vote = NoVote]))
        ELSE r

\* A mutation, then the level-triggered completion check and the cancellation
\* of a vote whose grid it completed or broke.
ApplyMutation(b, cmd) ==
    LET r == Reduce(b, cmd)
        next == r.state
        willComplete == next.status = "ongoing" /\ IsFull(next) /\ BoardIsCorrect(next)
        cancelled(reason) == CloseFailed(next, next.vote, "cancelled", reason)
    IN  IF r.error # "none" THEN r
        ELSE IF next.vote # NoVote /\ willComplete
        THEN Then(r.events, Then(cancelled("TERMINAL").events,
                                 Complete(cancelled("TERMINAL").state)))
        ELSE IF next.vote # NoVote /\ ~ IsFull(next)
        THEN Then(r.events, cancelled("GRID_BROKEN"))
        ELSE IF next.vote = NoVote /\ willComplete
        THEN Then(r.events, Complete(next))
        ELSE r

ApplyWithVote(b, cmd) ==
    CASE cmd.type = "checkPuzzle"     -> OpenVote(b, cmd)
      [] cmd.type = "castCheckVote"   -> CastVote(b, cmd)
      [] cmd.type = "expireCheckVote" -> ExpireVote(b)
      [] cmd.type \in {"placeLetter", "clearCell"} -> ApplyMutation(b, cmd)

-----------------------------------------------------------------------------
(* What every board the engine produces satisfies.                         *)

FilledCells(b) == {c \in Cells : b.cells[c] # NoValue}

FilledIsExact(b) == b.filled = Cardinality(FilledCells(b))

MarksAreWrong(b) == b.marks \subseteq ComparatorFailures(b) \cap FilledCells(b)

CompletedIffSolved(b) ==
    /\ b.status = "ongoing" => ~ (IsFull(b) /\ BoardIsCorrect(b))
    /\ b.status = "completed" => IsFull(b) /\ BoardIsCorrect(b)

VoteOnFullGrid(b) == b.vote # NoVote => b.status = "ongoing" /\ IsFull(b)

VoteIsUndecided(b) ==
    b.vote # NoVote =>
        /\ b.vote.approvals \cup b.vote.rejections \subseteq b.vote.electorate
        /\ b.vote.approvals \cap b.vote.rejections = {}
        /\ Cardinality(b.vote.approvals) < Needed(b.vote.electorate)
        /\ Cardinality(b.vote.electorate) - Cardinality(b.vote.rejections)
              >= Needed(b.vote.electorate)

GoodBoard(b) ==
    /\ FilledIsExact(b) /\ MarksAreWrong(b) /\ CompletedIffSolved(b)
    /\ VoteOnFullGrid(b) /\ VoteIsUndecided(b)

\* PROTOCOL 10: an accepted check finds at least one wrong cell.
FindsSomething(e) == e.type = "puzzleChecked" => e.wrongCells # {}

\* The events after seq n take the next seqs in order; m is the last of them.
Numbered(n, events, m) ==
    /\ m = n + Len(events)
    /\ \A i \in 1..Len(events) : events[i].seq = n + i

=============================================================================
