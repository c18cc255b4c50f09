----------------------------- MODULE EngineGame -----------------------------
(***************************************************************************)
(* One game driven through the engine's vote driver (applyWithVote): the   *)
(* board, and the sequenced events every accepted command produced.  The   *)
(* log is a history: no action reads it, the properties do.  Names carry   *)
(* EG where the actor's proofs, which rest on this module's, have their    *)
(* own.                                                                    *)
(***************************************************************************)
EXTENDS Engine

CONSTANT
    MaxSeq     \* bound: no command is applied once the board reached this seq

ASSUME MaxSeqAssumption == MaxSeq \in Nat

VARIABLES
    grid,      \* the board
    log        \* the events so far

egVars == <<grid, log>>

EGInit ==
    /\ grid = EmptyBoard
    /\ log = <<>>

Take(cmd) ==
    LET result == ApplyWithVote(grid, cmd)
    IN  /\ grid.seq < MaxSeq
        /\ grid' = result.state
        /\ log' = log \o result.events

PlaceLetter == \E cmd \in {p \in CellCommands : p.type = "placeLetter"} : Take(cmd)

ClearCell == \E cmd \in {p \in CellCommands : p.type = "clearCell"} : Take(cmd)

CheckPuzzle == \E cmd \in Proposals : Take(cmd)

\* A ballot may name a vote that is closed or never was.
CastCheckVote ==
    \E u \in Users, i \in CommandIds, s \in 1..MaxSeq, yes \in BOOLEAN :
        Take([type |-> "castCheckVote", by |-> u, id |-> i, voteSeq |-> s,
              approve |-> yes])

ExpireCheckVote == Take(Expiry)

EGNext == PlaceLetter \/ ClearCell \/ CheckPuzzle \/ CastCheckVote \/ ExpireCheckVote

EGSpec == EGInit /\ [][EGNext]_egVars

-----------------------------------------------------------------------------
(* Invariants of the board (the predicates are in Engine).                  *)

\* The board is a board.
EGTypeOK == grid \in Boards

\* Everything the board keeps besides its letters agrees with them.  filledCount,
\* which reduce moves by increments and which alone gates checks and completion,
\* is the number of filled cells; a mark stands only on a filled cell that is
\* still wrong; completion is level-triggered, so an ongoing board is never full
\* and correct and a completed one always is; a vote stays open only on an ongoing
\* full grid, and only while neither majority has been reached.
BoardIsGood == GoodBoard(grid)

-----------------------------------------------------------------------------
(* What a log l of events must say.                                        *)

Opens(l) == {i \in DOMAIN l : l[i].type = "checkVoteOpened"}
Closes(l) == {i \in DOMAIN l : l[i].type = "checkVoteClosed"}
Checks(l) == {i \in DOMAIN l : l[i].type = "puzzleChecked"}

\* INV-2: the events take the seqs 1, 2, 3, ... with no gap, and the board's
\* seq is the last of them.
SeqIsContiguous ==
    /\ Len(log) = grid.seq
    /\ \A i \in DOMAIN log : log[i].seq = i

\* PROTOCOL 10: an accepted check always finds at least one wrong cell.
ChecksFindSomething == \A i \in Checks(log) : log[i].wrongCells # {}

\* The voters counted for the vote opened at s, before log position i.
ApprovalsBefore(l, i, s) ==
    {l[s].by} \cup {l[j].by : j \in {k \in s+1..i-1 :
                        l[k].type = "checkVoteCast" /\ l[k].approve}}
RejectionsBefore(l, i, s) ==
    {l[j].by : j \in {k \in s+1..i-1 :
                        l[k].type = "checkVoteCast" /\ ~ l[k].approve}}

\* Every close names the latest vote opened before it, and no other close lies between.
ClosesNameTheirVote(l) ==
    \A i \in Closes(l) :
        /\ l[i].voteSeq \in Opens(l) /\ l[i].voteSeq < i
        /\ \A j \in l[i].voteSeq + 1 .. i - 1 :
               l[j].type \notin {"checkVoteOpened", "checkVoteClosed", "puzzleChecked"}

VotesDoNotOverlap(l) ==
    \A i, j \in Opens(l) : i < j => \E k \in Closes(l) : i < k /\ k < j

\* A check comes right after the close that passed it, in the proposer's name.
ChecksFollowTheirVote(l) ==
    \A i \in Checks(l) :
        /\ i > 1 /\ i - 1 \in Closes(l) /\ l[i-1].outcome = "passed"
        /\ LET open == l[l[i-1].voteSeq]
           IN  l[i].by = open.by /\ l[i].id = open.id

\* Votes are serial: they do not overlap, each closes at most once, and every check
\* is the one its vote asked for.
VotesAreSerial ==
    ClosesNameTheirVote(log) /\ VotesDoNotOverlap(log) /\ ChecksFollowTheirVote(log)

OutcomesFollow(l) ==
    \A i \in Closes(l) :
        LET s == l[i].voteSeq
            electorate == l[s].electorate
            yes == Cardinality(ApprovalsBefore(l, i, s))
            no == Cardinality(RejectionsBefore(l, i, s))
        IN  /\ (l[i].outcome = "passed") <=> (2 * yes > Cardinality(electorate))
            /\ (l[i].reason = "REJECTED") <=> (2 * (Cardinality(electorate) - no)
                                                   <= Cardinality(electorate))

\* A vote's outcome follows from the ballots on the log: passed exactly with a
\* strict majority of the frozen electorate, rejected exactly when that
\* majority was out of reach, and undecided when expiry or the grid closed it.
OutcomeFollowsBallots == OutcomesFollow(log)

\* The value of a cell after the first n events: the last write to it.
ValueAt(l, n, c) ==
    LET writes == {i \in 1..n : l[i].type = "cellSet" /\ l[i].cell = c}
    IN  IF writes = {} THEN NoValue
        ELSE l[CHOOSE i \in writes : \A j \in writes : j <= i].value

Fills(l) == {i \in DOMAIN l : l[i].type = "cellSet" /\ l[i].value # NoValue}

\* The seq of the first letter ever placed (0: none was).
FirstFill(l) ==
    IF Fills(l) = {} THEN 0 ELSE CHOOSE i \in Fills(l) : \A j \in Fills(l) : i <= j

\* A mark of the last check stands exactly on the cells never changed since.
StandingMarks(l) ==
    IF Checks(l) = {} THEN {}
    ELSE LET last == CHOOSE i \in Checks(l) : \A j \in Checks(l) : j <= i
         IN  {c \in l[last].wrongCells :
                \A n \in last..Len(l) : ValueAt(l, n, c) = ValueAt(l, last, c)}

Rebuilds(l, b) ==
    /\ \A c \in Cells : b.cells[c] = ValueAt(l, Len(l), c)
    /\ b.firstFill = FirstFill(l)
    /\ b.checks = Cardinality(Checks(l))
    /\ b.marks = StandingMarks(l)

\* The log alone rebuilds the board: cells, the first fill, check count and
\* standing marks.
ReplayRebuildsBoard == Rebuilds(log, grid)

-----------------------------------------------------------------------------
(* Action properties.                                                      *)

\* INV-4: a terminal board never changes again.
TerminalIsFrozen == [][grid.status # "ongoing" => UNCHANGED grid]_egVars

=============================================================================
