---------------------------- MODULE EngineProofs ----------------------------
(***************************************************************************)
(* Every entry point of the engine keeps a good board good, numbers its    *)
(* events without a gap and leaves a terminal board alone.  These lemmas   *)
(* are stated about one call, so any component that moves its board only   *)
(* through applyWithVote can cite them.  The invariants of EngineGame, one *)
(* game under any sequence of commands, follow at the end.                 *)
(***************************************************************************)
EXTENDS EngineGame, FiniteSetTheorems, SequenceTheorems, TLAPS

-----------------------------------------------------------------------------
(* Counting filled cells.                                                  *)

LEMMA FilledFinite ==
    ASSUME NEW b PROVE IsFiniteSet(FilledCells(b)) /\ Cardinality(FilledCells(b)) \in Nat
BY EngineAssumption, FS_Subset, FS_CardinalityType DEF FilledCells

\* A write moves the count of filled cells by exactly what reduce adds to
\* filledCount.
LEMMA WriteCountsFilled ==
    ASSUME NEW b \in Boards, FilledIsExact(b),
           NEW c \in Cells, NEW v \in Values \cup {NoValue}
    PROVE  FilledIsExact(Write(b, c, v))
<1> DEFINE w == Write(b, c, v)
           others == FilledCells(b) \ {c}
<1>1. IsFiniteSet(others) /\ Cardinality(others) \in Nat
  BY FilledFinite, FS_Subset, FS_CardinalityType
<1>2. Cardinality(FilledCells(b)) =
        Cardinality(others) + (IF b.cells[c] # NoValue THEN 1 ELSE 0)
  <2>1. CASE b.cells[c] # NoValue
    <3>1. FilledCells(b) = others \cup {c} /\ c \notin others
      BY <2>1 DEF FilledCells
    <3>2. Cardinality(others \cup {c}) = Cardinality(others) + 1
      BY <1>1, <3>1, FS_AddElement
    <3> QED BY <2>1, <3>1, <3>2
  <2>2. CASE b.cells[c] = NoValue
    <3>1. FilledCells(b) = others
      BY <2>2 DEF FilledCells
    <3> QED BY <1>1, <2>2, <3>1
  <2> QED BY <2>1, <2>2
<1>3. w.cells = [b.cells EXCEPT ![c] = v]
  BY DEF Write, Boards
<1>4. FilledCells(w) = others \cup (IF v # NoValue THEN {c} ELSE {})
  BY <1>3 DEF FilledCells, Boards
<1>5. Cardinality(FilledCells(w)) = Cardinality(others) + (IF v # NoValue THEN 1 ELSE 0)
  <2>1. CASE v # NoValue
    BY <1>1, <1>4, <2>1, FS_AddElement, c \notin others
  <2>2. CASE v = NoValue
    <3>1. FilledCells(w) = others
      BY <1>4, <2>2
    <3> QED BY <1>1, <2>2, <3>1
  <2> QED BY <2>1, <2>2
<1>6. w.filled = b.filled + (IF v # NoValue THEN 1 ELSE 0)
                          - (IF b.cells[c] # NoValue THEN 1 ELSE 0)
  BY DEF Write, Boards
<1>7. b.filled = Cardinality(FilledCells(b)) /\ b.filled \in Int
  BY DEF FilledIsExact, Boards
<1> HIDE DEF w, others
<1>8. w.filled = Cardinality(FilledCells(w))
  BY <1>1, <1>2, <1>5, <1>6, <1>7
<1> QED BY <1>8 DEF FilledIsExact, w

-----------------------------------------------------------------------------
(* One lemma per engine function.                                          *)

LEMMA NormalizedType ==
    ASSUME NEW cmd \in CellCommands
    PROVE  ValueOf(cmd) \in Values \cup {NoValue}
BY EngineAssumption DEF CellCommands, ValueOf

LEMMA WriteKeepsBoard ==
    ASSUME NEW b \in Boards, FilledIsExact(b), MarksAreWrong(b),
           NEW c \in Cells, NEW v \in Values \cup {NoValue}
    PROVE  /\ Write(b, c, v) \in Boards
           /\ FilledIsExact(Write(b, c, v))
           /\ MarksAreWrong(Write(b, c, v))
           /\ Write(b, c, v).vote = b.vote
           /\ Write(b, c, v).status = b.status
           /\ Write(b, c, v).seq = b.seq + 1
<1> DEFINE w == Write(b, c, v)
<1>1. w \in Boards
  <2> DEFINE cells == [b.cells EXCEPT ![c] = v]
             filled == b.filled + (IF v # NoValue THEN 1 ELSE 0)
                                - (IF b.cells[c] # NoValue THEN 1 ELSE 0)
             first == IF b.firstFill = 0 /\ v # NoValue THEN b.seq + 1 ELSE b.firstFill
             marks == IF v # b.cells[c] THEN b.marks \ {c} ELSE b.marks
  <2>1. cells \in [Cells -> Values \cup {NoValue}] /\ marks \in SUBSET Cells
    BY DEF Boards
  <2>2. filled \in Int /\ first \in Nat /\ b.seq + 1 \in Nat
    BY DEF Boards
  <2>3. w = [b EXCEPT !.cells = cells, !.seq = b.seq + 1, !.filled = filled,
                      !.firstFill = first, !.marks = marks]
    BY Zenon DEF Write
  <2> HIDE DEF w, cells, filled, first, marks
  <2> QED BY <2>1, <2>2, <2>3 DEF Boards
<1>2. FilledIsExact(w)
  BY WriteCountsFilled
<1>3. MarksAreWrong(w)
  BY EngineAssumption DEF MarksAreWrong, ComparatorFailures, FilledCells, Write, Boards
<1>4. w.vote = b.vote /\ w.status = b.status /\ w.seq = b.seq + 1
  BY DEF Boards, Write
<1> QED BY <1>1, <1>2, <1>3, <1>4

\* What the caller of an engine function on board b can rely on.
GoodResult(b, r) ==
    /\ r.state \in Boards /\ GoodBoard(r.state)
    /\ r.events \in Seq(Events)
    /\ Numbered(b.seq, r.events, r.state.seq)
    /\ \A i \in 1..Len(r.events) : FindsSomething(r.events[i])

LEMMA RejectIsGood ==
    ASSUME NEW b \in Boards, GoodBoard(b), NEW code
    PROVE  GoodResult(b, Reject(b, code))
BY DEF GoodResult, Reject, Numbered, Boards

\* One event in front of a good result.
LEMMA ThenIsGood ==
    ASSUME NEW b \in Boards, NEW c \in Boards, c.seq = b.seq + 1,
           NEW e \in Events, e.seq = b.seq + 1, FindsSomething(e),
           NEW r, GoodResult(c, r)
    PROVE  GoodResult(b, Then(<<e>>, r))
<1> DEFINE s == <<e>> \o r.events
<1>1. b.seq \in Nat /\ r.events \in Seq(Events) /\ <<e>> \in Seq(Events) /\ Len(<<e>>) = 1
  BY DEF GoodResult, Boards
<1>1a. Len(r.events) \in Nat
  BY <1>1
<1>1b. r.state.seq = c.seq + Len(r.events)
  BY DEF GoodResult, Numbered
<1>1c. \A j \in 1..Len(r.events) : r.events[j].seq = c.seq + j /\ FindsSomething(r.events[j])
  BY DEF GoodResult, Numbered
<1>2. s \in Seq(Events) /\ Len(s) = 1 + Len(r.events)
  BY <1>1
<1>3. \A i \in 1..Len(s) : s[i] = IF i = 1 THEN e ELSE r.events[i - 1]
  BY <1>1, <1>2
<1>4. \A i \in 1..Len(s) : s[i].seq = b.seq + i /\ FindsSomething(s[i])
  <2> SUFFICES ASSUME NEW i \in 1..Len(s)
               PROVE  s[i].seq = b.seq + i /\ FindsSomething(s[i])
    OBVIOUS
  <2>1. CASE i = 1
    BY <1>1, <1>3, <2>1
  <2>2. CASE i # 1
    <3>1. i - 1 \in 1..Len(r.events) /\ s[i] = r.events[i - 1]
      BY <1>1, <1>2, <1>3, <2>2
    <3> HIDE DEF s
    <3>2. r.events[i - 1].seq = c.seq + (i - 1) /\ FindsSomething(r.events[i - 1])
      BY <1>1c, <3>1
    <3>3. c.seq + (i - 1) = b.seq + i
      BY <1>1, i \in Int
    <3> QED BY <3>1, <3>2, <3>3
  <2> QED BY <2>1, <2>2
<1>5. r.state.seq = b.seq + Len(s)
  <2> HIDE DEF s
  <2> DEFINE n == Len(r.events)
             k == Len(s)
             last == r.state.seq
  <2>1. k = 1 + n /\ last = c.seq + n /\ n \in Nat /\ b.seq \in Nat
    BY <1>1, <1>2, <1>1a, <1>1b
  <2> HIDE DEF n, k, last
  <2>2. last = b.seq + k
    BY <2>1
  <2> QED BY <2>2 DEF k, last
<1>6. Then(<<e>>, r).state = r.state /\ Then(<<e>>, r).events = s
  BY DEF Then, Accept
<1> HIDE DEF s
<1> QED BY <1>2, <1>4, <1>5, <1>6 DEF GoodResult, Numbered

\* The part of a good board that no open vote takes part in.
GoodGrid(b) == FilledIsExact(b) /\ MarksAreWrong(b) /\ CompletedIffSolved(b)

\* A function that only bumps seq, marks, checks or vote leaves the grid alone.
SameGrid(b, d) ==
    d.cells = b.cells /\ d.filled = b.filled /\ d.status = b.status

LEMMA SameGridKeepsGood ==
    ASSUME NEW b \in Boards, NEW d \in Boards, SameGrid(b, d), GoodGrid(b),
           d.marks = b.marks \/ (d.marks = ComparatorFailures(b) /\ IsFull(b))
    PROVE  GoodGrid(d) /\ IsFull(d) = IsFull(b)
<1>1. FilledCells(d) = FilledCells(b) /\ ComparatorFailures(d) = ComparatorFailures(b)
  BY DEF SameGrid, FilledCells, ComparatorFailures
<1>2. FilledIsExact(d) /\ CompletedIffSolved(d) /\ IsFull(d) = IsFull(b)
  BY <1>1 DEF SameGrid, GoodGrid, FilledIsExact, CompletedIffSolved, IsFull, BoardIsCorrect
<1>3. IsFull(b) => FilledCells(b) = Cells
  BY EngineAssumption, FS_Subset, FS_CardinalityType
     DEF IsFull, GoodGrid, FilledIsExact, FilledCells
<1>4. MarksAreWrong(d)
  BY <1>1, <1>3, EngineAssumption DEF GoodGrid, MarksAreWrong, ComparatorFailures
<1> QED BY <1>2, <1>4 DEF GoodGrid

LEMMA NoVoteIsAVote == NoVote \in MaybeVotes /\ \A v \in Votes : v \in MaybeVotes
BY DEF MaybeVotes

LEMMA OneEvent ==
    ASSUME NEW e \in Events, NEW n \in Nat, e.seq = n + 1, FindsSomething(e)
    PROVE  /\ <<e>> \in Seq(Events) /\ Numbered(n, <<e>>, n + 1)
           /\ \A i \in 1..Len(<<e>>) : FindsSomething(<<e>>[i])
BY DEF Numbered

\* A board whose vote may have just been decided.
TalliedBoard(b) ==
    /\ b \in Boards /\ GoodGrid(b)
    /\ b.status = "ongoing" /\ IsFull(b) /\ b.vote \in Votes
    /\ b.vote.approvals \cup b.vote.rejections \subseteq b.vote.electorate
    /\ b.vote.approvals \cap b.vote.rejections = {}

\* A full ongoing board is not correct, so the comparator fails somewhere.
LEMMA CheckFindsSomething ==
    ASSUME NEW b \in Boards, CompletedIffSolved(b), b.status = "ongoing", IsFull(b)
    PROVE  ComparatorFailures(b) # {} /\ ComparatorFailures(b) \subseteq Cells
BY EngineAssumption DEF CompletedIffSolved, BoardIsCorrect, ComparatorFailures

LEMMA ClosePassedIsGood ==
    ASSUME NEW b, TalliedBoard(b)
    PROVE  GoodResult(b, ClosePassed(b, b.vote))
<1> DEFINE d == [b EXCEPT !.seq = @ + 2, !.marks = ComparatorFailures(b),
                          !.checks = @ + 1, !.vote = NoVote]
           e == VoteClosed(b.seq + 1, b.vote.openedSeq, "passed", "none")
           f == PuzzleChecked(b.seq + 2, ComparatorFailures(b), b.checks + 1,
                              b.vote.by, b.vote.id)
<1>1. b \in Boards /\ GoodGrid(b) /\ IsFull(b) /\ b.vote \in Votes
  BY DEF TalliedBoard
<1>2. ComparatorFailures(b) # {} /\ ComparatorFailures(b) \subseteq Cells
  BY CheckFindsSomething DEF TalliedBoard, GoodGrid
<1>3. b.seq \in Nat /\ b.seq + 2 \in Nat /\ b.checks + 1 \in Nat
  BY <1>1 DEF Boards
<1>4. /\ d \in Boards /\ SameGrid(b, d)
      /\ d.marks = ComparatorFailures(b) /\ d.vote = NoVote /\ d.seq = b.seq + 2
  <2> DEFINE n == b.seq + 2
             k == b.checks + 1
             m == ComparatorFailures(b)
  <2>1. n \in Nat /\ k \in Nat /\ m \in SUBSET Cells
    BY <1>2, <1>3
  <2>2. d = [b EXCEPT !.seq = n, !.marks = m, !.checks = k, !.vote = NoVote]
    BY Zenon
  <2> HIDE DEF n, k, m, d
  <2>3. /\ d \in Boards /\ SameGrid(b, d)
        /\ d.marks = m /\ d.vote = NoVote /\ d.seq = n
    BY <1>1, <2>1, <2>2, NoVoteIsAVote DEF Boards, SameGrid
  <2> QED BY <2>3 DEF m, n
<1>5. GoodBoard(d)
  <2> HIDE DEF d
  <2> QED BY <1>1, <1>4, SameGridKeepsGood
         DEF GoodBoard, GoodGrid, VoteOnFullGrid, VoteIsUndecided
<1>6. e \in Events /\ f \in Events
  BY <1>1, <1>2 DEF Events, VoteClosed, PuzzleChecked, Outcomes, Reasons, Votes, Boards
<1>7. e.seq = b.seq + 1 /\ f.seq = b.seq + 2 /\ FindsSomething(e) /\ FindsSomething(f)
  BY <1>2 DEF VoteClosed, PuzzleChecked, FindsSomething
<1>8. ClosePassed(b, b.vote).state = d /\ ClosePassed(b, b.vote).events = <<e, f>>
  BY DEF ClosePassed, Accept
<1> HIDE DEF d, e, f
<1>9. Numbered(b.seq, <<e, f>>, d.seq) /\ \A i \in 1..2 : FindsSomething(<<e, f>>[i])
  BY <1>3, <1>4, <1>7 DEF Numbered
<1> QED BY <1>4, <1>5, <1>6, <1>8, <1>9 DEF GoodResult

\* The stream is one event at seq n.
IsOneEvent(events, n) ==
    \E e \in Events : events = <<e>> /\ e.seq = n /\ FindsSomething(e)

LEMMA CloseFailedShape ==
    ASSUME NEW b \in Boards, b.vote \in Votes, NEW o \in Outcomes, NEW why \in Reasons,
           NEW r, r = CloseFailed(b, b.vote, o, why)
    PROVE  /\ r.state \in Boards /\ SameGrid(b, r.state) /\ r.state.marks = b.marks
           /\ r.state.vote = NoVote /\ r.state.seq = b.seq + 1
           /\ IsOneEvent(r.events, b.seq + 1)
<1> DEFINE n == b.seq + 1
           d == [b EXCEPT !.seq = n, !.vote = NoVote]
           e == VoteClosed(b.seq + 1, b.vote.openedSeq, o, why)
<1>1. n \in Nat
  BY DEF Boards
<1>2. r.state = d /\ r.events = <<e>>
  BY DEF CloseFailed, Accept
<1>3. e \in Events /\ e.seq = b.seq + 1 /\ FindsSomething(e)
  BY <1>1 DEF Events, VoteClosed, Votes, FindsSomething
<1> HIDE DEF n, e
<1>4. d \in Boards /\ SameGrid(b, d) /\ d.marks = b.marks /\ d.vote = NoVote /\ d.seq = n
  BY <1>1, NoVoteIsAVote DEF Boards, SameGrid
<1> HIDE DEF d
<1> QED BY <1>2, <1>3, <1>4 DEF n, IsOneEvent

LEMMA CloseFailedIsGood ==
    ASSUME NEW b \in Boards, GoodGrid(b), b.vote \in Votes,
           NEW o \in Outcomes, NEW why \in Reasons
    PROVE  GoodResult(b, CloseFailed(b, b.vote, o, why))
<1> DEFINE r == CloseFailed(b, b.vote, o, why)
<1>1. /\ r.state \in Boards /\ SameGrid(b, r.state) /\ r.state.marks = b.marks
      /\ r.state.vote = NoVote /\ r.state.seq = b.seq + 1
      /\ IsOneEvent(r.events, b.seq + 1)
  BY CloseFailedShape
<1> HIDE DEF r
<1>2. GoodBoard(r.state)
  BY <1>1, SameGridKeepsGood DEF GoodBoard, GoodGrid, VoteOnFullGrid, VoteIsUndecided
<1>3. b.seq \in Nat
  BY DEF Boards
<1>4. GoodResult(b, r)
  BY <1>1, <1>2, <1>3, OneEvent DEF GoodResult, IsOneEvent
<1> QED BY <1>4 DEF r

LEMMA ResolveIsGood ==
    ASSUME NEW b, TalliedBoard(b)
    PROVE  GoodResult(b, ResolveByTally(b))
<1>1. CASE Cardinality(b.vote.approvals) >= Needed(b.vote.electorate)
  BY <1>1, ClosePassedIsGood DEF ResolveByTally
<1>2. CASE /\ ~ Cardinality(b.vote.approvals) >= Needed(b.vote.electorate)
           /\ Cardinality(b.vote.electorate) - Cardinality(b.vote.rejections)
                 < Needed(b.vote.electorate)
  BY <1>2, CloseFailedIsGood DEF ResolveByTally, TalliedBoard, Outcomes, Reasons
<1>3. CASE /\ ~ Cardinality(b.vote.approvals) >= Needed(b.vote.electorate)
           /\ ~ Cardinality(b.vote.electorate) - Cardinality(b.vote.rejections)
                  < Needed(b.vote.electorate)
  <2>1. ResolveByTally(b) = Accept(b, <<>>)
    BY <1>3 DEF ResolveByTally
  <2>2. /\ Cardinality(b.vote.approvals) \in Nat /\ Cardinality(b.vote.rejections) \in Nat
        /\ Cardinality(b.vote.electorate) \in Nat /\ Needed(b.vote.electorate) \in Nat
    BY EngineAssumption, FS_Subset, FS_CardinalityType DEF TalliedBoard, Votes, Needed
  <2>3. VoteIsUndecided(b)
    BY <1>3, <2>2 DEF VoteIsUndecided, TalliedBoard
  <2> QED BY <2>1, <2>3
         DEF GoodResult, Accept, GoodBoard, TalliedBoard, GoodGrid, VoteOnFullGrid,
             Numbered, Boards
<1> QED BY <1>1, <1>2, <1>3

\* A vote put on an ongoing full board, by a proposal or a ballot.
LEMMA NewTally ==
    ASSUME NEW b \in Boards, GoodGrid(b), b.status = "ongoing", IsFull(b),
           NEW v \in Votes, v.approvals \cup v.rejections \subseteq v.electorate,
           v.approvals \cap v.rejections = {}
    PROVE  /\ TalliedBoard([b EXCEPT !.seq = @ + 1, !.vote = v])
           /\ [b EXCEPT !.seq = @ + 1, !.vote = v].seq = b.seq + 1
<1> DEFINE n == b.seq + 1
           d == [b EXCEPT !.seq = n, !.vote = v]
<1>1. n \in Nat
  BY DEF Boards
<1> HIDE DEF n
<1>2. /\ d \in Boards /\ SameGrid(b, d)
      /\ d.marks = b.marks /\ d.vote = v /\ d.seq = n
  BY <1>1, NoVoteIsAVote DEF Boards, SameGrid
<1> HIDE DEF d
<1>3. TalliedBoard(d)
  BY <1>2, SameGridKeepsGood DEF TalliedBoard, SameGrid
<1>4. d = [b EXCEPT !.seq = @ + 1, !.vote = v]
  BY Zenon DEF d, n
<1> QED BY <1>2, <1>3, <1>4 DEF n

LEMMA GoodGridOfGoodBoard ==
    ASSUME NEW b, GoodBoard(b) PROVE GoodGrid(b)
BY DEF GoodBoard, GoodGrid

LEMMA OpenVoteIsGood ==
    ASSUME NEW b \in Boards, GoodBoard(b), NEW cmd \in Proposals
    PROVE  GoodResult(b, OpenVote(b, cmd))
<1> DEFINE v == [openedSeq |-> b.seq + 1, by |-> cmd.by, id |-> cmd.id,
                 electorate |-> cmd.electorate, approvals |-> {cmd.by},
                 rejections |-> {}]
           e == VoteOpened(b.seq + 1, v)
           d == [b EXCEPT !.seq = @ + 1, !.vote = v]
<1>1. CASE b.status # "ongoing" \/ ~ IsFull(b) \/ b.vote # NoVote
  <2>1. \E code : OpenVote(b, cmd) = Reject(b, code)
    BY <1>1 DEF OpenVote
  <2> QED BY <2>1, RejectIsGood
<1>2. CASE b.status = "ongoing" /\ IsFull(b) /\ b.vote = NoVote
  <2>1. OpenVote(b, cmd) = Then(<<e>>, ResolveByTally(d))
    BY <1>2 DEF OpenVote
  <2>2. b.seq \in Nat /\ b.seq + 1 \in Nat
    BY DEF Boards
  <2>3. v \in Votes /\ v.approvals \cup v.rejections \subseteq v.electorate
           /\ v.approvals \cap v.rejections = {}
    BY <2>2 DEF Votes, Proposals
  <2>4. e \in Events /\ e.seq = b.seq + 1 /\ FindsSomething(e)
    BY <2>2, <2>3 DEF Events, VoteOpened, FindsSomething, Votes
  <2> HIDE DEF v, e
  <2>5. TalliedBoard(d) /\ d.seq = b.seq + 1
    BY <1>2, <2>3, NewTally, GoodGridOfGoodBoard
  <2> HIDE DEF d
  <2>6. d \in Boards /\ GoodResult(d, ResolveByTally(d))
    BY <2>5, ResolveIsGood DEF TalliedBoard
  <2>7. GoodResult(b, Then(<<e>>, ResolveByTally(d)))
    BY <2>4, <2>5, <2>6, ThenIsGood
  <2> QED BY <2>1, <2>7
<1> QED BY <1>1, <1>2

LEMMA CastVoteIsGood ==
    ASSUME NEW b \in Boards, GoodBoard(b), NEW cmd \in Ballots
    PROVE  GoodResult(b, CastVote(b, cmd))
<1> DEFINE v == IF cmd.approve
                THEN [b.vote EXCEPT !.approvals = @ \cup {cmd.by}]
                ELSE [b.vote EXCEPT !.rejections = @ \cup {cmd.by}]
           e == VoteCast(b.seq + 1, b.vote.openedSeq, cmd.by, cmd.approve)
           d == [b EXCEPT !.seq = @ + 1, !.vote = v]
           gate == \/ b.status # "ongoing"
                   \/ b.vote = NoVote \/ b.vote.openedSeq # cmd.voteSeq
                   \/ cmd.by \notin b.vote.electorate
                   \/ cmd.by \in b.vote.approvals \cup b.vote.rejections
<1>1. CASE gate
  <2>1. \E code : CastVote(b, cmd) = Reject(b, code)
    BY <1>1 DEF CastVote
  <2> QED BY <2>1, RejectIsGood
<1>2. CASE ~ gate
  <2>1. CastVote(b, cmd) = Then(<<e>>, ResolveByTally(d))
    BY <1>2 DEF CastVote
  <2>2. b.seq \in Nat /\ b.seq + 1 \in Nat /\ b.vote \in Votes
    BY <1>2 DEF Boards, MaybeVotes
  <2>3. v \in Votes /\ v.approvals \cup v.rejections \subseteq v.electorate
           /\ v.approvals \cap v.rejections = {}
    BY <1>2, <2>2 DEF Votes, Ballots, GoodBoard, VoteIsUndecided
  <2>4. e \in Events /\ e.seq = b.seq + 1 /\ FindsSomething(e)
    BY <2>2 DEF Events, VoteCast, FindsSomething, Votes, Ballots
  <2>5. b.status = "ongoing" /\ IsFull(b)
    BY <1>2 DEF GoodBoard, VoteOnFullGrid
  <2> HIDE DEF v, e
  <2>6. TalliedBoard(d) /\ d.seq = b.seq + 1
    BY <2>3, <2>5, NewTally, GoodGridOfGoodBoard
  <2> HIDE DEF d
  <2>7. d \in Boards /\ GoodResult(d, ResolveByTally(d))
    BY <2>6, ResolveIsGood DEF TalliedBoard
  <2>8. GoodResult(b, Then(<<e>>, ResolveByTally(d)))
    BY <2>4, <2>6, <2>7, ThenIsGood
  <2> QED BY <2>1, <2>8
<1> QED BY <1>1, <1>2

LEMMA ExpireVoteIsGood ==
    ASSUME NEW b \in Boards, GoodBoard(b)
    PROVE  GoodResult(b, ExpireVote(b))
<1>1. CASE b.vote = NoVote
  BY <1>1 DEF ExpireVote, GoodResult, Accept, Numbered, Boards
<1>2. CASE b.vote # NoVote
  <2>1. b.vote \in Votes /\ "failed" \in Outcomes /\ "EXPIRED" \in Reasons
    BY <1>2 DEF Boards, MaybeVotes, Outcomes, Reasons
  <2> QED BY <1>2, <2>1, CloseFailedIsGood, GoodGridOfGoodBoard DEF ExpireVote
<1> QED BY <1>1, <1>2

\* gameCompleted on a full and correct board, whose marks are then empty.
LEMMA CompleteIsGood ==
    ASSUME NEW b \in Boards, FilledIsExact(b), MarksAreWrong(b), b.vote = NoVote,
           IsFull(b), BoardIsCorrect(b)
    PROVE  GoodResult(b, Complete(b))
<1> DEFINE n == b.seq + 1
           d == [b EXCEPT !.status = "completed", !.seq = n]
           e == GameCompleted(b.seq + 1)
<1>1. n \in Nat /\ b.seq \in Nat
  BY DEF Boards
<1>2. Complete(b).state = d /\ Complete(b).events = <<e>>
  BY DEF Complete, Accept
<1>3. e \in Events /\ e.seq = b.seq + 1 /\ FindsSomething(e)
  BY <1>1 DEF Events, GameCompleted, FindsSomething
<1> HIDE DEF n, e
<1>4. /\ d \in Boards /\ d.cells = b.cells /\ d.filled = b.filled /\ d.marks = b.marks
      /\ d.vote = NoVote /\ d.status = "completed" /\ d.seq = n
  BY <1>1 DEF Boards, Statuses
<1> HIDE DEF d
<1>5. GoodBoard(d)
  BY <1>4 DEF GoodBoard, FilledIsExact, MarksAreWrong, CompletedIffSolved, IsFull,
              BoardIsCorrect, FilledCells, ComparatorFailures, VoteOnFullGrid, VoteIsUndecided
<1> QED BY <1>1, <1>2, <1>3, <1>4, <1>5, OneEvent DEF GoodResult, n

LEMMA ApplyMutationIsGood ==
    ASSUME NEW b \in Boards, GoodBoard(b), NEW cmd \in CellCommands
    PROVE  GoodResult(b, ApplyMutation(b, cmd))
<1> DEFINE v == ValueOf(cmd)
           next == Write(b, cmd.cell, v)
           e == CellSet(b.seq + 1, cmd.cell, v, cmd.id)
           solved == IsFull(next) /\ BoardIsCorrect(next)
           gate == \/ b.status # "ongoing" \/ cmd.cell \notin Cells
                   \/ cmd.type = "placeLetter" /\ ValueOf(cmd) = NoValue
<1>1. CASE gate
  <2>1. \E code : Reduce(b, cmd) = Reject(b, code) /\ code # "none"
    BY <1>1 DEF Reduce
  <2>2. ApplyMutation(b, cmd) = Reduce(b, cmd)
    BY <2>1 DEF ApplyMutation, Reject
  <2> QED BY <2>1, <2>2, RejectIsGood
<1>2. CASE ~ gate
  <2>1. v \in Values \cup {NoValue} /\ cmd.cell \in Cells /\ cmd.id \in CommandIds
    BY <1>2, NormalizedType DEF CellCommands
  <2>2. Reduce(b, cmd) = Accept(next, <<e>>)
    BY <1>2 DEF Reduce
  <2>3. FilledIsExact(b) /\ MarksAreWrong(b) /\ b.status = "ongoing"
    BY <1>2 DEF GoodBoard
  <2>4. /\ next \in Boards /\ FilledIsExact(next) /\ MarksAreWrong(next)
        /\ next.vote = b.vote /\ next.status = "ongoing" /\ next.seq = b.seq + 1
    BY <2>1, <2>3, WriteKeepsBoard
  <2>5. e \in Events /\ e.seq = b.seq + 1 /\ FindsSomething(e) /\ b.seq \in Nat
    BY <2>1 DEF Events, CellSet, FindsSomething, Boards
  <2>6. b.vote = NoVote \/ b.vote \in Votes
    BY DEF Boards, MaybeVotes
  <2> HIDE DEF v, next, e
  <2>7. CASE next.vote # NoVote /\ solved
    <3> DEFINE c == CloseFailed(next, next.vote, "cancelled", "TERMINAL")
    <3>1. ApplyMutation(b, cmd) = Then(<<e>>, Then(c.events, Complete(c.state)))
      BY <2>2, <2>4, <2>7 DEF ApplyMutation, Accept
    <3>2. /\ c.state \in Boards /\ SameGrid(next, c.state) /\ c.state.marks = next.marks
          /\ c.state.vote = NoVote /\ c.state.seq = next.seq + 1
          /\ IsOneEvent(c.events, next.seq + 1)
      <4> DEFINE o == "cancelled"
                 why == "TERMINAL"
      <4>1. next.vote \in Votes /\ o \in Outcomes /\ why \in Reasons
        BY <2>4, <2>6, <2>7 DEF Outcomes, Reasons
      <4>2. c = CloseFailed(next, next.vote, o, why)
        OBVIOUS
      <4> HIDE DEF c, o, why
      <4> QED BY <2>4, <4>1, <4>2, CloseFailedShape
    <3> HIDE DEF c
    <3>3. /\ FilledIsExact(c.state) /\ MarksAreWrong(c.state)
          /\ IsFull(c.state) /\ BoardIsCorrect(c.state)
      BY <2>4, <2>7, <3>2 DEF SameGrid, FilledIsExact, MarksAreWrong, IsFull, BoardIsCorrect,
                              FilledCells, ComparatorFailures
    <3>4. GoodResult(c.state, Complete(c.state))
      BY <3>2, <3>3, CompleteIsGood
    <3>5. GoodResult(next, Then(c.events, Complete(c.state)))
      BY <2>4, <3>2, <3>4, ThenIsGood DEF IsOneEvent
    <3> QED BY <2>4, <2>5, <3>1, <3>5, ThenIsGood
  <2>8. CASE next.vote # NoVote /\ ~ solved /\ ~ IsFull(next)
    <3>1. ApplyMutation(b, cmd)
            = Then(<<e>>, CloseFailed(next, next.vote, "cancelled", "GRID_BROKEN"))
      BY <2>2, <2>4, <2>8 DEF ApplyMutation, Accept
    <3>2. GoodGrid(next)
      BY <2>4, <2>8 DEF GoodGrid, CompletedIffSolved
    <3>3. next.vote \in Votes /\ "cancelled" \in Outcomes /\ "GRID_BROKEN" \in Reasons
      BY <2>4, <2>6, <2>8 DEF Outcomes, Reasons
    <3>4. GoodResult(next, CloseFailed(next, next.vote, "cancelled", "GRID_BROKEN"))
      BY <2>4, <3>2, <3>3, CloseFailedIsGood
    <3> QED BY <2>4, <2>5, <3>1, <3>4, ThenIsGood
  <2>9. CASE next.vote = NoVote /\ solved
    <3>1. ApplyMutation(b, cmd) = Then(<<e>>, Complete(next))
      BY <2>2, <2>4, <2>9 DEF ApplyMutation, Accept
    <3>2. GoodResult(next, Complete(next))
      BY <2>4, <2>9, CompleteIsGood
    <3> QED BY <2>4, <2>5, <3>1, <3>2, ThenIsGood
  <2>10. CASE ~ solved /\ (next.vote = NoVote \/ IsFull(next))
    <3>1. ApplyMutation(b, cmd) = Accept(next, <<e>>)
      BY <2>2, <2>4, <2>10 DEF ApplyMutation, Accept
    <3>2. GoodBoard(next)
      BY <2>4, <2>10 DEF GoodBoard, CompletedIffSolved, VoteOnFullGrid, VoteIsUndecided
    <3> QED BY <2>4, <2>5, <3>1, <3>2, OneEvent DEF GoodResult, Accept
  <2> QED BY <2>7, <2>8, <2>9, <2>10
<1> QED BY <1>1, <1>2

(***************************************************************************)
(* Whatever the command, applyWithVote turns a good board into a good      *)
(* board, numbers its events contiguously from the board's seq, and every  *)
(* check among them found a wrong cell.                                    *)
(***************************************************************************)
THEOREM EngineKeepsGoodBoards ==
    ASSUME NEW b \in Boards, GoodBoard(b), NEW cmd \in Commands
    PROVE  GoodResult(b, ApplyWithVote(b, cmd))
<1>1. CASE cmd \in CellCommands
  <2>1. cmd.type \in {"placeLetter", "clearCell"}
    BY <1>1 DEF CellCommands
  <2> QED BY <1>1, <2>1, ApplyMutationIsGood DEF ApplyWithVote
<1>2. CASE cmd \in Proposals
  <2>1. cmd.type = "checkPuzzle"
    BY <1>2 DEF Proposals
  <2> QED BY <1>2, <2>1, OpenVoteIsGood DEF ApplyWithVote
<1>3. CASE cmd \in Ballots
  <2>1. cmd.type = "castCheckVote"
    BY <1>3 DEF Ballots
  <2> QED BY <1>3, <2>1, CastVoteIsGood DEF ApplyWithVote
<1>4. CASE cmd = Expiry
  BY <1>4, ExpireVoteIsGood DEF ApplyWithVote, Expiry
<1> QED BY <1>1, <1>2, <1>3, <1>4 DEF Commands

(***************************************************************************)
(* INV-4: on a good terminal board every command is refused or ignored,    *)
(* and produces no event.                                                  *)
(***************************************************************************)
THEOREM EngineFreezesTerminal ==
    ASSUME NEW b \in Boards, GoodBoard(b), b.status # "ongoing", NEW cmd \in Commands
    PROVE  ApplyWithVote(b, cmd).state = b /\ ApplyWithVote(b, cmd).events = <<>>
<1>1. b.vote = NoVote
  BY DEF GoodBoard, VoteOnFullGrid
<1>2. CASE cmd \in CellCommands
  BY <1>2 DEF CellCommands, ApplyWithVote, ApplyMutation, Reduce, Reject
<1>3. CASE cmd \in Proposals
  BY <1>3 DEF Proposals, ApplyWithVote, OpenVote, Reject
<1>4. CASE cmd \in Ballots
  BY <1>4 DEF Ballots, ApplyWithVote, CastVote, Reject
<1>5. CASE cmd = Expiry
  BY <1>1, <1>5 DEF Expiry, ApplyWithVote, ExpireVote, Accept
<1> QED BY <1>2, <1>3, <1>4, <1>5 DEF Commands

-----------------------------------------------------------------------------
(* What one event does to the board.  Whatever the engine did in one call  *)
(* is a path of at most three such steps, so a claim about every log or    *)
(* every journal needs checking on one event at a time.                    *)

\* Event e is the next of board b, and takes it to board d.
IsNext(b, e, d) ==
    /\ b \in Boards /\ d \in Boards /\ e \in Events
    /\ e.seq = b.seq + 1 /\ d.seq = e.seq /\ b.status = "ongoing"

\* The letters, the first fill and the number of checks stay.
SameLetters(b, d) ==
    d.cells = b.cells /\ d.firstFill = b.firstFill /\ d.checks = b.checks

CellStep(b, e, d) ==
    /\ IsNext(b, e, d) /\ e.type = "cellSet"
    /\ d.cells = [b.cells EXCEPT ![e.cell] = e.value]
    /\ d.firstFill = IF b.firstFill = 0 /\ e.value # NoValue THEN e.seq ELSE b.firstFill
    /\ d.marks = IF e.value # b.cells[e.cell] THEN b.marks \ {e.cell} ELSE b.marks
    /\ d.checks = b.checks /\ d.vote = b.vote /\ d.status = b.status

\* A vote opens where none was open, with the proposer's ballot in it.
OpenStep(b, e, d) ==
    /\ IsNext(b, e, d) /\ e.type = "checkVoteOpened"
    /\ SameLetters(b, d) /\ d.marks = b.marks /\ d.status = b.status
    /\ b.vote = NoVote /\ d.vote \in Votes
    /\ d.vote.openedSeq = e.seq /\ d.vote.by = e.by /\ d.vote.id = e.id
    /\ d.vote.electorate = e.electorate
    /\ d.vote.approvals = {e.by} /\ d.vote.rejections = {}

CastStep(b, e, d) ==
    /\ IsNext(b, e, d) /\ e.type = "checkVoteCast"
    /\ SameLetters(b, d) /\ d.marks = b.marks /\ d.status = b.status
    /\ b.vote \in Votes /\ d.vote \in Votes /\ e.voteSeq = b.vote.openedSeq
    /\ e.by \notin b.vote.approvals \cup b.vote.rejections
    /\ d.vote.openedSeq = b.vote.openedSeq /\ d.vote.by = b.vote.by
    /\ d.vote.id = b.vote.id /\ d.vote.electorate = b.vote.electorate
    /\ d.vote.approvals = b.vote.approvals \cup (IF e.approve THEN {e.by} ELSE {})
    /\ d.vote.rejections = b.vote.rejections \cup (IF e.approve THEN {} ELSE {e.by})

\* A vote closes with the outcome its ballots give it.
CloseStep(b, e, d) ==
    /\ IsNext(b, e, d) /\ e.type = "checkVoteClosed"
    /\ SameLetters(b, d) /\ d.marks = b.marks /\ d.status = b.status
    /\ b.vote \in Votes /\ e.voteSeq = b.vote.openedSeq /\ d.vote = NoVote
    /\ e.outcome = "passed" <=> 2 * Cardinality(b.vote.approvals) > Cardinality(b.vote.electorate)
    /\ e.reason = "REJECTED" <=>
         2 * (Cardinality(b.vote.electorate) - Cardinality(b.vote.rejections))
             <= Cardinality(b.vote.electorate)

CheckStep(b, e, d) ==
    /\ IsNext(b, e, d) /\ e.type = "puzzleChecked"
    /\ d.cells = b.cells /\ d.firstFill = b.firstFill
    /\ d.checks = b.checks + 1 /\ e.checkCount = d.checks
    /\ d.marks = e.wrongCells /\ d.status = b.status
    /\ b.vote = NoVote /\ d.vote = NoVote

EndStep(b, e, d) ==
    /\ IsNext(b, e, d) /\ e.type = "gameCompleted"
    /\ SameLetters(b, d) /\ d.marks = b.marks /\ d.status = "completed"
    /\ b.vote = NoVote /\ d.vote = NoVote

\* What a command itself does.
ActStep(b, e, d) == CellStep(b, e, d) \/ OpenStep(b, e, d) \/ CastStep(b, e, d)

\* The check of the vote on b follows the close that passed it.
PassSteps(b, e, m, f, d) ==
    /\ CloseStep(b, e, m) /\ CheckStep(m, f, d)
    /\ e.outcome = "passed" /\ f.by = b.vote.by /\ f.id = b.vote.id

ClosePath(b, es, d) ==
    \/ \E e : es = <<e>> /\ CloseStep(b, e, d)
    \/ \E e, m, f : es = <<e, f>> /\ PassSteps(b, e, m, f, d)

Path(b, es, d) ==
    \/ es = <<>> /\ d = b
    \/ ClosePath(b, es, d)
    \/ \E e : es = <<e>> /\ ActStep(b, e, d)
    \/ \E e, m, ys : es = <<e>> \o ys /\ ActStep(b, e, m) /\ ClosePath(m, ys, d)
    \/ \E e, m, f : es = <<e, f>> /\ ActStep(b, e, m) /\ EndStep(m, f, d)
    \/ \E e, m, f, n, g : /\ es = <<e, f, g>> /\ ActStep(b, e, m)
                          /\ CloseStep(m, f, n) /\ EndStep(n, g, d)

\* Sizes of an electorate and of the sides in it.
LEMMA BallotCounts ==
    ASSUME NEW v \in Votes, v.approvals \cup v.rejections \subseteq v.electorate
    PROVE  /\ Cardinality(v.approvals) \in Nat /\ Cardinality(v.rejections) \in Nat
           /\ Cardinality(v.electorate) \in Nat
           /\ Needed(v.electorate) \in Nat
           /\ \A n \in Nat : n >= Needed(v.electorate) <=> 2 * n > Cardinality(v.electorate)
           /\ v.approvals \cap v.rejections = {} =>
                Cardinality(v.approvals) <= Cardinality(v.electorate) - Cardinality(v.rejections)
<1>1. /\ IsFiniteSet(v.approvals) /\ IsFiniteSet(v.rejections) /\ IsFiniteSet(v.electorate)
  BY EngineAssumption, FS_Subset DEF Votes
<1>2. /\ Cardinality(v.approvals) \in Nat /\ Cardinality(v.rejections) \in Nat
      /\ Cardinality(v.electorate) \in Nat
  BY <1>1, FS_CardinalityType
<1>3. /\ Needed(v.electorate) \in Nat
      /\ \A n \in Nat : n >= Needed(v.electorate) <=> 2 * n > Cardinality(v.electorate)
  BY <1>2 DEF Needed
<1>4. ASSUME v.approvals \cap v.rejections = {}
      PROVE  Cardinality(v.approvals) <= Cardinality(v.electorate) - Cardinality(v.rejections)
  <2>1. v.approvals \subseteq v.electorate \ v.rejections
    BY <1>4
  <2>2. Cardinality(v.electorate \ v.rejections) = Cardinality(v.electorate) - Cardinality(v.electorate \cap v.rejections)
    BY <1>1, FS_Difference
  <2>3. v.electorate \cap v.rejections = v.rejections
    OBVIOUS
  <2>4. Cardinality(v.approvals) <= Cardinality(v.electorate \ v.rejections)
    BY <1>1, <2>1, FS_Subset, FS_Difference
  <2> QED BY <2>2, <2>3, <2>4
<1> QED BY <1>2, <1>3, <1>4

\* A board with an undecided or just decided vote closes it as its ballots say.
LEMMA CloseFailedStep ==
    ASSUME NEW b \in Boards, b.status = "ongoing", b.vote \in Votes,
           b.vote.approvals \cup b.vote.rejections \subseteq b.vote.electorate,
           Cardinality(b.vote.approvals) < Needed(b.vote.electorate),
           NEW o \in Outcomes, o # "passed", NEW why \in Reasons,
           why = "REJECTED" <=>
             Cardinality(b.vote.electorate) - Cardinality(b.vote.rejections)
               < Needed(b.vote.electorate),
           NEW r, r = CloseFailed(b, b.vote, o, why)
    PROVE  \E e : r.events = <<e>> /\ CloseStep(b, e, r.state)
<1> DEFINE n == b.seq + 1
           d == [b EXCEPT !.seq = n, !.vote = NoVote]
           e == VoteClosed(n, b.vote.openedSeq, o, why)
           yes == Cardinality(b.vote.approvals)
           no == Cardinality(b.vote.rejections)
           all == Cardinality(b.vote.electorate)
<1>1. n \in Nat
  BY DEF Boards
<1>2. r.state = d /\ r.events = <<e>>
  BY DEF CloseFailed, Accept
<1>3. yes \in Nat /\ no \in Nat /\ all \in Nat
      /\ \A k \in Nat : k >= Needed(b.vote.electorate) <=> 2 * k > all
  BY BallotCounts
<1>4. Needed(b.vote.electorate) \in Nat
  BY BallotCounts
<1>5. ~ (2 * yes > all)
  BY <1>3, <1>4
<1>6. why = "REJECTED" <=> 2 * (all - no) <= all
  <2>1. CASE all - no \in Nat
    BY <1>3, <1>4, <2>1
  <2>2. CASE all - no \notin Nat
    BY <1>3, <1>4, <2>2
  <2> QED BY <2>1, <2>2
<1>7. /\ e \in Events /\ e.seq = n /\ e.type = "checkVoteClosed"
      /\ e.voteSeq = b.vote.openedSeq /\ e.outcome = o /\ e.reason = why
  BY <1>1 DEF Events, VoteClosed, Votes
<1> HIDE DEF n, e
<1>8. /\ d \in Boards /\ SameLetters(b, d) /\ d.marks = b.marks /\ d.status = b.status
      /\ d.vote = NoVote /\ d.seq = n
  BY <1>1, NoVoteIsAVote DEF Boards, SameLetters
<1> HIDE DEF d, yes, no, all
<1>9. IsNext(b, e, d)
  BY <1>7, <1>8 DEF IsNext, n
<1>10. e.outcome = "passed" <=> 2 * yes > all
  BY <1>5, <1>7
<1>11. e.reason = "REJECTED" <=> 2 * (all - no) <= all
  BY <1>6, <1>7
<1>12. CloseStep(b, e, d)
  BY <1>7, <1>8, <1>9, <1>10, <1>11 DEF CloseStep, yes, no, all
<1> QED BY <1>2, <1>12

LEMMA ClosePassedPath ==
    ASSUME NEW b, TalliedBoard(b),
           Cardinality(b.vote.approvals) >= Needed(b.vote.electorate)
    PROVE  ClosePath(b, ClosePassed(b, b.vote).events, ClosePassed(b, b.vote).state)
<1> DEFINE n == b.seq + 1
           k == b.seq + 2
           j == b.checks + 1
           w == ComparatorFailures(b)
           m == [b EXCEPT !.seq = n, !.vote = NoVote]
           d == [b EXCEPT !.seq = k, !.marks = w, !.checks = j, !.vote = NoVote]
           e == VoteClosed(n, b.vote.openedSeq, "passed", "none")
           f == PuzzleChecked(k, w, j, b.vote.by, b.vote.id)
           yes == Cardinality(b.vote.approvals)
           no == Cardinality(b.vote.rejections)
           all == Cardinality(b.vote.electorate)
<1>1. b \in Boards /\ b.vote \in Votes /\ b.status = "ongoing"
  BY DEF TalliedBoard
<1>2. w \subseteq Cells
  BY CheckFindsSomething DEF TalliedBoard, GoodGrid
<1>3. n \in Nat /\ k \in Nat /\ j \in Nat /\ k = n + 1 /\ n = b.seq + 1
  BY <1>1 DEF Boards
<1>4. yes \in Nat /\ no \in Nat /\ all \in Nat /\ yes <= all - no
      /\ \A i \in Nat : i >= Needed(b.vote.electorate) <=> 2 * i > all
  BY <1>1, BallotCounts DEF TalliedBoard
<1>5. 2 * yes > all /\ ~ (2 * (all - no) <= all)
  BY <1>4
<1>6. ClosePassed(b, b.vote).state = d /\ ClosePassed(b, b.vote).events = <<e, f>>
  BY DEF ClosePassed, Accept
<1>7. /\ e \in Events /\ e.seq = n /\ e.type = "checkVoteClosed"
      /\ e.voteSeq = b.vote.openedSeq /\ e.outcome = "passed" /\ e.reason = "none"
  BY <1>1, <1>3 DEF Events, VoteClosed, Votes, Outcomes, Reasons
<1>8. /\ f \in Events /\ f.seq = k /\ f.type = "puzzleChecked" /\ f.wrongCells = w
      /\ f.by = b.vote.by /\ f.id = b.vote.id /\ f.checkCount = j
  BY <1>1, <1>2, <1>3 DEF Events, PuzzleChecked, Votes
<1> HIDE DEF n, k, j, w, e, f
<1>9. /\ m \in Boards /\ SameLetters(b, m) /\ m.marks = b.marks /\ m.status = b.status
      /\ m.vote = NoVote /\ m.seq = n
  BY <1>1, <1>3, NoVoteIsAVote DEF Boards, SameLetters
<1>10. /\ d \in Boards /\ d.cells = b.cells /\ d.firstFill = b.firstFill /\ d.checks = j
       /\ d.marks = w /\ d.status = b.status /\ d.vote = NoVote /\ d.seq = k
  BY <1>1, <1>2, <1>3, NoVoteIsAVote DEF Boards
<1> HIDE DEF m, d, yes, no, all
<1>11. IsNext(b, e, m) /\ IsNext(m, f, d)
  BY <1>1, <1>3, <1>7, <1>8, <1>9, <1>10 DEF IsNext
<1>12a. e.reason # "REJECTED"
  BY <1>7
<1>12. CloseStep(b, e, m)
  BY <1>1, <1>5, <1>7, <1>9, <1>11, <1>12a DEF CloseStep, yes, no, all
<1>13. d.checks = m.checks + 1
  BY <1>9, <1>10 DEF SameLetters, j
<1>14. CheckStep(m, f, d)
  BY <1>8, <1>9, <1>10, <1>11, <1>13 DEF CheckStep, SameLetters
<1>15. PassSteps(b, e, m, f, d)
  BY <1>7, <1>8, <1>12, <1>14 DEF PassSteps
<1> QED BY <1>6, <1>15 DEF ClosePath

LEMMA ResolvePath ==
    ASSUME NEW b, TalliedBoard(b), NEW r, r = ResolveByTally(b)
    PROVE  (r.events = <<>> /\ r.state = b) \/ ClosePath(b, r.events, r.state)
<1>1. CASE Cardinality(b.vote.approvals) >= Needed(b.vote.electorate)
  <2>1. r = ClosePassed(b, b.vote)
    BY <1>1 DEF ResolveByTally
  <2> QED BY <1>1, <2>1, ClosePassedPath
<1>2. CASE /\ ~ Cardinality(b.vote.approvals) >= Needed(b.vote.electorate)
           /\ Cardinality(b.vote.electorate) - Cardinality(b.vote.rejections)
                 < Needed(b.vote.electorate)
  <2> DEFINE o == "failed"
             why == "REJECTED"
  <2>1. r = CloseFailed(b, b.vote, o, why)
    BY <1>2 DEF ResolveByTally
  <2>2. o \in Outcomes /\ o # "passed" /\ why \in Reasons
    BY DEF Outcomes, Reasons
  <2>3. why = "REJECTED" <=>
             Cardinality(b.vote.electorate) - Cardinality(b.vote.rejections)
               < Needed(b.vote.electorate)
    BY <1>2
  <2>4. /\ b \in Boards /\ b.status = "ongoing" /\ b.vote \in Votes
        /\ b.vote.approvals \cup b.vote.rejections \subseteq b.vote.electorate
    BY DEF TalliedBoard
  <2>5. Cardinality(b.vote.approvals) < Needed(b.vote.electorate)
    BY <1>2, <2>4, BallotCounts
  <2> HIDE DEF o, why
  <2>6. \E e : r.events = <<e>> /\ CloseStep(b, e, r.state)
    BY <2>1, <2>2, <2>3, <2>4, <2>5, CloseFailedStep
  <2> QED BY <2>6 DEF ClosePath
<1>3. CASE /\ ~ Cardinality(b.vote.approvals) >= Needed(b.vote.electorate)
           /\ ~ Cardinality(b.vote.electorate) - Cardinality(b.vote.rejections)
                  < Needed(b.vote.electorate)
  BY <1>3 DEF ResolveByTally, Accept
<1> QED BY <1>1, <1>2, <1>3

\* A step, then what the tally makes of the board it leads to.
LEMMA ThenPath ==
    ASSUME NEW b, NEW e, NEW m, ActStep(b, e, m), NEW r,
           (r.events = <<>> /\ r.state = m) \/ ClosePath(m, r.events, r.state)
    PROVE  Path(b, Then(<<e>>, r).events, Then(<<e>>, r).state)
<1>1. Then(<<e>>, r).events = <<e>> \o r.events /\ Then(<<e>>, r).state = r.state
  BY DEF Then, Accept
<1>2. CASE r.events = <<>> /\ r.state = m
  BY <1>1, <1>2 DEF Path
<1>3. CASE ClosePath(m, r.events, r.state)
  BY <1>1, <1>3 DEF Path
<1> QED BY <1>2, <1>3

LEMMA OpenVotePath ==
    ASSUME NEW b \in Boards, GoodBoard(b), NEW cmd \in Proposals, NEW r, r = OpenVote(b, cmd)
    PROVE  Path(b, r.events, r.state)
<1> DEFINE n == b.seq + 1
           v == [openedSeq |-> n, by |-> cmd.by, id |-> cmd.id,
                 electorate |-> cmd.electorate, approvals |-> {cmd.by},
                 rejections |-> {}]
           e == VoteOpened(n, v)
           d == [b EXCEPT !.seq = n, !.vote = v]
<1>1. CASE b.status # "ongoing" \/ ~ IsFull(b) \/ b.vote # NoVote
  <2>1. \E code : r = Reject(b, code)
    BY <1>1 DEF OpenVote
  <2> QED BY <2>1 DEF Reject, Path
<1>2. CASE b.status = "ongoing" /\ IsFull(b) /\ b.vote = NoVote
  <2>1. r = Then(<<e>>, ResolveByTally([b EXCEPT !.seq = @ + 1, !.vote = v]))
    BY <1>2 DEF OpenVote
  <2>1a. [b EXCEPT !.seq = @ + 1, !.vote = v] = d
    BY Zenon
  <2>2. n \in Nat
    BY DEF Boards
  <2>3. /\ v \in Votes /\ v.openedSeq = n /\ v.electorate = cmd.electorate
        /\ v.approvals = {cmd.by} /\ v.rejections = {} /\ v.by = cmd.by /\ v.id = cmd.id
        /\ v.approvals \cup v.rejections \subseteq v.electorate
        /\ v.approvals \cap v.rejections = {}
    BY <2>2 DEF Votes, Proposals
  <2> HIDE DEF v
  <2>4. /\ e \in Events /\ e.seq = n /\ e.type = "checkVoteOpened" /\ e.by = v.by
        /\ e.id = v.id /\ e.electorate = v.electorate
    BY <2>2, <2>3 DEF Events, VoteOpened, Votes
  <2> HIDE DEF n, e
  <2>5. TalliedBoard([b EXCEPT !.seq = @ + 1, !.vote = v])
    BY <1>2, <2>3, NewTally, GoodGridOfGoodBoard
  <2>6. /\ d \in Boards /\ SameLetters(b, d) /\ d.marks = b.marks /\ d.status = b.status
        /\ d.vote = v /\ d.seq = n
    BY <2>2, <2>3, NoVoteIsAVote DEF Boards, SameLetters
  <2> HIDE DEF d
  <2>7. OpenStep(b, e, d)
    BY <1>2, <2>3, <2>4, <2>6 DEF OpenStep, IsNext, n
  <2>8. \/ ResolveByTally(d).events = <<>> /\ ResolveByTally(d).state = d
        \/ ClosePath(d, ResolveByTally(d).events, ResolveByTally(d).state)
    BY <2>1a, <2>5, ResolvePath
  <2>9. ActStep(b, e, d)
    BY <2>7 DEF ActStep
  <2> QED BY <2>1, <2>1a, <2>8, <2>9, ThenPath
<1> QED BY <1>1, <1>2

LEMMA CastVotePath ==
    ASSUME NEW b \in Boards, GoodBoard(b), NEW cmd \in Ballots, NEW r, r = CastVote(b, cmd)
    PROVE  Path(b, r.events, r.state)
<1> DEFINE n == b.seq + 1
           v == IF cmd.approve
                THEN [b.vote EXCEPT !.approvals = @ \cup {cmd.by}]
                ELSE [b.vote EXCEPT !.rejections = @ \cup {cmd.by}]
           e == VoteCast(n, b.vote.openedSeq, cmd.by, cmd.approve)
           d == [b EXCEPT !.seq = n, !.vote = v]
           gate == \/ b.status # "ongoing"
                   \/ b.vote = NoVote \/ b.vote.openedSeq # cmd.voteSeq
                   \/ cmd.by \notin b.vote.electorate
                   \/ cmd.by \in b.vote.approvals \cup b.vote.rejections
<1>1. CASE gate
  <2>1. \E code : r = Reject(b, code)
    BY <1>1 DEF CastVote
  <2> QED BY <2>1 DEF Reject, Path
<1>2. CASE ~ gate
  <2>1. r = Then(<<e>>, ResolveByTally([b EXCEPT !.seq = @ + 1, !.vote = v]))
    BY <1>2 DEF CastVote
  <2>1a. [b EXCEPT !.seq = @ + 1, !.vote = v] = d
    BY Zenon
  <2>2. n \in Nat /\ b.vote \in Votes /\ cmd.approve \in BOOLEAN /\ cmd.by \in Users
    BY <1>2 DEF Boards, MaybeVotes, Ballots
  <2>3. /\ v \in Votes /\ v.openedSeq = b.vote.openedSeq /\ v.electorate = b.vote.electorate
        /\ v.by = b.vote.by /\ v.id = b.vote.id
        /\ v.approvals = b.vote.approvals \cup (IF cmd.approve THEN {cmd.by} ELSE {})
        /\ v.rejections = b.vote.rejections \cup (IF cmd.approve THEN {} ELSE {cmd.by})
    BY <2>2 DEF Votes
  <2>3a. /\ v.approvals \cup v.rejections \subseteq v.electorate
         /\ v.approvals \cap v.rejections = {}
    BY <1>2, <2>3 DEF GoodBoard, VoteIsUndecided
  <2> HIDE DEF v
  <2>4. /\ e \in Events /\ e.seq = n /\ e.type = "checkVoteCast" /\ e.by = cmd.by
        /\ e.voteSeq = b.vote.openedSeq /\ e.approve = cmd.approve
    BY <2>2 DEF Events, VoteCast, Votes
  <2>5. b.status = "ongoing" /\ IsFull(b)
    BY <1>2 DEF GoodBoard, VoteOnFullGrid
  <2> HIDE DEF n, e
  <2>6. TalliedBoard([b EXCEPT !.seq = @ + 1, !.vote = v])
    BY <2>3, <2>3a, <2>5, NewTally, GoodGridOfGoodBoard
  <2>7. /\ d \in Boards /\ SameLetters(b, d) /\ d.marks = b.marks /\ d.status = b.status
        /\ d.vote = v /\ d.seq = n
    BY <2>2, <2>3, NoVoteIsAVote DEF Boards, SameLetters
  <2> HIDE DEF d
  <2>8. IsNext(b, e, d)
    BY <2>4, <2>5, <2>7 DEF IsNext, n
  <2>8a. cmd.by \notin b.vote.approvals \cup b.vote.rejections
    BY <1>2
  <2>9. CastStep(b, e, d)
    BY <2>2, <2>8a, <2>3, <2>4, <2>7, <2>8 DEF CastStep
  <2>10. \/ ResolveByTally(d).events = <<>> /\ ResolveByTally(d).state = d
         \/ ClosePath(d, ResolveByTally(d).events, ResolveByTally(d).state)
    BY <2>1a, <2>6, ResolvePath
  <2>11. ActStep(b, e, d)
    BY <2>9 DEF ActStep
  <2> QED BY <2>1, <2>1a, <2>10, <2>11, ThenPath
<1> QED BY <1>1, <1>2

\* Expiry, or the end of the grid under it, closes an undecided vote undecided.
LEMMA UndecidedClose ==
    ASSUME NEW b \in Boards, b.status = "ongoing", b.vote # NoVote, VoteIsUndecided(b),
           NEW o \in Outcomes, o # "passed", NEW why \in Reasons, why # "REJECTED",
           NEW r, r = CloseFailed(b, b.vote, o, why)
    PROVE  \E e : r.events = <<e>> /\ CloseStep(b, e, r.state)
<1>1. b.vote \in Votes
  BY DEF Boards, MaybeVotes
<1>2. /\ b.vote.approvals \cup b.vote.rejections \subseteq b.vote.electorate
      /\ Cardinality(b.vote.approvals) < Needed(b.vote.electorate)
      /\ Cardinality(b.vote.electorate) - Cardinality(b.vote.rejections)
              >= Needed(b.vote.electorate)
  BY DEF VoteIsUndecided
<1>3. ~ (Cardinality(b.vote.electorate) - Cardinality(b.vote.rejections)
              < Needed(b.vote.electorate))
  BY <1>1, <1>2, BallotCounts
<1> QED BY <1>1, <1>2, <1>3, CloseFailedStep

LEMMA ExpireVotePath ==
    ASSUME NEW b \in Boards, GoodBoard(b), NEW r, r = ExpireVote(b)
    PROVE  Path(b, r.events, r.state)
<1>1. CASE b.vote = NoVote
  BY <1>1 DEF ExpireVote, Accept, Path
<1>2. CASE b.vote # NoVote
  <2> DEFINE o == "failed"
             why == "EXPIRED"
  <2>1. o \in Outcomes /\ o # "passed" /\ why \in Reasons /\ why # "REJECTED"
    BY DEF Outcomes, Reasons
  <2>2. r = CloseFailed(b, b.vote, o, why)
    BY <1>2 DEF ExpireVote
  <2>3. b.status = "ongoing" /\ VoteIsUndecided(b)
    BY <1>2 DEF GoodBoard, VoteOnFullGrid
  <2> HIDE DEF o, why
  <2>4. \E e : r.events = <<e>> /\ CloseStep(b, e, r.state)
    BY <1>2, <2>1, <2>2, <2>3, UndecidedClose
  <2> QED BY <2>4 DEF Path, ClosePath
<1> QED BY <1>1, <1>2

LEMMA TwoOrThree ==
    ASSUME NEW S, NEW s \in Seq(S)
    PROVE  /\ Len(s) = 2 => s = <<s[1], s[2]>>
           /\ Len(s) = 3 => s = <<s[1], s[2], s[3]>>
OBVIOUS

LEMMA EventsInARow ==
    ASSUME NEW S, NEW e \in S, NEW f \in S, NEW g \in S
    PROVE  <<e>> \o <<f>> = <<e, f>> /\ <<e>> \o <<f, g>> = <<e, f, g>>
<1> DEFINE s == <<e>> \o <<f>>
           t == <<e>> \o <<f, g>>
<1>1. s \in Seq(S) /\ Len(s) = 2 /\ s[1] = e /\ s[2] = f
  OBVIOUS
<1>2. <<f, g>> \in Seq(S) /\ Len(<<f, g>>) = 2 /\ <<f, g>>[1] = f /\ <<f, g>>[2] = g
  OBVIOUS
<1>3. t \in Seq(S) /\ Len(t) = 3 /\ t[1] = e /\ t[2] = f /\ t[3] = g
  BY <1>2
<1> HIDE DEF s, t
<1>4. s = <<e, f>> /\ t = <<e, f, g>>
  BY <1>1, <1>3, TwoOrThree
<1> QED BY <1>4 DEF s, t

LEMMA ThenHas ==
    ASSUME NEW es, NEW r
    PROVE  Then(es, r).state = r.state /\ Then(es, r).events = es \o r.events
BY DEF Then, Accept

LEMMA CompleteStep ==
    ASSUME NEW b \in Boards, b.status = "ongoing", b.vote = NoVote,
           NEW r, r = Complete(b)
    PROVE  \E e : r.events = <<e>> /\ EndStep(b, e, r.state)
<1> DEFINE n == b.seq + 1
           d == [b EXCEPT !.status = "completed", !.seq = n]
           e == GameCompleted(n)
<1>1. n \in Nat
  BY DEF Boards
<1>2. r.state = d /\ r.events = <<e>>
  BY DEF Complete, Accept
<1>3. e \in Events /\ e.seq = n /\ e.type = "gameCompleted"
  BY <1>1 DEF Events, GameCompleted
<1> HIDE DEF n, e
<1>4. /\ d \in Boards /\ SameLetters(b, d) /\ d.marks = b.marks
      /\ d.vote = NoVote /\ d.status = "completed" /\ d.seq = n
  BY <1>1 DEF Boards, Statuses, SameLetters
<1> HIDE DEF d
<1>5. EndStep(b, e, d)
  BY <1>3, <1>4 DEF EndStep, IsNext, n
<1> QED BY <1>2, <1>5

LEMMA WriteStep ==
    ASSUME NEW b \in Boards, GoodBoard(b), b.status = "ongoing",
           NEW c \in Cells, NEW v \in Values \cup {NoValue}, NEW id \in CommandIds
    PROVE  CellStep(b, CellSet(b.seq + 1, c, v, id), Write(b, c, v))
<1> DEFINE e == CellSet(b.seq + 1, c, v, id)
           w == Write(b, c, v)
<1>1. /\ w \in Boards /\ w.vote = b.vote /\ w.status = b.status /\ w.seq = b.seq + 1
  BY WriteKeepsBoard DEF GoodBoard
<1>2. /\ e \in Events /\ e.type = "cellSet" /\ e.seq = b.seq + 1 /\ e.cell = c /\ e.value = v
  BY DEF Events, CellSet, Boards
<1>3. /\ w.cells = [b.cells EXCEPT ![c] = v] /\ w.checks = b.checks
      /\ w.firstFill = IF b.firstFill = 0 /\ v # NoValue THEN b.seq + 1 ELSE b.firstFill
      /\ w.marks = IF v # b.cells[c] THEN b.marks \ {c} ELSE b.marks
  BY DEF Write, Boards
<1> HIDE DEF e, w
<1>4. CellStep(b, e, w)
  BY <1>1, <1>2, <1>3 DEF CellStep, IsNext
<1> QED BY <1>4 DEF e, w

LEMMA ApplyMutationPath ==
    ASSUME NEW b \in Boards, GoodBoard(b), NEW cmd \in CellCommands,
           NEW r, r = ApplyMutation(b, cmd)
    PROVE  Path(b, r.events, r.state)
<1> DEFINE v == ValueOf(cmd)
           next == Write(b, cmd.cell, v)
           e == CellSet(b.seq + 1, cmd.cell, v, cmd.id)
           solved == IsFull(next) /\ BoardIsCorrect(next)
           gate == \/ b.status # "ongoing" \/ cmd.cell \notin Cells
                   \/ cmd.type = "placeLetter" /\ ValueOf(cmd) = NoValue
<1>1. CASE gate
  <2>1. \E code : Reduce(b, cmd) = Reject(b, code) /\ code # "none"
    BY <1>1 DEF Reduce
  <2>2. r = Reduce(b, cmd)
    BY <2>1 DEF ApplyMutation, Reject
  <2> QED BY <2>1, <2>2 DEF Reject, Path
<1>2. CASE ~ gate
  <2>1. v \in Values \cup {NoValue} /\ cmd.cell \in Cells /\ cmd.id \in CommandIds
    BY <1>2, NormalizedType DEF CellCommands
  <2>2. Reduce(b, cmd) = Accept(next, <<e>>)
    BY <1>2 DEF Reduce
  <2>3. FilledIsExact(b) /\ MarksAreWrong(b) /\ b.status = "ongoing" /\ VoteIsUndecided(b)
    BY <1>2 DEF GoodBoard
  <2>4. /\ next \in Boards /\ next.vote = b.vote /\ next.status = "ongoing"
    BY <2>1, <2>3, WriteKeepsBoard
  <2>5. ActStep(b, e, next)
    BY <2>1, <2>3, WriteStep DEF ActStep
  <2>6. VoteIsUndecided(next)
    BY <2>3, <2>4 DEF VoteIsUndecided
  <2> HIDE DEF v, next, e
  <2> DEFINE o == "cancelled"
  <2>7. o \in Outcomes /\ o # "passed"
    BY DEF Outcomes
  <2>8. CASE next.vote # NoVote /\ solved
    <3> DEFINE why == "TERMINAL"
               c == CloseFailed(next, next.vote, o, why)
               g == Complete(c.state)
    <3>1. r = Then(<<e>>, Then(c.events, g))
      BY <2>2, <2>4, <2>8 DEF ApplyMutation, Accept
    <3>2. why \in Reasons /\ why # "REJECTED"
      BY DEF Reasons
    <3>3. c = CloseFailed(next, next.vote, o, why)
      OBVIOUS
    <3> HIDE DEF why, c, o
    <3>4. PICK f : c.events = <<f>> /\ CloseStep(next, f, c.state)
      BY <2>4, <2>6, <2>7, <2>8, <3>2, <3>3, UndecidedClose
    <3>5. c.state \in Boards /\ c.state.status = "ongoing" /\ c.state.vote = NoVote
      BY <2>4, <3>4 DEF CloseStep, IsNext
    <3>6. PICK h : g.events = <<h>> /\ EndStep(c.state, h, g.state)
      BY <3>5, CompleteStep
    <3> HIDE DEF g
    <3>6a. c.events \o g.events = <<f, h>> /\ <<e>> \o <<f, h>> = <<e, f, h>>
      <4>1. e \in Events /\ f \in Events /\ h \in Events
        BY <2>5, <3>4, <3>6 DEF ActStep, CellStep, OpenStep, CastStep, CloseStep, EndStep, IsNext
      <4> QED BY <3>4, <3>6, <4>1, EventsInARow
    <3>6b. /\ Then(c.events, g).state = g.state
           /\ Then(c.events, g).events = c.events \o g.events
      BY ThenHas
    <3>6c. /\ r.state = Then(c.events, g).state
           /\ r.events = <<e>> \o Then(c.events, g).events
      <4> DEFINE t == Then(c.events, g)
      <4>1. r = Then(<<e>>, t)
        BY <3>1
      <4> HIDE DEF t
      <4>2. Then(<<e>>, t).state = t.state /\ Then(<<e>>, t).events = <<e>> \o t.events
        BY ThenHas
      <4>3. r.state = t.state /\ r.events = <<e>> \o t.events
        BY <4>1, <4>2
      <4> QED BY <4>3 DEF t
    <3>7. r.state = g.state /\ r.events = <<e, f, h>>
      BY <3>6a, <3>6b, <3>6c
    <3> QED BY <2>5, <3>4, <3>6, <3>7 DEF Path
  <2>9. CASE next.vote # NoVote /\ ~ solved /\ ~ IsFull(next)
    <3> DEFINE why == "GRID_BROKEN"
               c == CloseFailed(next, next.vote, o, why)
    <3>1. r = Then(<<e>>, c)
      BY <2>2, <2>4, <2>9 DEF ApplyMutation, Accept
    <3>2. why \in Reasons /\ why # "REJECTED"
      BY DEF Reasons
    <3>3. c = CloseFailed(next, next.vote, o, why)
      OBVIOUS
    <3> HIDE DEF why, c, o
    <3>4. PICK f : c.events = <<f>> /\ CloseStep(next, f, c.state)
      BY <2>4, <2>6, <2>7, <2>9, <3>2, <3>3, UndecidedClose
    <3>5. ClosePath(next, c.events, c.state)
      BY <3>4 DEF ClosePath
    <3> QED BY <2>5, <3>1, <3>5, ThenPath
  <2>10. CASE next.vote = NoVote /\ solved
    <3> DEFINE g == Complete(next)
    <3>1. r = Then(<<e>>, g)
      BY <2>2, <2>4, <2>10 DEF ApplyMutation, Accept
    <3>2. PICK h : g.events = <<h>> /\ EndStep(next, h, g.state)
      BY <2>4, <2>10, CompleteStep
    <3> HIDE DEF g
    <3>3. r.state = g.state /\ r.events = <<e, h>>
      <4>1. e \in Events /\ h \in Events
        BY <2>5, <3>2 DEF ActStep, CellStep, OpenStep, CastStep, EndStep, IsNext
      <4>2. r.state = g.state /\ r.events = <<e>> \o g.events
        BY <3>1, ThenHas
      <4>3. <<e>> \o <<h>> = <<e, h>>
        BY <4>1, EventsInARow
      <4> QED BY <3>2, <4>2, <4>3
    <3> QED BY <2>5, <3>2, <3>3 DEF Path
  <2>11. CASE ~ solved /\ (next.vote = NoVote \/ IsFull(next))
    <3>1. r = Accept(next, <<e>>)
      BY <2>2, <2>4, <2>11 DEF ApplyMutation, Accept
    <3> QED BY <2>5, <3>1 DEF Accept, Path
  <2> QED BY <2>8, <2>9, <2>10, <2>11
<1> QED BY <1>1, <1>2

\* Every call of the vote driver is a path of single steps.
THEOREM EngineTakesSteps ==
    ASSUME NEW b \in Boards, GoodBoard(b), NEW cmd \in Commands,
           NEW r, r = ApplyWithVote(b, cmd)
    PROVE  Path(b, r.events, r.state)
<1>1. CASE cmd \in CellCommands
  <2>1. cmd.type \in {"placeLetter", "clearCell"}
    BY <1>1 DEF CellCommands
  <2> QED BY <1>1, <2>1, ApplyMutationPath DEF ApplyWithVote
<1>2. CASE cmd \in Proposals
  <2>1. cmd.type = "checkPuzzle"
    BY <1>2 DEF Proposals
  <2> QED BY <1>2, <2>1, OpenVotePath DEF ApplyWithVote
<1>3. CASE cmd \in Ballots
  <2>1. cmd.type = "castCheckVote"
    BY <1>3 DEF Ballots
  <2> QED BY <1>3, <2>1, CastVotePath DEF ApplyWithVote
<1>4. CASE cmd = Expiry
  BY <1>4, ExpireVotePath DEF ApplyWithVote, Expiry
<1> QED BY <1>1, <1>2, <1>3, <1>4 DEF Commands

-----------------------------------------------------------------------------
(* Refusals, and the ids that events carry.                                *)

\* A finished game refuses every message a client can send.
LEMMA OverRejects ==
    ASSUME NEW b, b.status # "ongoing",
           NEW cmd \in CellCommands \cup Proposals \cup Ballots
    PROVE  ApplyWithVote(b, cmd).error # "none"
<1>1. CASE cmd \in CellCommands
  BY <1>1 DEF ApplyWithVote, ApplyMutation, Reduce, Reject, CellCommands
<1>2. CASE cmd \in Proposals
  BY <1>2 DEF ApplyWithVote, OpenVote, Reject, Proposals
<1>3. CASE cmd \in Ballots
  BY <1>3 DEF ApplyWithVote, CastVote, Reject, Ballots
<1> QED BY <1>1, <1>2, <1>3

\* Only a command's first event carries its id.
HasId(e) == e.type \in {"cellSet", "checkVoteOpened"}

LEMMA FirstOfConcat ==
    ASSUME NEW e, NEW t, t = <<>> \/ (\E x : t = <<x>>) \/ (\E x, y : t = <<x, y>>)
    PROVE  (<<e>> \o t)[1] = e /\ <<e>> \o t # <<>>
<1>1. CASE t = <<>>
  BY <1>1
<1>2. CASE \E x : t = <<x>>
  BY <1>2
<1>3. CASE \E x, y : t = <<x, y>>
  BY <1>3
<1> QED BY <1>1, <1>2, <1>3

LEMMA TallyEvents ==
    ASSUME NEW b, NEW t, t = ResolveByTally(b).events
    PROVE  t = <<>> \/ (\E x : t = <<x>>) \/ (\E x, y : t = <<x, y>>)
BY DEF ResolveByTally, ClosePassed, CloseFailed, Accept

\* What a command itself tells, before what follows from it.
Tellings == {"cellSet", "checkVoteOpened", "checkVoteCast"}

\* An accepted command tells at least what it did, and its events name no other
\* command.
LEMMA FirstCarriesId ==
    ASSUME NEW b, NEW cmd \in CellCommands \cup Proposals \cup Ballots,
           NEW es, es = ApplyWithVote(b, cmd).events
    PROVE  /\ ApplyWithVote(b, cmd).error = "none" => es # <<>>
           /\ es # <<>> => /\ es[1].type \in Tellings
                           /\ HasId(es[1]) => es[1].id = cmd.id
<1>1. CASE cmd \in CellCommands
  <2>1. es = ApplyMutation(b, cmd).events /\ ApplyWithVote(b, cmd) = ApplyMutation(b, cmd)
    BY <1>1 DEF ApplyWithVote, CellCommands
  <2> DEFINE r == Reduce(b, cmd)
             next == r.state
             e == CellSet(b.seq + 1, cmd.cell, ValueOf(cmd), cmd.id)
  <2>2. r.events = <<e>> \/ (r.events = <<>> /\ r.error # "none")
    BY DEF Reduce, Reject, Accept
  <2>3. /\ \A v, o, why : \E x : CloseFailed(next, v, o, why).events = <<x>>
        /\ \A c : \E x : Complete(c).events = <<x>>
    BY DEF CloseFailed, Complete, Accept
  <2>4. \/ es = r.events
        \/ \E x : es = r.events \o <<x>>
        \/ \E x, y : es = r.events \o (<<x>> \o <<y>>)
    <3> DEFINE c == Complete(next)
               g == CloseFailed(next, next.vote, "cancelled", "GRID_BROKEN")
               k == CloseFailed(next, next.vote, "cancelled", "TERMINAL")
               d == Complete(k.state)
    <3>1. \/ ApplyMutation(b, cmd) = r
          \/ ApplyMutation(b, cmd) = Then(r.events, c)
          \/ ApplyMutation(b, cmd) = Then(r.events, g)
          \/ ApplyMutation(b, cmd) = Then(r.events, Then(k.events, d))
      <4> HIDE DEF r
      <4> QED BY DEF ApplyMutation, r
    <3>2. PICK x : c.events = <<x>>
      BY <2>3
    <3>3. PICK y : g.events = <<y>>
      BY <2>3
    <3>4. PICK z : k.events = <<z>>
      BY <2>3
    <3>5. PICK w : d.events = <<w>>
      BY <2>3
    <3> HIDE DEF r, c, g, k, d
    <3>6. /\ Then(r.events, c).events = r.events \o c.events
          /\ Then(r.events, g).events = r.events \o g.events
          /\ Then(r.events, Then(k.events, d)).events = r.events \o (k.events \o d.events)
      BY DEF Then, Accept
    <3> QED BY <2>1, <3>1, <3>2, <3>3, <3>4, <3>5, <3>6
  <2>5. /\ ApplyWithVote(b, cmd).error = "none" => es # <<>>
        /\ es # <<>> => es[1] = e
    <3> HIDE DEF e, r
    <3>1. CASE r.events = <<e>>
      <4>1. CASE es = r.events
        <5>1. <<e>> # <<>> /\ <<e>>[1] = e
          OBVIOUS
        <5> QED BY <3>1, <4>1, <5>1
      <4>2. CASE \E x : es = r.events \o <<x>>
        BY <3>1, <4>2, FirstOfConcat
      <4>3. CASE \E x, y : es = r.events \o (<<x>> \o <<y>>)
        <5>1. \A x, y : <<x>> \o <<y>> = <<x, y>>
          <6> SUFFICES ASSUME NEW x, NEW y PROVE <<x>> \o <<y>> = <<x, y>>
            OBVIOUS
          <6>1. x \in {x, y} /\ y \in {x, y}
            OBVIOUS
          <6> QED BY <6>1, EventsInARow
        <5> QED BY <3>1, <4>3, <5>1, FirstOfConcat
      <4> QED BY <2>4, <4>1, <4>2, <4>3
    <3>2. CASE r.events = <<>> /\ r.error # "none"
      <4>1. ApplyMutation(b, cmd) = r
        BY <3>2 DEF ApplyMutation, r
      <4> QED BY <2>1, <3>2, <4>1
    <3> QED BY <2>2, <3>1, <3>2
  <2>6. e.type \in Tellings /\ e.id = cmd.id
    BY DEF CellSet, Tellings
  <2> HIDE DEF e
  <2> QED BY <2>5, <2>6
<1>2. CASE cmd \in Proposals
  <2>1. es = OpenVote(b, cmd).events /\ ApplyWithVote(b, cmd) = OpenVote(b, cmd)
    BY <1>2 DEF ApplyWithVote, Proposals
  <2> DEFINE v == [openedSeq |-> b.seq + 1, by |-> cmd.by, id |-> cmd.id,
                   electorate |-> cmd.electorate, approvals |-> {cmd.by},
                   rejections |-> {}]
             e == VoteOpened(b.seq + 1, v)
             t == ResolveByTally([b EXCEPT !.seq = @ + 1, !.vote = v])
  <2>2. \/ OpenVote(b, cmd) = Then(<<e>>, t)
        \/ \E code : code # "none" /\ OpenVote(b, cmd) = Reject(b, code)
    BY DEF OpenVote
  <2>3. e.type \in Tellings /\ e.id = cmd.id
    BY DEF VoteOpened, Tellings
  <2> HIDE DEF e, v
  <2>4. (<<e>> \o t.events)[1] = e /\ <<e>> \o t.events # <<>>
    BY TallyEvents, FirstOfConcat
  <2> HIDE DEF t
  <2>5. \/ es = <<e>> \o t.events
        \/ es = <<>> /\ ApplyWithVote(b, cmd).error # "none"
    <3>1. Then(<<e>>, t).events = <<e>> \o t.events
      BY DEF Then, Accept
    <3>2. \A code : Reject(b, code).events = <<>> /\ Reject(b, code).error = code
      BY DEF Reject
    <3> QED BY <2>1, <2>2, <3>1, <3>2
  <2> QED BY <2>3, <2>4, <2>5
<1>3. CASE cmd \in Ballots
  <2>1. es = CastVote(b, cmd).events /\ ApplyWithVote(b, cmd) = CastVote(b, cmd)
    BY <1>3 DEF ApplyWithVote, Ballots
  <2> DEFINE v == IF cmd.approve
                  THEN [b.vote EXCEPT !.approvals = @ \cup {cmd.by}]
                  ELSE [b.vote EXCEPT !.rejections = @ \cup {cmd.by}]
             e == VoteCast(b.seq + 1, b.vote.openedSeq, cmd.by, cmd.approve)
             t == ResolveByTally([b EXCEPT !.seq = @ + 1, !.vote = v])
  <2>2. \/ CastVote(b, cmd) = Then(<<e>>, t)
        \/ \E code : code # "none" /\ CastVote(b, cmd) = Reject(b, code)
    BY DEF CastVote
  <2>3. e.type \in Tellings /\ ~ HasId(e)
    BY DEF VoteCast, HasId, Tellings
  <2> HIDE DEF e, v
  <2>4. (<<e>> \o t.events)[1] = e /\ <<e>> \o t.events # <<>>
    BY TallyEvents, FirstOfConcat
  <2> HIDE DEF t
  <2>5. \/ es = <<e>> \o t.events
        \/ es = <<>> /\ ApplyWithVote(b, cmd).error # "none"
    <3>1. Then(<<e>>, t).events = <<e>> \o t.events
      BY DEF Then, Accept
    <3>2. \A code : Reject(b, code).events = <<>> /\ Reject(b, code).error = code
      BY DEF Reject
    <3> QED BY <2>1, <2>2, <3>1, <3>2
  <2> QED BY <2>3, <2>4, <2>5
<1> QED BY <1>1, <1>2, <1>3

-----------------------------------------------------------------------------
(* Sets of seqs have a first and a last element.                           *)

LEMMA SetHasMin ==
    ASSUME NEW W, W \subseteq Nat, W # {}
    PROVE  \E i \in W : \A j \in W : i <= j
<1> DEFINE R == {ss \in Nat \X Nat : ss[1] < ss[2]}
<1>1. IsWellFoundedOn(R, Nat)
  BY NatLessThanWellFounded DEF OpToRel
<1>2. \A x, y \in Nat : <<x, y>> \in R <=> x < y
  OBVIOUS
<1> HIDE DEF R
<1>3. PICK i \in W : \A j \in W : ~ (<<j, i>> \in R)
  BY <1>1, WFMin
<1>4. \A j \in W : j \in Nat
  OBVIOUS
<1>5. ASSUME NEW j \in W PROVE i <= j
  <2>1. i \in Nat /\ j \in Nat /\ ~ (<<j, i>> \in R)
    BY <1>3, <1>4
  <2>2. ~ (j < i)
    BY <1>2, <2>1
  <2> QED BY <2>1, <2>2
<1> QED BY <1>5

LEMMA SetHasMax ==
    ASSUME NEW n \in Nat, NEW W, W \subseteq 1..n, W # {}
    PROVE  \E i \in W : \A j \in W : j <= i
<1> DEFINE T == {n - i : i \in W}
<1>1. \A i \in W : i \in 1..n /\ n - i \in Nat
  OBVIOUS
<1>2. T \subseteq Nat /\ T # {}
  BY <1>1
<1>3. PICK x \in T : \A y \in T : x <= y
  BY <1>2, SetHasMin
<1>4. PICK i \in W : x = n - i
  OBVIOUS
<1>5. \A j \in W : n - i <= n - j
  BY <1>3, <1>4
<1>6. \A j \in W : j <= i
  BY <1>1, <1>5
<1> QED BY <1>6


-----------------------------------------------------------------------------
(* What the log says of the board.                                         *)

\* The open vote is the last one opened on the log, nothing but letters and
\* ballots came since, and its sides are the ballots cast since.
OpenVoteIsLogged(b, l) ==
    /\ \A i \in Opens(l) :
         (\E k \in Closes(l) : i < k) \/ (b.vote # NoVote /\ b.vote.openedSeq = i)
    /\ b.vote # NoVote =>
         LET s == b.vote.openedSeq
         IN  /\ s \in Opens(l)
             /\ l[s].by = b.vote.by /\ l[s].id = b.vote.id
             /\ l[s].electorate = b.vote.electorate
             /\ \A j \in s+1 .. Len(l) : l[j].type \in {"cellSet", "checkVoteCast"}
             /\ b.vote.approvals = ApprovalsBefore(l, Len(l) + 1, s)
             /\ b.vote.rejections = RejectionsBefore(l, Len(l) + 1, s)

Serial(l) == ClosesNameTheirVote(l) /\ VotesDoNotOverlap(l) /\ ChecksFollowTheirVote(l)

\* Log l tells board b.
LogTells(l, b) ==
    /\ b \in Boards /\ l \in Seq(Events) /\ Len(l) = b.seq
    /\ Serial(l) /\ OutcomesFollow(l) /\ OpenVoteIsLogged(b, l) /\ Rebuilds(l, b)

\* Log m is l with event e after it.
Grown(l, e, m) ==
    /\ l \in Seq(Events) /\ e \in Events /\ m \in Seq(Events)
    /\ Len(m) = Len(l) + 1 /\ m[Len(m)] = e
    /\ \A i \in 1..Len(l) : m[i] = l[i]

LEMMA AppendGrows ==
    ASSUME NEW l \in Seq(Events), NEW e \in Events
    PROVE  Grown(l, e, Append(l, e))
BY DEF Grown

\* Event e is the check of a vote that passed with the last event of l.
PassedJustNow(l, e) ==
    /\ Len(l) \in Closes(l) /\ l[Len(l)].outcome = "passed"
    /\ e.by = l[l[Len(l)].voteSeq].by /\ e.id = l[l[Len(l)].voteSeq].id

\* One step of the engine on a board that log l tells.
LoggedStep(l, b, e, d) ==
    \/ ActStep(b, e, d) \/ CloseStep(b, e, d) \/ EndStep(b, e, d)
    \/ CheckStep(b, e, d) /\ PassedJustNow(l, e)

LEMMA LoggedStepIsNext ==
    ASSUME NEW l, NEW b, NEW e, NEW d, LoggedStep(l, b, e, d) PROVE IsNext(b, e, d)
BY DEF LoggedStep, ActStep, CellStep, OpenStep, CastStep, CloseStep, EndStep, CheckStep

-----------------------------------------------------------------------------
(* What one more event leaves alone.                                       *)

LEMMA GrownPositions ==
    ASSUME NEW l, NEW e, NEW m, Grown(l, e, m)
    PROVE  /\ Len(l) \in Nat /\ Len(m) = Len(l) + 1 /\ m[Len(l) + 1] = e
           /\ DOMAIN l = 1..Len(l) /\ DOMAIN m = 1..Len(m)
           /\ Opens(m) = Opens(l) \cup (IF e.type = "checkVoteOpened" THEN {Len(m)} ELSE {})
           /\ Closes(m) = Closes(l) \cup (IF e.type = "checkVoteClosed" THEN {Len(m)} ELSE {})
           /\ Checks(m) = Checks(l) \cup (IF e.type = "puzzleChecked" THEN {Len(m)} ELSE {})
           /\ Fills(m) = Fills(l) \cup (IF e.type = "cellSet" /\ e.value # NoValue
                                        THEN {Len(m)} ELSE {})
           /\ Opens(l) \subseteq 1..Len(l) /\ Closes(l) \subseteq 1..Len(l)
           /\ Checks(l) \subseteq 1..Len(l) /\ Fills(l) \subseteq 1..Len(l)
<1>1. /\ Len(l) \in Nat /\ Len(m) = Len(l) + 1 /\ m[Len(l) + 1] = e
      /\ DOMAIN l = 1..Len(l) /\ DOMAIN m = 1..Len(m) /\ \A i \in 1..Len(l) : m[i] = l[i]
  BY DEF Grown
<1>2. ASSUME NEW i \in DOMAIN m
      PROVE  (i \in DOMAIN l /\ m[i] = l[i]) \/ (i = Len(m) /\ m[i] = e)
  <2>1. i \in 1..Len(l) \/ i = Len(l) + 1
    BY <1>1
  <2>2. CASE i \in 1..Len(l)
    BY <1>1, <2>2
  <2>3. CASE i = Len(l) + 1
    BY <1>1, <2>3
  <2> QED BY <2>1, <2>2, <2>3
<1>3. \A i \in DOMAIN l : i \in DOMAIN m /\ m[i] = l[i]
  BY <1>1
<1>3a. Len(m) \in DOMAIN m /\ m[Len(m)] = e
  BY <1>1
<1>4. Opens(m) = Opens(l) \cup (IF e.type = "checkVoteOpened" THEN {Len(m)} ELSE {})
  BY <1>2, <1>3, <1>3a DEF Opens
<1>5. Closes(m) = Closes(l) \cup (IF e.type = "checkVoteClosed" THEN {Len(m)} ELSE {})
  BY <1>2, <1>3, <1>3a DEF Closes
<1>6. Checks(m) = Checks(l) \cup (IF e.type = "puzzleChecked" THEN {Len(m)} ELSE {})
  BY <1>2, <1>3, <1>3a DEF Checks
<1>7. Fills(m) = Fills(l) \cup (IF e.type = "cellSet" /\ e.value # NoValue
                                        THEN {Len(m)} ELSE {})
  BY <1>2, <1>3, <1>3a DEF Fills
<1>8. /\ Opens(l) \subseteq 1..Len(l) /\ Closes(l) \subseteq 1..Len(l)
      /\ Checks(l) \subseteq 1..Len(l) /\ Fills(l) \subseteq 1..Len(l)
  BY <1>1 DEF Opens, Closes, Checks, Fills
<1> QED BY <1>1, <1>4, <1>5, <1>6, <1>7, <1>8

\* Ballots before an old position stay what they were.
LEMMA GrownBallots ==
    ASSUME NEW l, NEW e, NEW m, Grown(l, e, m), NEW s \in 1..Len(l), NEW i \in 1..Len(m)
    PROVE  /\ ApprovalsBefore(m, i, s) = ApprovalsBefore(l, i, s)
           /\ RejectionsBefore(m, i, s) = RejectionsBefore(l, i, s)
<1>1. Len(l) \in Nat /\ Len(m) = Len(l) + 1 /\ \A k \in 1..Len(l) : m[k] = l[k]
  BY DEF Grown
<1>2. m[s] = l[s] /\ \A k \in s+1..i-1 : m[k] = l[k]
  BY <1>1
<1>3. ApprovalsBefore(m, i, s) = ApprovalsBefore(l, i, s)
  BY <1>2 DEF ApprovalsBefore
<1>4. RejectionsBefore(m, i, s) = RejectionsBefore(l, i, s)
  BY <1>2 DEF RejectionsBefore
<1> QED BY <1>3, <1>4

\* The new event adds its own ballot, if it is one.
LEMMA GrownTally ==
    ASSUME NEW l, NEW e, NEW m, Grown(l, e, m), NEW s \in 1..Len(l)
    PROVE  /\ ApprovalsBefore(m, Len(m) + 1, s) =
                ApprovalsBefore(l, Len(m), s)
                  \cup (IF e.type = "checkVoteCast" /\ e.approve THEN {e.by} ELSE {})
           /\ RejectionsBefore(m, Len(m) + 1, s) =
                RejectionsBefore(l, Len(m), s)
                  \cup (IF e.type = "checkVoteCast" /\ ~ e.approve THEN {e.by} ELSE {})
<1> DEFINE n == Len(m)
           old == s+1 .. n-1
           new == s+1 .. (n+1)-1
<1>1. n \in Nat /\ Len(l) = n - 1 /\ m[n] = e /\ \A k \in 1..Len(l) : m[k] = l[k]
  BY DEF Grown
<1>2. new = old \cup {n} /\ n \notin old
  BY <1>1
<1>3. m[s] = l[s] /\ \A k \in old : m[k] = l[k]
  BY <1>1
<1> HIDE DEF old, new
<1>4. ApprovalsBefore(m, n + 1, s) =
        {m[s].by} \cup {m[j].by : j \in {k \in new : m[k].type = "checkVoteCast" /\ m[k].approve}}
  BY DEF ApprovalsBefore, new
<1>5. ApprovalsBefore(l, n, s) =
        {l[s].by} \cup {l[j].by : j \in {k \in old : l[k].type = "checkVoteCast" /\ l[k].approve}}
  BY DEF ApprovalsBefore, old
<1>6. RejectionsBefore(m, n + 1, s) =
        {m[j].by : j \in {k \in new : m[k].type = "checkVoteCast" /\ ~ m[k].approve}}
  BY DEF RejectionsBefore, new
<1>7. RejectionsBefore(l, n, s) =
        {l[j].by : j \in {k \in old : l[k].type = "checkVoteCast" /\ ~ l[k].approve}}
  BY DEF RejectionsBefore, old
<1> HIDE DEF n
<1>8. ApprovalsBefore(m, n + 1, s) = ApprovalsBefore(l, n, s)
                  \cup (IF e.type = "checkVoteCast" /\ e.approve THEN {e.by} ELSE {})
  BY <1>1, <1>2, <1>3, <1>4, <1>5
<1>9. RejectionsBefore(m, n + 1, s) = RejectionsBefore(l, n, s)
                  \cup (IF e.type = "checkVoteCast" /\ ~ e.approve THEN {e.by} ELSE {})
  BY <1>1, <1>2, <1>3, <1>6, <1>7
<1> QED BY <1>8, <1>9 DEF n

\* Positions up to the old end keep their values.
LEMMA GrownValues ==
    ASSUME NEW l, NEW e, NEW m, Grown(l, e, m), NEW c
    PROVE  /\ \A n \in 0..Len(l) : ValueAt(m, n, c) = ValueAt(l, n, c)
           /\ ValueAt(m, Len(m), c) = IF e.type = "cellSet" /\ e.cell = c THEN e.value
                                      ELSE ValueAt(l, Len(l), c)
<1> DEFINE writes(x, n) == {i \in 1..n : x[i].type = "cellSet" /\ x[i].cell = c}
           last(x, n) == CHOOSE i \in writes(x, n) : \A j \in writes(x, n) : j <= i
           N == Len(m)
<1>1. N \in Nat /\ Len(l) = N - 1 /\ m[N] = e /\ \A k \in 1..Len(l) : m[k] = l[k]
  BY DEF Grown
<1>2. \A x, n : ValueAt(x, n, c) = IF writes(x, n) = {} THEN NoValue ELSE x[last(x, n)].value
  BY DEF ValueAt
<1>3. \A n \in 0..Len(l) : writes(m, n) = writes(l, n)
  BY <1>1
<1>4. \A n \in 0..Len(l) : ValueAt(m, n, c) = ValueAt(l, n, c)
  <2> SUFFICES ASSUME NEW n \in 0..Len(l) PROVE ValueAt(m, n, c) = ValueAt(l, n, c)
    OBVIOUS
  <2>1. CASE writes(l, n) = {}
    BY <1>2, <1>3, <2>1
  <2>2. CASE writes(l, n) # {}
    <3>1. last(m, n) = last(l, n)
      BY <1>3
    <3>2. last(l, n) \in writes(l, n)
      <4>1. writes(l, n) \subseteq 1..n /\ n \in Nat
        BY <1>1
      <4> HIDE DEF writes
      <4>2. \E i \in writes(l, n) : \A j \in writes(l, n) : j <= i
        BY <2>2, <4>1, SetHasMax
      <4> QED BY <4>2 DEF last
    <3>3. m[last(l, n)] = l[last(l, n)]
      BY <1>1, <3>2
    <3> HIDE DEF last
    <3> QED BY <1>2, <1>3, <2>2, <3>1, <3>3
  <2> QED BY <2>1, <2>2
<1>5. CASE e.type = "cellSet" /\ e.cell = c
  <2>1. N \in writes(m, N) /\ \A j \in writes(m, N) : j <= N
    BY <1>1, <1>5 DEF N
  <2>2. last(m, N) = N
    <3> HIDE DEF writes
    <3>1. \A i \in writes(m, N) : (\A j \in writes(m, N) : j <= i) => i = N
      <4>1. \A i \in writes(m, N) : i \in Int
        BY DEF writes
      <4> QED BY <1>1, <2>1, <4>1
    <3> QED BY <2>1, <3>1
  <2> HIDE DEF last, writes, N
  <2>3. ValueAt(m, N, c) = e.value
    BY <1>1, <1>2, <2>1, <2>2
  <2> QED BY <1>4, <1>5, <2>3 DEF N
<1>6. CASE ~ (e.type = "cellSet" /\ e.cell = c)
  <2>1. writes(m, N) = writes(m, Len(l))
    BY <1>1, <1>6
  <2>2. last(m, N) = last(m, Len(l))
    BY <2>1
  <2> HIDE DEF last, writes, N
  <2>3. ValueAt(m, N, c) = ValueAt(m, Len(l), c)
    BY <1>2, <2>1, <2>2
  <2>4. Len(l) \in 0..Len(l)
    BY <1>1
  <2> QED BY <1>4, <1>6, <2>3, <2>4 DEF N
<1> QED BY <1>4, <1>5, <1>6

-----------------------------------------------------------------------------
(* A log that tells the board still does after one more step.              *)

\* The vote a close is about is the open one, and nothing came between.
LEMMA GrownCloses ==
    ASSUME NEW l, NEW b, LogTells(l, b), NEW e, NEW m, Grown(l, e, m), NEW d,
           LoggedStep(l, b, e, d)
    PROVE  ClosesNameTheirVote(m)
<1> SUFFICES ASSUME NEW i \in Closes(m)
             PROVE  /\ m[i].voteSeq \in Opens(m) /\ m[i].voteSeq < i
                    /\ \A j \in m[i].voteSeq + 1 .. i - 1 :
                         m[j].type \notin {"checkVoteOpened", "checkVoteClosed", "puzzleChecked"}
  BY DEF ClosesNameTheirVote
<1>1. /\ Len(l) \in Nat /\ Len(m) = Len(l) + 1 /\ m[Len(l) + 1] = e
      /\ Opens(l) \subseteq Opens(m) /\ Opens(l) \subseteq 1..Len(l)
      /\ Closes(l) \subseteq 1..Len(l)
      /\ i \in Closes(l) \/ (i = Len(m) /\ e.type = "checkVoteClosed")
  BY GrownPositions
<1>2. \A k \in 1..Len(l) : m[k] = l[k]
  BY DEF Grown
<1>3. CASE i \in Closes(l)
  <2>1. /\ l[i].voteSeq \in Opens(l) /\ l[i].voteSeq < i
        /\ \A j \in l[i].voteSeq + 1 .. i - 1 :
             l[j].type \notin {"checkVoteOpened", "checkVoteClosed", "puzzleChecked"}
    BY <1>3 DEF LogTells, Serial, ClosesNameTheirVote
  <2>2. m[i] = l[i] /\ i \in 1..Len(l) /\ l[i].voteSeq \in 1..Len(l)
    BY <1>1, <1>2, <1>3, <2>1
  <2>3. \A j \in l[i].voteSeq + 1 .. i - 1 : m[j] = l[j]
    BY <1>1, <1>2, <2>2
  <2> QED BY <1>1, <2>1, <2>2, <2>3
<1>4. CASE i = Len(m) /\ e.type = "checkVoteClosed"
  <2>1. CloseStep(b, e, d)
    BY <1>4 DEF LoggedStep, ActStep, CellStep, OpenStep, CastStep, CheckStep, EndStep
  <2> DEFINE s == b.vote.openedSeq
  <2>2. b.vote # NoVote /\ e.voteSeq = s
    BY <2>1, NoVoteAssumption DEF CloseStep
  <2>3. s \in Opens(l) /\ \A j \in s+1 .. Len(l) : l[j].type \in {"cellSet", "checkVoteCast"}
    BY <2>2 DEF LogTells, OpenVoteIsLogged
  <2> HIDE DEF s
  <2>4. m[i] = e /\ s \in 1..Len(l)
    BY <1>1, <1>4, <2>3
  <2>5. s + 1 .. i - 1 = s + 1 .. Len(l)
    BY <1>1, <1>4
  <2>6. \A j \in s+1 .. Len(l) : m[j] = l[j]
    BY <1>1, <1>2, <2>4
  <2> QED BY <1>1, <1>4, <2>2, <2>3, <2>4, <2>5, <2>6
<1> QED BY <1>1, <1>3, <1>4

LEMMA GrownOverlap ==
    ASSUME NEW l, NEW b, LogTells(l, b), NEW e, NEW m, Grown(l, e, m), NEW d,
           LoggedStep(l, b, e, d)
    PROVE  VotesDoNotOverlap(m)
<1> SUFFICES ASSUME NEW i \in Opens(m), NEW j \in Opens(m), i < j
             PROVE  \E k \in Closes(m) : i < k /\ k < j
  BY DEF VotesDoNotOverlap
<1>1. /\ Len(l) \in Nat /\ Len(m) = Len(l) + 1
      /\ Opens(l) \subseteq 1..Len(l) /\ Closes(l) \subseteq 1..Len(l)
      /\ Closes(l) \subseteq Closes(m)
      /\ i \in Opens(l) \/ i = Len(m)
      /\ j \in Opens(l) \/ (j = Len(m) /\ e.type = "checkVoteOpened")
  BY GrownPositions
<1>2. i \in Opens(l)
  BY <1>1
<1>3. CASE j \in Opens(l)
  BY <1>1, <1>2, <1>3 DEF LogTells, Serial, VotesDoNotOverlap
<1>4. CASE j = Len(m) /\ e.type = "checkVoteOpened"
  <2>1. OpenStep(b, e, d)
    BY <1>4 DEF LoggedStep, ActStep, CellStep, CastStep, CloseStep, CheckStep, EndStep
  <2>2. PICK k \in Closes(l) : i < k
    BY <1>2, <2>1 DEF OpenStep, LogTells, OpenVoteIsLogged
  <2> QED BY <1>1, <1>4, <2>2
<1> QED BY <1>1, <1>3, <1>4

LEMMA GrownChecks ==
    ASSUME NEW l, NEW b, LogTells(l, b), NEW e, NEW m, Grown(l, e, m), NEW d,
           LoggedStep(l, b, e, d)
    PROVE  ChecksFollowTheirVote(m)
<1> SUFFICES ASSUME NEW i \in Checks(m)
             PROVE  /\ i > 1 /\ i - 1 \in Closes(m) /\ m[i-1].outcome = "passed"
                    /\ m[i].by = m[m[i-1].voteSeq].by /\ m[i].id = m[m[i-1].voteSeq].id
  BY DEF ChecksFollowTheirVote
<1>1. /\ Len(l) \in Nat /\ Len(m) = Len(l) + 1 /\ m[Len(l) + 1] = e
      /\ Opens(l) \subseteq 1..Len(l) /\ Closes(l) \subseteq 1..Len(l)
      /\ Checks(l) \subseteq 1..Len(l)
      /\ Closes(l) \subseteq Closes(m)
      /\ i \in Checks(l) \/ (i = Len(m) /\ e.type = "puzzleChecked")
  BY GrownPositions
<1>2. \A k \in 1..Len(l) : m[k] = l[k]
  BY DEF Grown
<1>3. \A k \in Closes(l) : l[k].voteSeq \in Opens(l)
  BY DEF LogTells, Serial, ClosesNameTheirVote
<1>4. CASE i \in Checks(l)
  <2>1. /\ i > 1 /\ i - 1 \in Closes(l) /\ l[i-1].outcome = "passed"
        /\ l[i].by = l[l[i-1].voteSeq].by /\ l[i].id = l[l[i-1].voteSeq].id
    BY <1>4 DEF LogTells, Serial, ChecksFollowTheirVote
  <2>2. m[i] = l[i] /\ m[i-1] = l[i-1] /\ m[l[i-1].voteSeq] = l[l[i-1].voteSeq]
    BY <1>1, <1>2, <1>3, <1>4, <2>1
  <2> QED BY <1>1, <2>1, <2>2
<1>5. CASE i = Len(m) /\ e.type = "puzzleChecked"
  <2>1. PassedJustNow(l, e)
    BY <1>5 DEF LoggedStep, ActStep, CellStep, OpenStep, CastStep, CloseStep, EndStep
  <2> DEFINE n == Len(l)
  <2>2. /\ n \in Closes(l) /\ l[n].outcome = "passed"
        /\ e.by = l[l[n].voteSeq].by /\ e.id = l[l[n].voteSeq].id
    BY <2>1 DEF PassedJustNow
  <2>3. m[i] = e /\ i - 1 = n /\ i > 1
    BY <1>1, <1>5, <2>2
  <2>4. m[n] = l[n] /\ m[l[n].voteSeq] = l[l[n].voteSeq]
    BY <1>1, <1>2, <1>3, <2>2
  <2> HIDE DEF n
  <2> QED BY <1>1, <2>2, <2>3, <2>4
<1> QED BY <1>1, <1>4, <1>5

\* A close has the outcome of the ballots before it.
LEMMA GrownOutcomes ==
    ASSUME NEW l, NEW b, LogTells(l, b), NEW e, NEW m, Grown(l, e, m), NEW d,
           LoggedStep(l, b, e, d)
    PROVE  OutcomesFollow(m)
<1> DEFINE follows(x, i) ==
             LET s == x[i].voteSeq
                 electorate == x[s].electorate
                 yes == Cardinality(ApprovalsBefore(x, i, s))
                 no == Cardinality(RejectionsBefore(x, i, s))
             IN  /\ (x[i].outcome = "passed") <=> (2 * yes > Cardinality(electorate))
                 /\ (x[i].reason = "REJECTED") <=> (2 * (Cardinality(electorate) - no)
                                                      <= Cardinality(electorate))
<1> SUFFICES ASSUME NEW i \in Closes(m) PROVE follows(m, i)
  BY DEF OutcomesFollow
<1>1. /\ Len(l) \in Nat /\ Len(m) = Len(l) + 1 /\ m[Len(l) + 1] = e
      /\ Opens(l) \subseteq 1..Len(l) /\ Closes(l) \subseteq 1..Len(l)
      /\ i \in Closes(l) \/ (i = Len(m) /\ e.type = "checkVoteClosed")
  BY GrownPositions
<1>2. \A k \in 1..Len(l) : m[k] = l[k]
  BY DEF Grown
<1>3. CASE i \in Closes(l)
  <2>1. l[i].voteSeq \in Opens(l)
    BY <1>3 DEF LogTells, Serial, ClosesNameTheirVote
  <2>2. m[i] = l[i] /\ l[i].voteSeq \in 1..Len(l) /\ i \in 1..Len(m)
    BY <1>1, <1>2, <1>3, <2>1
  <2>3. /\ ApprovalsBefore(m, i, l[i].voteSeq) = ApprovalsBefore(l, i, l[i].voteSeq)
        /\ RejectionsBefore(m, i, l[i].voteSeq) = RejectionsBefore(l, i, l[i].voteSeq)
    BY <2>2, GrownBallots
  <2>4. m[l[i].voteSeq] = l[l[i].voteSeq]
    BY <1>2, <2>2
  <2>5. follows(l, i)
    BY <1>3 DEF LogTells, OutcomesFollow
  <2> QED BY <2>2, <2>3, <2>4, <2>5
<1>4. CASE i = Len(m) /\ e.type = "checkVoteClosed"
  <2>1. CloseStep(b, e, d)
    BY <1>4 DEF LoggedStep, ActStep, CellStep, OpenStep, CastStep, CheckStep, EndStep
  <2> DEFINE s == b.vote.openedSeq
  <2>2. b.vote # NoVote /\ e.voteSeq = s
    BY <2>1, NoVoteAssumption DEF CloseStep
  <2>3. /\ s \in Opens(l) /\ l[s].electorate = b.vote.electorate
        /\ b.vote.approvals = ApprovalsBefore(l, Len(l) + 1, s)
        /\ b.vote.rejections = RejectionsBefore(l, Len(l) + 1, s)
    BY <2>2 DEF LogTells, OpenVoteIsLogged
  <2> HIDE DEF s
  <2>4. m[i] = e /\ s \in 1..Len(l) /\ m[s] = l[s] /\ i = Len(l) + 1 /\ i \in 1..Len(m)
    BY <1>1, <1>2, <1>4, <2>3
  <2>5. /\ b.vote.approvals = ApprovalsBefore(m, i, s)
        /\ b.vote.rejections = RejectionsBefore(m, i, s)
        /\ m[s].electorate = b.vote.electorate
    BY <2>3, <2>4, GrownBallots
  <2>6. /\ e.outcome = "passed" <=> 2 * Cardinality(b.vote.approvals) > Cardinality(b.vote.electorate)
        /\ e.reason = "REJECTED" <=>
             2 * (Cardinality(b.vote.electorate) - Cardinality(b.vote.rejections))
                 <= Cardinality(b.vote.electorate)
    BY <2>1 DEF CloseStep
  <2> QED BY <2>2, <2>4, <2>5, <2>6
<1> QED BY <1>1, <1>3, <1>4

LEMMA GrownVote ==
    ASSUME NEW l, NEW b, LogTells(l, b), NEW e, NEW m, Grown(l, e, m), NEW d,
           LoggedStep(l, b, e, d)
    PROVE  OpenVoteIsLogged(d, m)
<1> DEFINE s == b.vote.openedSeq
           n == Len(m)
<1>1. /\ Len(l) = n - 1 /\ n \in Nat /\ n > 0 /\ m[n] = e
      /\ Opens(m) = Opens(l) \cup (IF e.type = "checkVoteOpened" THEN {n} ELSE {})
      /\ Closes(m) = Closes(l) \cup (IF e.type = "checkVoteClosed" THEN {n} ELSE {})
      /\ Opens(l) \subseteq 1..Len(l) /\ Closes(l) \subseteq 1..Len(l)
  BY GrownPositions
<1>2. /\ \A k \in 1..Len(l) : m[k] = l[k]
      /\ e.seq = n
  <2>1. e.seq = b.seq + 1 /\ Len(l) = b.seq /\ n = Len(l) + 1
    BY GrownPositions, LoggedStepIsNext DEF IsNext, LogTells
  <2> QED BY <2>1 DEF Grown
<1>3. \A i \in Opens(l) : (\E k \in Closes(l) : i < k) \/ (b.vote # NoVote /\ s = i)
  BY DEF LogTells, OpenVoteIsLogged
<1>4. b.vote # NoVote =>
        /\ s \in Opens(l)
        /\ l[s].by = b.vote.by /\ l[s].id = b.vote.id
        /\ l[s].electorate = b.vote.electorate
        /\ \A j \in s+1 .. Len(l) : l[j].type \in {"cellSet", "checkVoteCast"}
        /\ b.vote.approvals = ApprovalsBefore(l, n, s)
        /\ b.vote.rejections = RejectionsBefore(l, n, s)
  <2>1. Len(l) + 1 = n
    BY <1>1
  <2> QED BY <2>1 DEF LogTells, OpenVoteIsLogged
<1>4a. b.vote # NoVote => s \in 1..Len(l) /\ m[s] = l[s]
  BY <1>1, <1>2, <1>4
<1> HIDE DEF s
<1>5. b.vote # NoVote =>
        /\ s \in 1..Len(l) /\ m[s] = l[s]
        /\ ApprovalsBefore(m, n + 1, s) = ApprovalsBefore(l, n, s)
                  \cup (IF e.type = "checkVoteCast" /\ e.approve THEN {e.by} ELSE {})
        /\ RejectionsBefore(m, n + 1, s) = RejectionsBefore(l, n, s)
                  \cup (IF e.type = "checkVoteCast" /\ ~ e.approve THEN {e.by} ELSE {})
  <2> SUFFICES ASSUME b.vote # NoVote
               PROVE  /\ s \in 1..Len(l) /\ m[s] = l[s]
                      /\ ApprovalsBefore(m, n + 1, s) = ApprovalsBefore(l, n, s)
                            \cup (IF e.type = "checkVoteCast" /\ e.approve THEN {e.by} ELSE {})
                      /\ RejectionsBefore(m, n + 1, s) = RejectionsBefore(l, n, s)
                            \cup (IF e.type = "checkVoteCast" /\ ~ e.approve THEN {e.by} ELSE {})
    OBVIOUS
  <2>1. s \in 1..Len(l) /\ m[s] = l[s]
    BY <1>4a
  <2> QED BY <2>1, GrownTally
<1> HIDE DEF n
<1> USE <1>1, <1>2 DEF s
<1>6. CASE CellStep(b, e, d) \/ CastStep(b, e, d)
  <2>1. /\ Opens(m) = Opens(l) /\ Closes(m) = Closes(l)
        /\ e.type \in {"cellSet", "checkVoteCast"}
        /\ d.vote = NoVote <=> b.vote = NoVote
    BY <1>6, NoVoteAssumption DEF CellStep, CastStep
  <2>2. d.vote # NoVote => /\ d.vote.openedSeq = s /\ d.vote.by = b.vote.by
                           /\ d.vote.id = b.vote.id /\ d.vote.electorate = b.vote.electorate
                           /\ d.vote.approvals = ApprovalsBefore(m, n + 1, s)
                           /\ d.vote.rejections = RejectionsBefore(m, n + 1, s)
    <3>1. CASE CellStep(b, e, d)
      BY <1>4, <1>5, <3>1 DEF CellStep
    <3>2. CASE CastStep(b, e, d)
      BY <1>4, <1>5, <3>2, NoVoteAssumption DEF CastStep
    <3> QED BY <1>6, <3>1, <3>2
  <2>3. \A i \in Opens(m) : (\E k \in Closes(m) : i < k) \/ (d.vote # NoVote /\ d.vote.openedSeq = i)
    BY <1>3, <2>1, <2>2
  <2>4. d.vote # NoVote => \A j \in s+1 .. n : m[j].type \in {"cellSet", "checkVoteCast"}
    <3> SUFFICES ASSUME d.vote # NoVote, NEW j \in s+1 .. n
                 PROVE  m[j].type \in {"cellSet", "checkVoteCast"}
      OBVIOUS
    <3>1. s \in 1..Len(l)
      BY <1>5, <2>1
    <3>2. CASE j = n
      BY <2>1, <3>2
    <3>3. CASE j # n
      <4>1. j \in s+1..Len(l) /\ j \in 1..Len(l)
        BY <3>1, <3>3
      <4> QED BY <1>4, <2>1, <4>1
    <3> QED BY <3>2, <3>3
  <2>5. d.vote # NoVote => /\ s \in Opens(m) /\ m[s].by = b.vote.by /\ m[s].id = b.vote.id
                           /\ m[s].electorate = b.vote.electorate
    BY <1>4, <1>5, <2>1
  <2> HIDE DEF s
  <2> QED BY <2>2, <2>3, <2>4, <2>5 DEF OpenVoteIsLogged, n
<1>7. CASE OpenStep(b, e, d)
  <2>1. /\ Opens(m) = Opens(l) \cup {n} /\ Closes(m) = Closes(l) /\ b.vote = NoVote
        /\ d.vote.openedSeq = n /\ d.vote.by = e.by /\ d.vote.id = e.id
        /\ d.vote.electorate = e.electorate
        /\ d.vote.approvals = {e.by} /\ d.vote.rejections = {}
        /\ d.vote # NoVote
    BY <1>7, NoVoteAssumption DEF OpenStep
  <2>2. \A i \in Opens(m) : (\E k \in Closes(m) : i < k) \/ (d.vote # NoVote /\ d.vote.openedSeq = i)
    BY <1>3, <2>1
  <2>3. n+1 .. n = {} /\ n+1 .. (n+1)-1 = {}
    OBVIOUS
  <2>4. ApprovalsBefore(m, n + 1, n) = {e.by} /\ RejectionsBefore(m, n + 1, n) = {}
    BY <2>3 DEF ApprovalsBefore, RejectionsBefore
  <2>5. \A j \in n+1 .. n : m[j].type \in {"cellSet", "checkVoteCast"}
    BY <2>3
  <2> QED BY <2>1, <2>2, <2>4, <2>5 DEF OpenVoteIsLogged, n
<1>8. CASE CloseStep(b, e, d)
  <2>1. /\ Opens(m) = Opens(l) /\ Closes(m) = Closes(l) \cup {n} /\ d.vote = NoVote
    BY <1>8 DEF CloseStep
  <2>2. n \in Closes(m)
    BY <2>1
  <2>3. \A i \in Opens(m) : i < n
    BY <2>1 DEF Opens
  <2>4. \A i \in Opens(m) : \E k \in Closes(m) : i < k
    BY <2>2, <2>3
  <2> QED BY <2>1, <2>4 DEF OpenVoteIsLogged
<1>9. CASE EndStep(b, e, d) \/ CheckStep(b, e, d)
  <2>1. /\ Opens(m) = Opens(l) /\ Closes(m) = Closes(l) /\ d.vote = NoVote /\ b.vote = NoVote
    BY <1>9 DEF EndStep, CheckStep
  <2> QED BY <1>3, <2>1 DEF OpenVoteIsLogged
<1> QED BY <1>6, <1>7, <1>8, <1>9 DEF LoggedStep, ActStep

\* The first and the last of a set of positions, whatever is added after them.
LEMMA GrownExtremes ==
    ASSUME NEW n \in Nat, NEW W, W \subseteq 1..n
    PROVE  /\ W # {} => /\ (CHOOSE i \in W : \A j \in W : i <= j) \in W
                        /\ (CHOOSE i \in W : \A j \in W : j <= i) \in W
                        /\ (CHOOSE i \in W \cup {n+1} : \A j \in W \cup {n+1} : i <= j)
                             = (CHOOSE i \in W : \A j \in W : i <= j)
           /\ (CHOOSE i \in W \cup {n+1} : \A j \in W \cup {n+1} : j <= i) = n + 1
           /\ W = {} => (CHOOSE i \in W \cup {n+1} : \A j \in W \cup {n+1} : i <= j) = n + 1
<1> DEFINE V == W \cup {n+1}
           least(X) == CHOOSE i \in X : \A j \in X : i <= j
           most(X) == CHOOSE i \in X : \A j \in X : j <= i
<1>1. \A i \in W : i \in 1..n /\ i \in Nat /\ i < n + 1
  OBVIOUS
<1>2. most(V) = n + 1
  <2>1. n + 1 \in V /\ \A j \in V : j <= n + 1
    BY <1>1
  <2>2. \A i \in V : (\A j \in V : j <= i) => i = n + 1
    BY <1>1
  <2> HIDE DEF V
  <2> QED BY <2>1, <2>2
<1>3. W = {} => least(V) = n + 1
  OBVIOUS
<1>4. ASSUME W # {}
      PROVE  least(W) \in W /\ most(W) \in W /\ least(V) = least(W)
  <2>1. W \subseteq Nat
    BY <1>1
  <2>2. PICK i \in W : \A j \in W : i <= j
    BY <1>4, <2>1, SetHasMin
  <2>3. PICK k \in W : \A j \in W : j <= k
    BY <1>4, SetHasMax
  <2>4. most(W) \in W
    BY <2>3
  <2>5. least(W) = i
    <3>1. \A x \in W : (\A j \in W : x <= j) => x = i
      BY <1>1, <2>2
    <3> QED BY <2>2, <3>1
  <2>6. least(V) = i
    <3>1. i \in V /\ \A j \in V : i <= j
      BY <1>1, <2>2
    <3>2. \A x \in V : (\A j \in V : x <= j) => x = i
      BY <1>1, <2>2
    <3> HIDE DEF V
    <3> QED BY <3>1, <3>2
  <2> QED BY <2>2, <2>4, <2>5, <2>6
<1> QED BY <1>2, <1>3, <1>4

LEMMA GrownMarks ==
    ASSUME NEW l, NEW b, LogTells(l, b), NEW e, NEW m, Grown(l, e, m), NEW d,
           LoggedStep(l, b, e, d)
    PROVE  d.marks = StandingMarks(m)
<1> DEFINE n == Len(m)
           last(x) == CHOOSE i \in Checks(x) : \A j \in Checks(x) : j <= i
<1>1. /\ Len(l) = n - 1 /\ n \in Nat /\ n > 0 /\ m[n] = e /\ n = Len(l) + 1 /\ Len(l) \in Nat
      /\ Checks(m) = Checks(l) \cup (IF e.type = "puzzleChecked" THEN {n} ELSE {})
      /\ Checks(l) \subseteq 1..Len(l) /\ \A i \in 1..Len(l) : m[i] = l[i]
  BY GrownPositions DEF Grown
<1>2. b.marks = StandingMarks(l) /\ \A c \in Cells : b.cells[c] = ValueAt(l, Len(l), c)
  BY DEF LogTells, Rebuilds
<1>3. /\ StandingMarks(l) = IF Checks(l) = {} THEN {}
           ELSE {c \in l[last(l)].wrongCells :
                   \A i \in last(l)..Len(l) : ValueAt(l, i, c) = ValueAt(l, last(l), c)}
      /\ StandingMarks(m) = IF Checks(m) = {} THEN {}
           ELSE {c \in m[last(m)].wrongCells :
                   \A i \in last(m)..n : ValueAt(m, i, c) = ValueAt(m, last(m), c)}
  BY DEF StandingMarks
<1>4. /\ \A c : \A i \in 0..Len(l) : ValueAt(m, i, c) = ValueAt(l, i, c)
      /\ \A c : ValueAt(m, n, c) = IF e.type = "cellSet" /\ e.cell = c THEN e.value
                                   ELSE ValueAt(l, Len(l), c)
  BY GrownValues
<1>5. /\ Checks(l) # {} => last(l) \in Checks(l)
      /\ e.type = "puzzleChecked" => last(m) = n
  <2>1. Checks(l) # {} => last(l) \in Checks(l)
    BY <1>1, GrownExtremes
  <2>2. ASSUME e.type = "puzzleChecked" PROVE last(m) = n
    <3>1. Checks(m) = Checks(l) \cup {Len(l) + 1}
      BY <1>1, <2>2
    <3>2. last(m) = CHOOSE i \in Checks(l) \cup {Len(l) + 1} :
                      \A j \in Checks(l) \cup {Len(l) + 1} : j <= i
      BY <3>1
    <3>3. last(m) = Len(l) + 1
      BY <1>1, <3>2, GrownExtremes
    <3> QED BY <1>1, <3>3
  <2> QED BY <2>1, <2>2
<1>6. CASE e.type = "puzzleChecked"
  <2>1. CheckStep(b, e, d)
    BY <1>6 DEF LoggedStep, ActStep, CellStep, OpenStep, CastStep, CloseStep, EndStep
  <2>2. Checks(m) # {} /\ last(m) = n /\ n..n = {n}
    BY <1>1, <1>5, <1>6
  <2> HIDE DEF last, n
  <2>3. StandingMarks(m) = {c \in m[n].wrongCells :
                              \A i \in n..n : ValueAt(m, i, c) = ValueAt(m, n, c)}
    BY <1>3, <2>2
  <2>4. StandingMarks(m) = {c \in m[n].wrongCells : TRUE}
    BY <2>2, <2>3
  <2>5. StandingMarks(m) = e.wrongCells
    BY <1>1, <2>4
  <2> QED BY <2>1, <2>5 DEF CheckStep
<1>7. CASE e.type # "puzzleChecked"
  <2>1. Checks(m) = Checks(l) /\ last(m) = last(l)
    BY <1>1, <1>7
  <2>2. CASE Checks(l) = {}
    <3>1. StandingMarks(m) = {} /\ b.marks = {}
      BY <1>2, <1>3, <2>1, <2>2
    <3>2. d.marks = {}
      BY <1>7, <3>1 DEF LoggedStep, ActStep, CellStep, OpenStep, CastStep, CloseStep, EndStep, CheckStep
    <3> QED BY <3>1, <3>2
  <2>3. CASE Checks(l) # {}
    <3> DEFINE p == last(l)
    <3>1. p \in 1..Len(l) /\ m[p] = l[p] /\ last(m) = p
      BY <1>1, <1>5, <2>1, <2>3
    <3> HIDE DEF last, p
    <3>2. StandingMarks(m) = {c \in l[p].wrongCells :
                                \A i \in p..n : ValueAt(m, i, c) = ValueAt(m, p, c)}
      BY <1>3, <2>1, <2>3, <3>1
    <3>3. StandingMarks(l) = {c \in l[p].wrongCells :
                                \A i \in p..Len(l) : ValueAt(l, i, c) = ValueAt(l, p, c)}
      BY <1>3, <2>3 DEF p
    <3> HIDE DEF n
    <3>4. p..n = (p..Len(l)) \cup {n} /\ p..Len(l) \subseteq 0..Len(l) /\ p \in 0..Len(l)
          /\ Len(l) \in p..Len(l)
      BY <1>1, <3>1
    <3>5. ASSUME NEW c
          PROVE  (\A i \in p..n : ValueAt(m, i, c) = ValueAt(m, p, c))
                   <=> /\ \A i \in p..Len(l) : ValueAt(l, i, c) = ValueAt(l, p, c)
                       /\ ValueAt(m, n, c) = ValueAt(l, p, c)
      BY <1>4, <3>4
    <3>6. StandingMarks(m) = {c \in StandingMarks(l) : ValueAt(m, n, c) = ValueAt(l, Len(l), c)}
      BY <3>2, <3>3, <3>4, <3>5
    <3>7. CASE CellStep(b, e, d)
      <4>1. /\ e.type = "cellSet" /\ e.cell \in Cells
            /\ d.marks = IF e.value # b.cells[e.cell] THEN b.marks \ {e.cell} ELSE b.marks
        BY <3>7 DEF CellStep, IsNext, Events
      <4>2. b.cells[e.cell] = ValueAt(l, Len(l), e.cell)
        BY <1>2, <4>1
      <4>3. StandingMarks(m) = IF e.value # b.cells[e.cell] THEN b.marks \ {e.cell} ELSE b.marks
        BY <1>2, <1>4, <3>6, <4>1, <4>2
      <4> QED BY <4>1, <4>3
    <3>8. CASE ~ CellStep(b, e, d)
      <4>1. d.marks = b.marks /\ e.type # "cellSet"
        BY <1>7, <3>8 DEF LoggedStep, ActStep, OpenStep, CastStep, CloseStep, EndStep, CheckStep
      <4>2. StandingMarks(m) = StandingMarks(l)
        BY <1>4, <3>6, <4>1
      <4> QED BY <1>2, <4>1, <4>2
    <3> QED BY <3>7, <3>8
  <2> QED BY <2>2, <2>3
<1> QED BY <1>6, <1>7

LEMMA GrownFill ==
    ASSUME NEW l, NEW b, LogTells(l, b), NEW e, NEW m, Grown(l, e, m), NEW d,
           LoggedStep(l, b, e, d)
    PROVE  d.firstFill = FirstFill(m)
<1> DEFINE first(x) == CHOOSE i \in Fills(x) : \A j \in Fills(x) : i <= j
           fills == e.type = "cellSet" /\ e.value # NoValue
           n == Len(l) + 1
<1>1. /\ Len(l) \in Nat /\ Len(m) = n /\ Fills(l) \subseteq 1..Len(l)
      /\ Fills(m) = Fills(l) \cup (IF fills THEN {n} ELSE {})
  BY GrownPositions
<1>2. e.seq = n
  BY LoggedStepIsNext DEF IsNext, LogTells
<1>3. /\ FirstFill(l) = IF Fills(l) = {} THEN 0 ELSE first(l)
      /\ FirstFill(m) = IF Fills(m) = {} THEN 0 ELSE first(m)
  BY DEF FirstFill
<1>4. /\ Fills(l) # {} => first(l) \in Fills(l)
      /\ Fills(l) # {} /\ fills => first(m) = first(l)
      /\ Fills(l) = {} /\ fills => first(m) = n
      /\ ~ fills => first(m) = first(l) /\ Fills(m) = Fills(l)
  <2>1. /\ Fills(l) # {} => first(l) \in Fills(l)
        /\ ~ fills => first(m) = first(l) /\ Fills(m) = Fills(l)
    BY <1>1, GrownExtremes
  <2>2. ASSUME fills
        PROVE  /\ Fills(l) # {} => first(m) = first(l)
               /\ Fills(l) = {} => first(m) = n
    <3>1. Fills(m) = Fills(l) \cup {Len(l) + 1}
      BY <1>1, <2>2
    <3>2. first(m) = CHOOSE i \in Fills(l) \cup {Len(l) + 1} :
                       \A j \in Fills(l) \cup {Len(l) + 1} : i <= j
      BY <3>1
    <3> QED BY <1>1, <3>2, GrownExtremes
  <2> QED BY <2>1, <2>2
<1>5. b.firstFill = FirstFill(l)
  BY DEF LogTells, Rebuilds
<1>6. Fills(l) # {} => b.firstFill # 0
  <2> SUFFICES ASSUME Fills(l) # {} PROVE b.firstFill # 0
    OBVIOUS
  <2>1. first(l) \in 1..Len(l) /\ b.firstFill = first(l)
    BY <1>1, <1>3, <1>4, <1>5
  <2> HIDE DEF first
  <2> QED BY <1>1, <2>1
<1>7. d.firstFill = IF b.firstFill = 0 /\ fills THEN n ELSE b.firstFill
  <2>1. CASE CellStep(b, e, d)
    BY <1>2, <2>1 DEF CellStep
  <2>2. CASE ~ CellStep(b, e, d)
    <3>1. e.type # "cellSet" /\ d.firstFill = b.firstFill
      BY <2>2 DEF LoggedStep, ActStep, OpenStep, CastStep, CloseStep, EndStep, CheckStep, SameLetters
    <3> QED BY <3>1
  <2> QED BY <2>1, <2>2
<1> HIDE DEF first, n, fills
<1>8. CASE fills
  <2>1. Fills(m) # {}
    BY <1>1, <1>8
  <2> QED BY <1>3, <1>4, <1>5, <1>6, <1>7, <1>8, <2>1
<1>9. CASE ~ fills
  BY <1>3, <1>4, <1>5, <1>7, <1>9
<1> QED BY <1>8, <1>9

LEMMA GrownRebuilds ==
    ASSUME NEW l, NEW b, LogTells(l, b), NEW e, NEW m, Grown(l, e, m), NEW d,
           LoggedStep(l, b, e, d)
    PROVE  Rebuilds(m, d)
<1>1. b \in Boards /\ (\A c \in Cells : b.cells[c] = ValueAt(l, Len(l), c))
      /\ b.checks = Cardinality(Checks(l))
  BY DEF LogTells, Rebuilds
<1>2. \A c \in Cells : d.cells[c] = ValueAt(m, Len(m), c)
  <2>1. \A c : ValueAt(m, Len(m), c) = IF e.type = "cellSet" /\ e.cell = c THEN e.value
                                       ELSE ValueAt(l, Len(l), c)
    BY GrownValues
  <2>2. CASE CellStep(b, e, d)
    BY <1>1, <2>1, <2>2 DEF CellStep, Boards
  <2>3. CASE ~ CellStep(b, e, d)
    <3>1. e.type # "cellSet" /\ d.cells = b.cells
      BY <2>3 DEF LoggedStep, ActStep, OpenStep, CastStep, CloseStep, EndStep, CheckStep, SameLetters
    <3> QED BY <1>1, <2>1, <3>1
  <2> QED BY <2>2, <2>3
<1>3. d.checks = Cardinality(Checks(m))
  <2>1. /\ Checks(m) = Checks(l) \cup (IF e.type = "puzzleChecked" THEN {Len(l) + 1} ELSE {})
        /\ Checks(l) \subseteq 1..Len(l) /\ Len(l) \in Nat
    BY GrownPositions
  <2>2. IsFiniteSet(Checks(l)) /\ Len(l) + 1 \notin Checks(l)
    <3>1. IsFiniteSet(1..Len(l))
      BY <2>1, FS_Interval, 1 \in Int, Len(l) \in Int
    <3>2. IsFiniteSet(Checks(l))
      BY <2>1, <3>1, FS_Subset
    <3>3. Len(l) + 1 \notin 1..Len(l)
      BY <2>1
    <3> QED BY <2>1, <3>2, <3>3
  <2>3. CASE CheckStep(b, e, d)
    <3>1. Checks(m) = Checks(l) \cup {Len(l) + 1} /\ d.checks = b.checks + 1
      BY <2>1, <2>3 DEF CheckStep
    <3> QED BY <1>1, <2>2, <3>1, FS_AddElement
  <2>4. CASE ~ CheckStep(b, e, d)
    <3>1. e.type # "puzzleChecked" /\ d.checks = b.checks
      BY <2>4 DEF LoggedStep, ActStep, CellStep, OpenStep, CastStep, CloseStep, EndStep, SameLetters
    <3> QED BY <1>1, <2>1, <3>1
  <2> QED BY <2>3, <2>4
<1> QED BY <1>2, <1>3, GrownFill, GrownMarks DEF Rebuilds

\* One step keeps the log telling the board.
LEMMA TellsStep ==
    ASSUME NEW l, NEW b, LogTells(l, b), NEW e, NEW d, LoggedStep(l, b, e, d)
    PROVE  LogTells(Append(l, e), d)
<1> DEFINE m == Append(l, e)
<1>1. /\ IsNext(b, e, d) /\ l \in Seq(Events) /\ e \in Events /\ d \in Boards
      /\ e.seq = b.seq + 1 /\ d.seq = e.seq /\ Len(l) = b.seq
  BY LoggedStepIsNext DEF LogTells, IsNext
<1>2. Grown(l, e, m) /\ m \in Seq(Events) /\ Len(m) = Len(l) + 1
  BY <1>1, AppendGrows
<1> HIDE DEF m
<1>3. Serial(m) /\ OutcomesFollow(m) /\ OpenVoteIsLogged(d, m) /\ Rebuilds(m, d)
  BY <1>2, GrownCloses, GrownOverlap, GrownChecks, GrownOutcomes, GrownVote, GrownRebuilds
     DEF Serial
<1>4. LogTells(m, d)
  BY <1>1, <1>2, <1>3 DEF LogTells
<1> QED BY <1>4 DEF m

\* The check that follows a pass is logged as its vote asked for.
LEMMA TellsPass ==
    ASSUME NEW l, NEW b, LogTells(l, b), NEW e, NEW c, NEW f, NEW d, PassSteps(b, e, c, f, d)
    PROVE  LogTells(Append(Append(l, e), f), d)
<1> DEFINE m == Append(l, e)
           s == b.vote.openedSeq
<1>1. CloseStep(b, e, c) /\ CheckStep(c, f, d) /\ e.outcome = "passed"
      /\ f.by = b.vote.by /\ f.id = b.vote.id
  BY DEF PassSteps
<1>2. LoggedStep(l, b, e, c)
  BY <1>1 DEF LoggedStep
<1>3. LogTells(m, c) /\ Grown(l, e, m)
  BY <1>2, TellsStep, AppendGrows, LoggedStepIsNext DEF LogTells, IsNext
<1> HIDE DEF m
<1>4. b.vote # NoVote /\ e.voteSeq = s /\ e.type = "checkVoteClosed"
  BY <1>1, NoVoteAssumption DEF CloseStep
<1>5. s \in Opens(l) /\ l[s].by = b.vote.by /\ l[s].id = b.vote.id
  BY <1>4 DEF LogTells, OpenVoteIsLogged
<1> HIDE DEF s
<1>6. m[Len(m)] = e /\ Len(m) \in Closes(m) /\ m[s] = l[s]
  BY <1>3, <1>4, <1>5, GrownPositions DEF Grown
<1>7. PassedJustNow(m, f)
  BY <1>1, <1>4, <1>5, <1>6 DEF PassedJustNow
<1>8. LoggedStep(m, c, f, d)
  BY <1>1, <1>7 DEF LoggedStep
<1> QED BY <1>3, <1>8, TellsStep DEF m

LEMMA ConcatNone ==
    ASSUME NEW l \in Seq(Events) PROVE l \o <<>> = l
OBVIOUS

LEMMA ConcatOne ==
    ASSUME NEW l \in Seq(Events), NEW e \in Events PROVE l \o <<e>> = Append(l, e)
OBVIOUS

LEMMA ConcatTwo ==
    ASSUME NEW l \in Seq(Events), NEW e \in Events, NEW f \in Events
    PROVE  l \o <<e, f>> = Append(Append(l, e), f)
OBVIOUS

LEMMA ConcatThree ==
    ASSUME NEW l \in Seq(Events), NEW e \in Events, NEW f \in Events, NEW g \in Events
    PROVE  l \o <<e, f, g>> = Append(Append(Append(l, e), f), g)
OBVIOUS

LEMMA ConcatRest ==
    ASSUME NEW l \in Seq(Events), NEW e \in Events, NEW t \in Seq(Events)
    PROVE  l \o (<<e>> \o t) = Append(l, e) \o t
<1>1. <<e>> \in Seq(Events)
  OBVIOUS
<1>2. Append(l, e) = l \o <<e>>
  BY AppendIsConcat
<1> QED BY <1>1, <1>2, ConcatAssociative

LEMMA TellsClosePath ==
    ASSUME NEW l, NEW b, LogTells(l, b), NEW es, NEW d, ClosePath(b, es, d)
    PROVE  LogTells(l \o es, d) /\ es \in Seq(Events)
<1>1. l \in Seq(Events)
  BY DEF LogTells
<1>2. CASE \E e : es = <<e>> /\ CloseStep(b, e, d)
  <2>1. PICK e : es = <<e>> /\ CloseStep(b, e, d)
    BY <1>2
  <2>2. e \in Events /\ LoggedStep(l, b, e, d)
    BY <2>1 DEF CloseStep, IsNext, LoggedStep
  <2>3. <<e>> \in Seq(Events) /\ l \o <<e>> = Append(l, e)
    BY <1>1, <2>2, ConcatOne
  <2>4. LogTells(Append(l, e), d)
    BY <2>2, TellsStep
  <2> QED BY <2>1, <2>3, <2>4
<1>3. CASE \E e, m, f : es = <<e, f>> /\ PassSteps(b, e, m, f, d)
  <2>1. PICK e, m, f : es = <<e, f>> /\ PassSteps(b, e, m, f, d)
    BY <1>3
  <2>2. e \in Events /\ f \in Events
    BY <2>1 DEF PassSteps, CloseStep, CheckStep, IsNext
  <2>3. <<e, f>> \in Seq(Events)
    BY <2>2
  <2>4. l \o <<e, f>> = Append(Append(l, e), f)
    BY <1>1, <2>2, ConcatTwo
  <2>5. LogTells(Append(Append(l, e), f), d)
    BY <2>1, TellsPass
  <2> QED BY <2>1, <2>3, <2>4, <2>5
<1> QED BY <1>2, <1>3 DEF ClosePath

\* Whatever path the engine took, the log told so far and its events tell the
\* board it led to.
LEMMA TellsPath ==
    ASSUME NEW l, NEW b, LogTells(l, b), NEW es, NEW d, Path(b, es, d)
    PROVE  LogTells(l \o es, d)
<1>1. l \in Seq(Events)
  BY DEF LogTells
<1>2. ASSUME NEW e, NEW m, ActStep(b, e, m)
      PROVE  e \in Events /\ LogTells(Append(l, e), m)
  <2>1. LoggedStep(l, b, e, m)
    BY <1>2 DEF LoggedStep
  <2> QED BY <2>1, TellsStep, LoggedStepIsNext DEF IsNext
<1>3. CASE es = <<>> /\ d = b
  BY <1>1, <1>3, ConcatNone
<1>4. CASE ClosePath(b, es, d)
  BY <1>4, TellsClosePath
<1>5. CASE \E e : es = <<e>> /\ ActStep(b, e, d)
  <2>1. PICK e : es = <<e>> /\ ActStep(b, e, d)
    BY <1>5
  <2>2. e \in Events /\ LogTells(Append(l, e), d)
    BY <1>2, <2>1
  <2> QED BY <1>1, <2>1, <2>2, ConcatOne
<1>6. CASE \E e, m, ys : es = <<e>> \o ys /\ ActStep(b, e, m) /\ ClosePath(m, ys, d)
  <2>1. PICK e, m, ys : es = <<e>> \o ys /\ ActStep(b, e, m) /\ ClosePath(m, ys, d)
    BY <1>6
  <2>2. e \in Events /\ LogTells(Append(l, e), m)
    BY <1>2, <2>1
  <2>3. LogTells(Append(l, e) \o ys, d) /\ ys \in Seq(Events)
    BY <2>1, <2>2, TellsClosePath
  <2> QED BY <1>1, <2>1, <2>2, <2>3, ConcatRest
<1>7. CASE \E e, m, f : es = <<e, f>> /\ ActStep(b, e, m) /\ EndStep(m, f, d)
  <2>1. PICK e, m, f : es = <<e, f>> /\ ActStep(b, e, m) /\ EndStep(m, f, d)
    BY <1>7
  <2>2. e \in Events /\ LogTells(Append(l, e), m)
    BY <1>2, <2>1
  <2>3. LoggedStep(Append(l, e), m, f, d) /\ f \in Events
    BY <2>1 DEF LoggedStep, EndStep, IsNext
  <2>4. LogTells(Append(Append(l, e), f), d)
    BY <2>2, <2>3, TellsStep
  <2> QED BY <1>1, <2>1, <2>2, <2>3, <2>4, ConcatTwo
<1>8. CASE \E e, m, f, n, g : /\ es = <<e, f, g>> /\ ActStep(b, e, m)
                              /\ CloseStep(m, f, n) /\ EndStep(n, g, d)
  <2>1. PICK e, m, f, n, g : /\ es = <<e, f, g>> /\ ActStep(b, e, m)
                             /\ CloseStep(m, f, n) /\ EndStep(n, g, d)
    BY <1>8
  <2>2. e \in Events /\ LogTells(Append(l, e), m)
    BY <1>2, <2>1
  <2>3. LoggedStep(Append(l, e), m, f, n) /\ f \in Events
    BY <2>1 DEF LoggedStep, CloseStep, IsNext
  <2>4. LogTells(Append(Append(l, e), f), n)
    BY <2>2, <2>3, TellsStep
  <2>5. LoggedStep(Append(Append(l, e), f), n, g, d) /\ g \in Events
    BY <2>1 DEF LoggedStep, EndStep, IsNext
  <2>6. LogTells(Append(Append(Append(l, e), f), g), d)
    BY <2>4, <2>5, TellsStep
  <2> QED BY <1>1, <2>1, <2>2, <2>3, <2>5, <2>6, ConcatThree
<1> QED BY <1>3, <1>4, <1>5, <1>6, <1>7, <1>8 DEF Path

-----------------------------------------------------------------------------

\* The inductive invariant: a good board, and a log that is numbered up to the
\* board's seq, holds no empty check and tells the board.
EGInv ==
    /\ EGTypeOK /\ GoodBoard(grid)
    /\ log \in Seq(Events) /\ Numbered(0, log, grid.seq)
    /\ \A i \in 1..Len(log) : FindsSomething(log[i])
    /\ LogTells(log, grid)

LEMMA InitGood == EGInit => EGInv
<1> SUFFICES ASSUME EGInit PROVE EGInv
  OBVIOUS
<1>1. grid \in Boards /\ grid.seq = 0
  BY NoVoteIsAVote DEF EGInit, EmptyBoard, Boards, Statuses
<1>2. FilledCells(grid) = {} /\ Cardinality(FilledCells(grid)) = 0
  BY FS_EmptySet DEF EGInit, EmptyBoard, FilledCells
<1>3. Cardinality(Cells) # 0
  BY EngineAssumption, FS_EmptySet
<1>4. GoodBoard(grid)
  BY <1>2, <1>3 DEF EGInit, EmptyBoard, GoodBoard, FilledIsExact, MarksAreWrong,
                    CompletedIffSolved, IsFull, VoteOnFullGrid, VoteIsUndecided
<1>5. log \in Seq(Events) /\ Len(log) = 0
  BY DEF EGInit
<1>6. /\ Opens(log) = {} /\ Closes(log) = {} /\ Checks(log) = {} /\ Fills(log) = {}
      /\ \A c : ValueAt(log, 0, c) = NoValue
  BY <1>5 DEF Opens, Closes, Checks, Fills, ValueAt
<1>7. Serial(log) /\ OutcomesFollow(log)
  BY <1>6 DEF Serial, ClosesNameTheirVote, VotesDoNotOverlap, ChecksFollowTheirVote, OutcomesFollow
<1>8. OpenVoteIsLogged(grid, log)
  BY <1>6 DEF EGInit, EmptyBoard, OpenVoteIsLogged
<1>9. Rebuilds(log, grid)
  BY <1>5, <1>6, FS_EmptySet DEF EGInit, EmptyBoard, Rebuilds, FirstFill, StandingMarks
<1>10. LogTells(log, grid)
  BY <1>1, <1>5, <1>7, <1>8, <1>9 DEF LogTells
<1> QED BY <1>1, <1>4, <1>5, <1>10 DEF EGInv, EGTypeOK, Numbered

LEMMA StepIsACommand ==
    ASSUME EGTypeOK, EGNext PROVE \E cmd \in Commands : Take(cmd)
<1>1. CASE PlaceLetter
  BY <1>1 DEF PlaceLetter, Commands
<1>2. CASE ClearCell
  BY <1>2 DEF ClearCell, Commands
<1>3. CASE CheckPuzzle
  BY <1>3 DEF CheckPuzzle, Commands
<1>4. CASE CastCheckVote
  <2>1. PICK u \in Users, i \in CommandIds, s \in 1..MaxSeq, yes \in BOOLEAN :
          Take([type |-> "castCheckVote", by |-> u, id |-> i, voteSeq |-> s,
                 approve |-> yes])
    BY <1>4 DEF CastCheckVote
  <2>2. [type |-> "castCheckVote", by |-> u, id |-> i, voteSeq |-> s,
         approve |-> yes] \in Commands
    BY MaxSeqAssumption DEF Commands, Ballots
  <2> QED BY <2>1, <2>2
<1>5. CASE ExpireCheckVote
  BY <1>5 DEF ExpireCheckVote, Commands
<1> QED BY <1>1, <1>2, <1>3, <1>4, <1>5 DEF EGNext

LEMMA CommandKeepsIInv ==
    ASSUME EGInv, NEW cmd \in Commands, Take(cmd) PROVE EGInv'
<1> DEFINE r == ApplyWithVote(grid, cmd)
           es == r.events
           n == Len(log)
<1>1. grid \in Boards /\ GoodBoard(grid) /\ log \in Seq(Events)
  BY DEF EGInv, EGTypeOK
<1>2. GoodResult(grid, r)
  BY <1>1, EngineKeepsGoodBoards
<1>3. grid' = r.state /\ log' = log \o es
  BY DEF Take
<1>3a. Path(grid, es, r.state)
  BY <1>1, EngineTakesSteps
<1>3b. LogTells(log', grid')
  BY <1>3, <1>3a, TellsPath DEF EGInv
<1> HIDE DEF r
<1>4. /\ grid' \in Boards /\ GoodBoard(grid') /\ es \in Seq(Events)
      /\ grid'.seq = grid.seq + Len(es) /\ Len(es) \in Nat
      /\ \A i \in 1..Len(es) : es[i].seq = grid.seq + i /\ FindsSomething(es[i])
  BY <1>2, <1>3 DEF GoodResult, Numbered
<1>5. /\ grid.seq = n /\ n \in Nat
      /\ \A i \in 1..n : log[i].seq = i /\ FindsSomething(log[i])
  BY <1>1 DEF EGInv, Numbered
<1> HIDE DEF es
<1>6. log' \in Seq(Events) /\ Len(log') = n + Len(es)
  BY <1>1, <1>3, <1>4
<1>7. \A i \in 1..Len(log') : log'[i] = IF i <= n THEN log[i] ELSE es[i - n]
  BY <1>1, <1>3, <1>4
<1> HIDE DEF n
<1>8. ASSUME NEW i \in 1..Len(log')
      PROVE  log'[i].seq = i /\ FindsSomething(log'[i])
  <2>1. CASE i <= n
    <3>1. i \in 1..n /\ log'[i] = log[i]
      BY <1>5, <1>6, <1>7, <2>1
    <3> QED BY <1>5, <3>1
  <2>2. CASE ~ (i <= n)
    <3> DEFINE j == i - n
    <3>1. j \in 1..Len(es) /\ log'[i] = es[j] /\ n + j = i
      BY <1>4, <1>5, <1>6, <1>7, <2>2
    <3> HIDE DEF j
    <3> QED BY <1>4, <1>5, <3>1
  <2> QED BY <2>1, <2>2
<1>9. Numbered(0, log', grid'.seq)
  <2>1. grid'.seq = 0 + Len(log')
    BY <1>4, <1>5, <1>6
  <2>2. \A i \in 1..Len(log') : log'[i].seq = 0 + i
    BY <1>8
  <2> QED BY <2>1, <2>2 DEF Numbered
<1> QED BY <1>3b, <1>4, <1>6, <1>8, <1>9 DEF EGInv, EGTypeOK

\* Every reachable game satisfies the inductive invariant.
THEOREM EGInvariance == EGSpec => []EGInv
<1>1. EGInv /\ [EGNext]_egVars => EGInv'
  <2>1. ASSUME EGInv, EGNext PROVE EGInv'
    BY <2>1, StepIsACommand, CommandKeepsIInv DEF EGInv
  <2>2. ASSUME EGInv, UNCHANGED egVars PROVE EGInv'
    BY <2>2 DEF EGInv, egVars, EGTypeOK
  <2> QED BY <2>1, <2>2
<1> QED BY InitGood, <1>1, PTL DEF EGSpec

\* The board keeps its type.
THEOREM EGTypeCorrect == EGSpec => []EGTypeOK
<1>1. EGInv => EGTypeOK
  BY DEF EGInv
<1> QED BY <1>1, EGInvariance, PTL

\* INV-2: accepted commands take the seqs 1, 2, 3, ... with no gap.
THEOREM SeqContiguity == EGSpec => []SeqIsContiguous
<1>1. EGInv => SeqIsContiguous
  BY DEF EGInv, SeqIsContiguous, Numbered
<1> QED BY <1>1, EGInvariance, PTL

\* PROTOCOL 10: no accepted check comes back empty-handed.
THEOREM ChecksAreNeverEmpty == EGSpec => []ChecksFindSomething
<1>1. EGInv => ChecksFindSomething
  BY DEF EGInv, ChecksFindSomething, Checks, FindsSomething
<1> QED BY <1>1, EGInvariance, PTL

\* The filled count, the marks, the open vote and the completion stay in agreement
\* with the letters.
THEOREM BoardStaysGood == EGSpec => []BoardIsGood
<1>1. EGInv => BoardIsGood
  BY DEF EGInv, BoardIsGood
<1> QED BY <1>1, EGInvariance, PTL

\* Votes never overlap, each closes at most once, and every check is the one its
\* vote asked for.
THEOREM VotesStaySerial == EGSpec => []VotesAreSerial
<1>1. EGInv => VotesAreSerial
  BY DEF EGInv, LogTells, Serial, VotesAreSerial
<1> QED BY <1>1, EGInvariance, PTL

\* A vote passes exactly with a strict majority of the electorate frozen when it
\* opened, and is rejected exactly when that majority is out of reach.
THEOREM OutcomesAreEarned == EGSpec => []OutcomeFollowsBallots
<1>1. EGInv => OutcomeFollowsBallots
  BY DEF EGInv, LogTells, OutcomeFollowsBallots
<1> QED BY <1>1, EGInvariance, PTL

\* Replaying the log yields the letters, the first fill, the check count and the
\* standing marks of the board.
THEOREM LogRebuildsBoard == EGSpec => []ReplayRebuildsBoard
<1>1. EGInv => ReplayRebuildsBoard
  BY DEF EGInv, LogTells, ReplayRebuildsBoard
<1> QED BY <1>1, EGInvariance, PTL

\* INV-4: once terminal, the board never changes.
THEOREM TerminalFreeze == EGSpec => TerminalIsFrozen
<1>1. EGInv /\ [EGNext]_egVars => [grid.status # "ongoing" => UNCHANGED grid]_egVars
  <2>1. ASSUME EGInv, EGNext, grid.status # "ongoing" PROVE UNCHANGED grid
    <3>1. PICK cmd \in Commands : Take(cmd)
      BY <2>1, StepIsACommand DEF EGInv
    <3> QED BY <2>1, <3>1, EngineFreezesTerminal DEF EGInv, EGTypeOK, Take
  <2> QED BY <2>1 DEF egVars
<1> QED BY <1>1, EGInvariance, PTL DEF EGSpec, TerminalIsFrozen

=============================================================================
