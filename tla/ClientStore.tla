---------------------------- MODULE ClientStore ----------------------------
(***************************************************************************)
(* The web client's store (apps/web/src/store/gameStore.ts): the board as  *)
(* the server sequenced it, the player's own unconfirmed cell writes over  *)
(* it (the overlay), and the connection state.  Every inbound frame maps a *)
(* store to the next store and the frames it sends in reply.               *)
(*                                                                         *)
(* Participants, cursors, reactions and the flashes are left out, and so   *)
(* is the intent marker of a vote, which only dims its buttons.            *)
(***************************************************************************)
EXTENDS Engine, Functions

\* The sequenced facts of a board, as adapt.ts buildBoard puts them on the wire.
ViewOf(b) ==
    [seq |-> b.seq, status |-> b.status, cells |-> b.cells, marks |-> b.marks,
     checks |-> b.checks, vote |-> b.vote]

Views == [seq : Nat, status : Statuses, cells : [Cells -> Values \cup {NoValue}],
          marks : SUBSET Cells, checks : Nat, vote : MaybeVotes]

SyncStates == {"connecting", "live", "resyncing", "reconnecting"}

\* An overlay entry is the command itself.  `welcomed` is a history: a snapshot
\* has ever been applied.
NewStore ==
    [sync |-> "connecting", view |-> ViewOf(EmptyBoard), overlay |-> <<>>,
     welcomed |-> FALSE]

IsStore(s) ==
    /\ s.sync \in SyncStates /\ s.view \in Views /\ s.welcomed \in BOOLEAN
    /\ DOMAIN s = DOMAIN NewStore
    /\ s.overlay \in Seq(CellCommands)

EventTypes == {"cellSet", "checkVoteOpened", "checkVoteCast", "checkVoteClosed",
               "puzzleChecked", "gameCompleted"}
SnapshotTypes == {"welcome", "sync"}
Closed == [type |-> "closed"]

\* The gates of placeLetter, clearCell, checkPuzzle and castCheckVote.
MaySend(s) == s.sync # "connecting" /\ s.view.status = "ongoing"

-----------------------------------------------------------------------------

\* Array.filter, with its condition as a set: SelectSeq means nothing to the provers.
Only(s, S) ==
    LET kept[n \in 0..Len(s)] ==
            IF n = 0 THEN <<>>
            ELSE IF s[n] \in S THEN Append(kept[n - 1], s[n]) ELSE kept[n - 1]
    IN  kept[Len(s)]

\* The entries of an overlay but for some command ids.
Without(overlay, ids) == Only(overlay, {e \in Range(overlay) : e.id \notin ids})

\* removeOverlayEntry
Forget(overlay, id) == Without(overlay, {id})

\* The vote a checkVoteOpened announces.
OpenedVote(e) ==
    [openedSeq |-> e.seq, by |-> e.by, id |-> e.id, electorate |-> e.electorate,
     approvals |-> {e.by}, rejections |-> {}]

\* A ballot counts once, for the vote it names.
Tallied(vote, e) ==
    IF vote = NoVote THEN vote
    ELSE IF vote.openedSeq # e.voteSeq \/ e.by \in vote.approvals \cup vote.rejections
    THEN vote
    ELSE IF e.approve THEN [vote EXCEPT !.approvals = @ \cup {e.by}]
    ELSE [vote EXCEPT !.rejections = @ \cup {e.by}]

\* Mutant: a mark survives the change of its cell's value.
ApplyEvent_KeepsMarks(view, e) ==
    CASE e.type = "cellSet" -> [view EXCEPT !.seq = e.seq, !.cells[e.cell] = e.value]
      [] e.type = "checkVoteOpened" -> [view EXCEPT !.seq = e.seq, !.vote = OpenedVote(e)]
      [] e.type = "checkVoteCast" -> [view EXCEPT !.seq = e.seq, !.vote = Tallied(@, e)]
      [] e.type = "checkVoteClosed" -> [view EXCEPT !.seq = e.seq, !.vote = NoVote]
      [] e.type = "puzzleChecked" ->
           [view EXCEPT !.seq = e.seq, !.marks = e.wrongCells, !.checks = e.checkCount]
      [] e.type = "gameCompleted" -> [view EXCEPT !.seq = e.seq, !.status = "completed"]

\* What one event makes of the sequenced state.
ApplyEvent(view, e) ==
    CASE e.type = "cellSet" ->
           [view EXCEPT !.seq = e.seq, !.cells[e.cell] = e.value,
                        !.marks = IF e.value # view.cells[e.cell] THEN @ \ {e.cell} ELSE @]
      [] e.type = "checkVoteOpened" -> [view EXCEPT !.seq = e.seq, !.vote = OpenedVote(e)]
      [] e.type = "checkVoteCast" -> [view EXCEPT !.seq = e.seq, !.vote = Tallied(@, e)]
      [] e.type = "checkVoteClosed" -> [view EXCEPT !.seq = e.seq, !.vote = NoVote]
      [] e.type = "puzzleChecked" ->
           [view EXCEPT !.seq = e.seq, !.marks = e.wrongCells, !.checks = e.checkCount]
      [] e.type = "gameCompleted" -> [view EXCEPT !.seq = e.seq, !.status = "completed"]

Apply(s, e) ==
    [s EXCEPT !.view = ApplyEvent(@, e),
              !.overlay = IF e.type = "cellSet" THEN Forget(@, e.id) ELSE @]

\* Mutant: any newer event is applied, a gap goes unseen.
ApplySequenced_NoGap(s, e) ==
    IF s.sync # "live" \/ e.seq <= s.view.seq THEN s ELSE Apply(s, e)

\* applySequenced: only a live store applies, only the next seq, and a gap stops
\* everything until a snapshot.
ApplySequenced(s, e) ==
    IF s.sync # "live" \/ e.seq <= s.view.seq THEN s
    ELSE IF e.seq > s.view.seq + 1 THEN [s EXCEPT !.sync = "resyncing"]
    ELSE Apply(s, e)

\* Mutant: a snapshot older than the view is refused.
ApplySnapshot_NoRollback(s, frame) ==
    [s EXCEPT !.sync = "live", !.welcomed = TRUE,
              !.view = IF frame.board.seq < @.seq THEN @ ELSE frame.board,
              !.overlay = Without(@, frame.recent)]

\* applySnapshot: everything sequenced is replaced, even by a lower seq; what the
\* snapshot confirms leaves the overlay, the rest stays and is sent again.  No
\* entry is ever aged out.
ApplySnapshot(s, frame) ==
    [s EXCEPT !.sync = "live", !.welcomed = TRUE, !.view = frame.board,
              !.overlay = Without(@, frame.recent)]

\* Mutant: a rejection leaves the overlay entry standing.
ApplyError_KeepsEntry(s, frame) ==
    IF frame.fatal THEN [s EXCEPT !.sync = "reconnecting"] ELSE s

\* A fatal error keeps the overlay for the reconnect; a rejection clears its entry.
ApplyError(s, frame) ==
    IF frame.fatal THEN [s EXCEPT !.sync = "reconnecting"]
    ELSE [s EXCEPT !.overlay = Forget(@, frame.id)]

\* Mutant: a lost connection starts over with an empty overlay.
ConnectionLost_Clears(s) == [s EXCEPT !.sync = "reconnecting", !.overlay = <<>>]

ConnectionLost(s) == [s EXCEPT !.sync = "reconnecting"]

\* receive, and connectionLost when the socket's close arrives.
Received(s, frame) ==
    CASE frame.type \in EventTypes -> ApplySequenced(s, frame)
      [] frame.type \in SnapshotTypes -> ApplySnapshot(s, frame)
      [] frame.type = "error" -> ApplyError(s, frame)
      [] frame = Closed -> ConnectionLost(s)

\* Mutant: a snapshot re-adds what it does not confirm but does not send it again.
Replies_NoResend(before, after, frame) ==
    IF before.sync = "live" /\ after.sync = "resyncing"
    THEN << [type |-> "requestSync"] >> ELSE <<>>

\* Mutant: the gap is noticed but no snapshot is asked for.
Replies_NoRequest(before, after, frame) ==
    IF frame.type \in SnapshotTypes THEN after.overlay ELSE <<>>

\* What the store sends once it has taken a frame in.
Replies(before, after, frame) ==
    IF frame.type \in SnapshotTypes THEN after.overlay
    ELSE IF before.sync = "live" /\ after.sync = "resyncing"
    THEN << [type |-> "requestSync"] >>
    ELSE <<>>

=============================================================================
