-------------------------------- MODULE Room --------------------------------
(***************************************************************************)
(* A room: every player's client store over its WebSocket transport        *)
(* (apps/web/src/net/wsTransport.ts), and the session service's side of    *)
(* each socket (server.ts, handshake.ts) in front of one game, with dropped*)
(* sockets, frames the client's codec refuses, hard kills and reconnects.  *)
(*                                                                         *)
(* The game is Engine's board behind the actor's mailbox.  A flush saves   *)
(* it; when flushes run and how they fail is GameActor's subject.  Each    *)
(* player has one tab open and may write.  Both ends of a dropped socket   *)
(* learn of it in one step.                                                *)
(***************************************************************************)
EXTENDS ClientStore, SequencesExt

CONSTANTS
    MaxCommands,  \* bound: commands each player sends
    RecentLimit,  \* RECENT_COMMAND_LIMIT: remembered command ids
    MaxDrops,     \* bound: sockets dropped by the network
    MaxLost,      \* bound: sequenced frames a client's codec refuses
    MaxCrashes,   \* bound: hard kills of the service
    MaxFaults     \* bound: failed reads of the member list

ASSUME RoomAssumption ==
    /\ MaxCommands \in Nat /\ CommandIds = Users \X (1..MaxCommands)
    /\ RecentLimit \in Nat \ {0}
    /\ MaxDrops \in Nat /\ MaxLost \in Nat /\ MaxCrashes \in Nat /\ MaxFaults \in Nat

VARIABLES
    board,      \* the actor's board
    applied,    \* ids of the applied commands, oldest first; recentCommandIds is its tail
    saved,      \* the durable row: board and applied
    finishing,  \* the terminal flush is in flight
    queue,      \* the actor's mailbox: a message, its sender, its socket still up
    phase,      \* the server's side of each player's socket
    socket,     \* the player's side: closed, open, or greeted (hello sent)
    up, down,   \* frames in flight on the current socket
    late,       \* frames the server has yet to read from sockets that are gone
    ghosts,     \* players attached to the actor through a socket that is gone
    client,     \* the stores
    typed,      \* how many commands each player has minted
    faults,     \* drops, lost frames, crashes and failed reads so far
    answered    \* history: ids of the commands ever applied or refused

vars == <<board, applied, saved, finishing, queue, phase, socket, up, down, late,
          ghosts, client, typed, faults, answered>>
game == <<board, applied, saved, finishing, answered>>

-----------------------------------------------------------------------------

LastOf(s, n) == IF Len(s) <= n THEN s ELSE SubSeq(s, Len(s) - n + 1, Len(s))

Recent == Range(LastOf(applied, RecentLimit))

SnapshotFrame(type) == [type |-> type, board |-> ViewOf(board), recent |-> Recent]
ErrorFrame(code, id) == [type |-> "error", fatal |-> FALSE, code |-> code, id |-> id]
FatalFrame(code) == [type |-> "error", fatal |-> TRUE, code |-> code]
RequestSync == [type |-> "requestSync"]
Hello == [type |-> "hello"]

Count(fault, max) == faults[fault] < max /\ faults' = [faults EXCEPT ![fault] = @ + 1]

Init ==
    /\ board = EmptyBoard /\ applied = <<>>
    /\ saved = [board |-> EmptyBoard, applied |-> <<>>]
    /\ finishing = FALSE /\ queue = <<>>
    /\ phase = [u \in Users |-> "none"] /\ socket = [u \in Users |-> "closed"]
    /\ up = [u \in Users |-> <<>>] /\ down = [u \in Users |-> <<>>]
    /\ late = [u \in Users |-> <<>>] /\ ghosts = {}
    /\ client = [u \in Users |-> NewStore]
    /\ typed = [u \in Users |-> 0]
    /\ faults = [drops |-> 0, lost |-> 0, crashes |-> 0, reads |-> 0]
    /\ answered = {}

-----------------------------------------------------------------------------
(* The player and the transport.                                           *)

\* transport.send: without an open socket the frame is gone.
Send(u, frames) ==
    up' = IF socket[u] = "closed" THEN up ELSE [up EXCEPT ![u] = @ \o frames]

\* placeLetter and clearCell: an overlay entry and a frame.
Type(u) ==
    /\ typed[u] < MaxCommands
    /\ MaySend(client[u])
    /\ \E cmd \in {c \in CellCommands : c.id = <<u, typed[u] + 1>>} :
         /\ client' = [client EXCEPT ![u].overlay = Append(@, cmd)]
         /\ Send(u, << cmd >>)
    /\ typed' = [typed EXCEPT ![u] = @ + 1]
    /\ UNCHANGED <<game, queue, phase, socket, down, late, ghosts, faults>>

\* checkPuzzle and castCheckVote: a frame, and no overlay.
Vote(u) ==
    LET id == <<u, typed[u] + 1>>
        vote == client[u].view.vote
    IN  /\ typed[u] < MaxCommands
        /\ MaySend(client[u])
        /\ IF vote = NoVote
           THEN Send(u, << [type |-> "checkPuzzle", id |-> id] >>)
           ELSE \E yes \in BOOLEAN :
                  Send(u, << [type |-> "castCheckVote", id |-> id, approve |-> yes,
                              voteSeq |-> vote.openedSeq] >>)
        /\ typed' = [typed EXCEPT ![u] = @ + 1]
        /\ UNCHANGED <<game, queue, phase, socket, down, late, ghosts, client, faults>>

\* connect, first or after a backoff.
Open(u) ==
    /\ socket[u] = "closed" /\ phase[u] = "none"
    /\ socket' = [socket EXCEPT ![u] = "open"] /\ phase' = [phase EXCEPT ![u] = "new"]
    /\ UNCHANGED <<game, queue, up, down, late, ghosts, client, typed, faults>>

\* sendHello, once the token has resolved.
SendHello(u) ==
    /\ socket[u] = "open"
    /\ socket' = [socket EXCEPT ![u] = "greeted"]
    /\ up' = [up EXCEPT ![u] = Append(@, Hello)]
    /\ UNCHANGED <<game, queue, phase, down, late, ghosts, client, typed, faults>>

\* The store takes in the next frame; on the close it is told the connection is
\* lost and the backoff starts.
Receive(u) ==
    /\ down[u] # <<>>
    /\ LET frame == Head(down[u])
           after == Received(client[u], frame)
       IN  /\ client' = [client EXCEPT ![u] = after]
           /\ IF frame = Closed
              THEN /\ socket' = [socket EXCEPT ![u] = "closed"]
                   /\ up' = [up EXCEPT ![u] = <<>>] /\ down' = [down EXCEPT ![u] = <<>>]
              ELSE /\ Send(u, Replies(client[u], after, frame))
                   /\ down' = [down EXCEPT ![u] = Tail(@)]
                   /\ UNCHANGED socket
    /\ UNCHANGED <<game, queue, phase, late, ghosts, typed, faults>>

\* A sequenced frame the codec refuses is dropped and logged.
LoseFrame(u) ==
    /\ Count("lost", MaxLost)
    /\ down[u] # <<>> /\ Head(down[u]).type \in EventTypes
    /\ down' = [down EXCEPT ![u] = Tail(@)]
    /\ UNCHANGED <<game, queue, phase, socket, up, late, ghosts, client, typed>>

-----------------------------------------------------------------------------
(* The server's side of the sockets.                                       *)

\* What the server may still read of a socket that is gone: commands, after the
\* hello when the handshake has not begun.
Unread(u, frames) ==
    LET commands == Only(frames, Range(frames) \ {RequestSync})
        hellos == {i \in DOMAIN commands : commands[i] = Hello}
    IN  IF phase[u] # "new" THEN commands
        ELSE IF hellos = {} THEN <<>>
        ELSE SubSeq(commands, CHOOSE i \in hellos : \A j \in hellos : i <= j, Len(commands))

\* The network drops the socket: what was on its way to the player is gone, what
\* the player sent may still be read, and the answers to it go nowhere.
Drop(u) ==
    /\ Count("drops", MaxDrops)
    /\ socket[u] # "closed" /\ phase[u] # "none"
    /\ client' = [client EXCEPT ![u] = ConnectionLost(@)]
    /\ socket' = [socket EXCEPT ![u] = "closed"] /\ phase' = [phase EXCEPT ![u] = "none"]
    /\ up' = [up EXCEPT ![u] = <<>>] /\ down' = [down EXCEPT ![u] = <<>>]
    /\ late' = [late EXCEPT ![u] = @ \o Unread(u, up[u])]
    /\ queue' = [i \in DOMAIN queue |-> [queue[i] EXCEPT !.here = @ /\ queue[i].by # u]]
    /\ UNCHANGED <<game, ghosts, typed>>

\* runHandshake: the first frame must be hello, then the socket is attached to
\* the actor and gets every broadcast from there on.
Handshake(u) ==
    /\ phase[u] = "new" /\ up[u] # <<>>
    /\ IF Head(up[u]) = Hello
       THEN /\ phase' = [phase EXCEPT ![u] = "attached"]
            /\ up' = [up EXCEPT ![u] = Tail(@)]
            /\ UNCHANGED <<down, late>>
       ELSE /\ phase' = [phase EXCEPT ![u] = "none"]
            /\ down' = [down EXCEPT ![u] = @ \o << FatalFrame("UNAUTHORIZED"), Closed >>]
            /\ up' = [up EXCEPT ![u] = <<>>]
            /\ late' = [late EXCEPT ![u] = @ \o Unread(u, Tail(up[u]))]
    /\ UNCHANGED <<game, queue, socket, ghosts, client, typed, faults>>

\* buildWelcome: the snapshot is taken when the members have been read.
Welcome(u) ==
    /\ phase[u] = "attached"
    /\ phase' = [phase EXCEPT ![u] = "live"]
    /\ down' = [down EXCEPT ![u] = Append(@, SnapshotFrame("welcome"))]
    /\ UNCHANGED <<game, queue, socket, up, late, ghosts, client, typed, faults>>

\* handleLiveFrame: a resync is answered, a command goes to the mailbox.
HandleFrame(u) ==
    /\ phase[u] = "live" /\ up[u] # <<>>
    /\ up' = [up EXCEPT ![u] = Tail(@)]
    /\ IF Head(up[u]) = RequestSync
       THEN down' = [down EXCEPT ![u] = Append(@, SnapshotFrame("sync"))] /\ UNCHANGED queue
       ELSE /\ queue' = Append(queue, [by |-> u, here |-> TRUE, msg |-> Head(up[u])])
            /\ UNCHANGED down
    /\ UNCHANGED <<game, phase, socket, late, ghosts, client, typed, faults>>

\* The member list cannot be read: the handler's fault is swallowed, and the
\* welcome or the sync is never sent.
MembersUnreadable(u) ==
    /\ Count("reads", MaxFaults)
    /\ \/ phase[u] = "attached" /\ phase' = [phase EXCEPT ![u] = "live"] /\ UNCHANGED up
       \/ /\ phase[u] = "live" /\ up[u] # <<>> /\ Head(up[u]) = RequestSync
          /\ up' = [up EXCEPT ![u] = Tail(@)] /\ UNCHANGED phase
    /\ UNCHANGED <<game, queue, socket, down, late, ghosts, client, typed>>

\* A frame of a socket that is gone.  A hello still attaches: when the close came
\* before the handshake ended there is nothing left to detach it.
HandleLate(u) ==
    /\ late[u] # <<>>
    /\ late' = [late EXCEPT ![u] = Tail(@)]
    /\ IF Head(late[u]) = Hello
       THEN ghosts' \in {ghosts, ghosts \cup {u}} /\ UNCHANGED queue
       ELSE /\ queue' = Append(queue, [by |-> u, here |-> FALSE, msg |-> Head(late[u])])
            /\ UNCHANGED ghosts
    /\ UNCHANGED <<game, phase, socket, up, down, client, typed, faults>>

-----------------------------------------------------------------------------
(* The actor.                                                              *)

Attached == {u \in Users : phase[u] \in {"attached", "live"}}

Broadcast(events) ==
    down' = [u \in Users |-> IF u \in Attached THEN down[u] \o events ELSE down[u]]

\* The engine's command: a proposal carries everyone attached as its electorate.
VoteCommand(by, msg) ==
    CASE msg.type = "checkPuzzle" ->
           [type |-> msg.type, id |-> msg.id, by |-> by,
            electorate |-> {by} \cup Attached \cup ghosts]
      [] msg.type = "castCheckVote" ->
           [type |-> msg.type, id |-> msg.id, by |-> by, voteSeq |-> msg.voteSeq,
            approve |-> msg.approve]
      [] OTHER -> msg

\* Mutant: gameCompleted is broadcast with the move's other events.
ToldAtOnce_All(events, completes) == events

\* emitVoteEvents: gameCompleted, the last event of a move that completes the game, is
\* held back for its flush.
ToldAtOnce(events, completes) == IF completes THEN Front(events) ELSE events

\* Mutant: duplicates are not looked for.
Duplicate_Never(msg) == FALSE

Duplicate(msg) == msg.id \in Recent

\* handleMutation.  A duplicate is dropped silently, a rejection is told on the
\* socket it came from, and a completion waits for its flush before it is told.
RunCommand ==
    /\ queue # <<>> /\ ~ finishing
    /\ queue' = Tail(queue)
    /\ LET task == Head(queue)
           result == ApplyWithVote(board, VoteCommand(task.by, task.msg))
       IN  IF Duplicate(task.msg)
           THEN UNCHANGED <<board, applied, finishing, answered, down>>
           ELSE IF result.error # "none"
           THEN /\ down' = IF task.here
                           THEN [down EXCEPT ![task.by] =
                                    Append(@, ErrorFrame(result.error, task.msg.id))]
                           ELSE down
                /\ answered' = answered \cup {task.msg.id}
                /\ UNCHANGED <<board, applied, finishing>>
           ELSE /\ board' = result.state
                /\ applied' = Append(applied, task.msg.id)
                /\ answered' = answered \cup {task.msg.id}
                /\ finishing' = (result.state.status = "completed")
                /\ Broadcast(ToldAtOnce(result.events, finishing'))
    /\ UNCHANGED <<saved, phase, socket, up, late, ghosts, client, typed, faults>>

\* A write-behind flush.
Flush ==
    /\ ~ finishing /\ saved.board # board
    /\ saved' = [board |-> board, applied |-> applied]
    /\ UNCHANGED <<board, applied, finishing, answered, queue, phase, socket, up, down,
                   late, ghosts, client, typed, faults>>

\* completeGame: durable first, then gameCompleted.
FlushTerminal ==
    /\ finishing
    /\ finishing' = FALSE
    /\ saved' = [board |-> board, applied |-> applied]
    /\ Broadcast(<< GameCompleted(board.seq) >>)
    /\ UNCHANGED <<board, applied, answered, queue, phase, socket, up, late, ghosts,
                   client, typed, faults>>

\* handleExpiry: the open vote's timebox is over.
ExpireOpenVote ==
    /\ ~ finishing /\ board.vote # NoVote
    /\ LET result == ApplyWithVote(board, Expiry)
       IN  board' = result.state /\ Broadcast(result.events)
    /\ UNCHANGED <<applied, saved, finishing, answered, queue, phase, socket, up, late,
                   ghosts, client, typed, faults>>

\* A hard kill: every socket closes, and the game comes back from its row.
Crash ==
    /\ Count("crashes", MaxCrashes)
    /\ board' = saved.board /\ applied' = LastOf(saved.applied, RecentLimit)
    /\ finishing' = FALSE /\ queue' = <<>> /\ ghosts' = {}
    /\ phase' = [u \in Users |-> "none"]
    /\ up' = [u \in Users |-> <<>>] /\ late' = [u \in Users |-> <<>>]
    /\ down' = [u \in Users |-> IF phase[u] = "none" THEN down[u]
                                ELSE Append(down[u], Closed)]
    /\ UNCHANGED <<saved, answered, socket, client, typed>>

-----------------------------------------------------------------------------

Player(u) == Type(u) \/ Vote(u)
Transport(u) == Open(u) \/ SendHello(u) \/ Receive(u) \/ LoseFrame(u) \/ Drop(u)
Server(u) == Handshake(u) \/ Welcome(u) \/ HandleFrame(u) \/ HandleLate(u)
                 \/ MembersUnreadable(u)
Actor == RunCommand \/ Flush \/ FlushTerminal \/ ExpireOpenVote

Next == (\E u \in Users : Player(u) \/ Transport(u) \/ Server(u)) \/ Actor \/ Crash

Spec == Init /\ [][Next]_vars

\* Both event loops keep running, tokens resolve, reads and flushes return, and
\* the backoff ends.  Players, the network and crashes promise nothing.
FairSpec ==
    /\ Spec
    /\ \A u \in Users :
         /\ WF_vars(Open(u)) /\ WF_vars(SendHello(u)) /\ WF_vars(Receive(u))
         /\ WF_vars(Handshake(u)) /\ WF_vars(Welcome(u)) /\ WF_vars(HandleFrame(u))
         /\ WF_vars(HandleLate(u))
    /\ WF_vars(RunCommand) /\ WF_vars(FlushTerminal)

-----------------------------------------------------------------------------
(* Safety.                                                                 *)

\* The room is a room.
TypeOK ==
    /\ board \in Boards /\ saved.board \in Boards
    /\ applied \in Seq(CommandIds) /\ saved.applied \in Seq(CommandIds)
    /\ finishing \in BOOLEAN /\ (finishing => board.status = "completed")
    /\ phase \in [Users -> {"none", "new", "attached", "live"}]
    /\ socket \in [Users -> {"closed", "open", "greeted"}]
    /\ ghosts \subseteq Users
    /\ \A u \in Users : IsStore(client[u])
    /\ typed \in [Users -> 0..MaxCommands]

\* The store of u once everything on its way to it has arrived.
Settled(u) ==
    LET after[n \in 0..Len(down[u])] ==
            IF n = 0 THEN client[u] ELSE Received(after[n - 1], down[u][n])
    IN  after[Len(down[u])]

\* The views a player may hold: the board, and while the completion is not yet
\* durable the board as it was before gameCompleted.
CurrentViews ==
    {ViewOf(board)} \cup
    (IF finishing THEN {[ViewOf(board) EXCEPT !.seq = @ - 1, !.status = "ongoing"]} ELSE {})

\* Convergence (INV-1, INV-10, PROTOCOL 7): whatever was dropped, rolled back or
\* resynced before, a live client that has taken in what is on its way to it
\* holds exactly the actor's board.  It may be behind only when a frame of its
\* own was lost and no later event has shown the gap.
LiveViewIsBoard ==
    \A u \in Users :
        phase[u] = "live" /\ Settled(u).sync = "live" =>
            \/ Settled(u).view \in CurrentViews
            \/ faults.lost > 0 /\ Settled(u).view.seq < board.seq

\* INV-10, never silently: whatever happens to the connection, an entry leaves
\* the overlay only when the server has applied or refused its command.
NothingVanishes ==
    [][\A u \in Users : \A i \in DOMAIN client[u].overlay :
          LET entry == client[u].overlay[i]
          IN  entry \in Range(client'[u].overlay) \/ entry.id \in answered]_vars

\* However often reconciliation sends a command again, and whatever a kill takes
\* back, it is applied again only behind as many others as the server remembers.
NotAppliedAgainSoon ==
    \A i, j \in DOMAIN applied : i < j /\ applied[i] = applied[j] => j - i > RecentLimit

\* gameCompleted is on its way only when the completed board is durable (INV-3).
CompletionIsDurable ==
    \A u \in Users : \A i \in DOMAIN down[u] :
        down[u][i].type = "gameCompleted" => saved.board.status = "completed"

-----------------------------------------------------------------------------
(* Liveness.                                                               *)

\* INV-1 and INV-10 in the end: once the network holds and nobody types, every
\* player whose reads the database answered is live again; and if no frame was
\* lost, sees the actor's board with nothing painted over it, so no overlay entry
\* is immortal.  A failed read is left out: nothing recovers from it (README).
Converges ==
    <>[](faults.reads = 0 =>
            \A u \in Users :
                /\ client[u].sync = "live"
                /\ faults.lost = 0 =>
                     client[u].view = ViewOf(board) /\ client[u].overlay = <<>>)

-----------------------------------------------------------------------------
(* What the documents say and the code does not keep.                      *)

\* PROTOCOL 2: the first frame of a socket is hello.
HelloComesFirst ==
    \A u \in Users : phase[u] = "new" /\ up[u] # <<>> => Head(up[u]) = Hello

\* gameStore.ts 386: no overlay entry is minted before the first snapshot.
OverlayNeedsBoard ==
    \A u \in Users : client[u].overlay # <<>> => client[u].welcomed

\* INV-3: a completion a player sees is durable.
SeenCompletionIsDurable ==
    \A u \in Users : client[u].view.status = "completed" => saved.board.status = "completed"

\* PROTOCOL 9: a user is connected while they hold at least one socket.
ConnectedHoldSockets == ghosts \subseteq {u \in Users : phase[u] # "none"}

=============================================================================
