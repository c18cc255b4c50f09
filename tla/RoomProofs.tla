------------------------------ MODULE RoomProofs ------------------------------
(***************************************************************************)
(* Proofs about a room, for any number of players, commands, drops, lost   *)
(* frames, crashes and failed reads.                                       *)
(*                                                                         *)
(* TypeInv and Linked hold in every state: the types, and what the two     *)
(* ends of a socket know of each other.  Under them every step is one of   *)
(* the six things Happens lists, and the other invariants are kept by      *)
(* those: Answers (the ids of what is on its way were answered), Durable   *)
(* (gameCompleted is told of a durable board), Spaced (no id comes back    *)
(* soon), and Lineage (the frames on their way step through the views the  *)
(* game has gone through, up to the last one told).                        *)
(***************************************************************************)
EXTENDS Room, EngineProofs

-----------------------------------------------------------------------------
(* The filter.                                                             *)

\* The first n places of s, filtered.
Kept(s, S) ==
    CHOOSE f : f = [n \in 0..Len(s) |->
                       IF n = 0 THEN <<>>
                       ELSE IF s[n] \in S THEN Append(f[n - 1], s[n]) ELSE f[n - 1]]

\* f filters s up to place m.
Filters(f, s, S, m) ==
    f = [n \in 0..m |-> IF n = 0 THEN <<>>
                        ELSE IF s[n] \in S THEN Append(f[n - 1], s[n]) ELSE f[n - 1]]

LEMMA OnlyIsKept == ASSUME NEW s, NEW S PROVE Only(s, S) = Kept(s, S)[Len(s)]
  BY DEF Only, Kept

\* The recursion has a solution up to every place.
LEMMA FilterExists ==
    ASSUME NEW T, NEW s \in Seq(T), NEW S
    PROVE  \E f : Filters(f, s, S, Len(s))
<1> DEFINE Bad == {m \in 0..Len(s) : \A f : ~ Filters(f, s, S, m)}
<1>0. Len(s) \in Nat
  OBVIOUS
<1>1. ASSUME NEW m \in 0..Len(s), m # 0, NEW f, Filters(f, s, S, m - 1)
      PROVE  \E g : Filters(g, s, S, m)
  <2> DEFINE x == IF s[m] \in S THEN Append(f[m - 1], s[m]) ELSE f[m - 1]
             g == [n \in 0..m |-> IF n = m THEN x ELSE f[n]]
  <2>1. m \in Nat /\ m - 1 \in 0..m /\ m - 1 # m
    BY <1>0, <1>1
  <2>2. ASSUME NEW n \in 0..m, n # m
        PROVE  g[n] = IF n = 0 THEN <<>>
                      ELSE IF s[n] \in S THEN Append(g[n - 1], s[n]) ELSE g[n - 1]
    <3>1. n \in 0..(m - 1) /\ g[n] = f[n]
      BY <2>2
    <3>2. n # 0 => n - 1 \in 0..m /\ n - 1 # m /\ g[n - 1] = f[n - 1]
      BY <3>1
    <3> HIDE DEF g
    <3>3. f[n] = IF n = 0 THEN <<>>
                 ELSE IF s[n] \in S THEN Append(f[n - 1], s[n]) ELSE f[n - 1]
      BY <1>1, <3>1 DEF Filters
    <3> QED BY <3>1, <3>2, <3>3
  <2>3. g[m] = IF s[m] \in S THEN Append(g[m - 1], s[m]) ELSE g[m - 1]
    BY <2>1
  <2>4. g = [n \in 0..m |-> g[n]]
    OBVIOUS
  <2> HIDE DEF g
  <2>5. Filters(g, s, S, m)
    BY <1>1, <2>2, <2>3, <2>4 DEF Filters
  <2> QED BY <2>5
<1>2. 0 \notin Bad
  <2>1. Filters([n \in 0..0 |-> <<>>], s, S, 0)
    BY DEF Filters
  <2> QED BY <2>1
<1>3. Bad = {}
  <2>1. SUFFICES ASSUME Bad # {} PROVE FALSE
    OBVIOUS
  <2>a. Bad \subseteq Nat
    BY <1>0
  <2>2. PICK m \in Bad : \A k \in Bad : m <= k
    <3> HIDE DEF Bad
    <3> QED BY <2>1, <2>a, SetHasMin
  <2>3. m \in 0..Len(s) /\ m # 0 /\ m - 1 \in 0..Len(s) /\ ~ (m <= m - 1)
    BY <2>2, <1>2
  <2>4. m - 1 \notin Bad
    BY <2>2, <2>3
  <2> QED BY <1>1, <2>2, <2>3, <2>4
<1>4. Len(s) \in 0..Len(s)
  OBVIOUS
<1> QED BY <1>3, <1>4

LEMMA KeptFilters ==
    ASSUME NEW T, NEW s \in Seq(T), NEW S
    PROVE  Filters(Kept(s, S), s, S, Len(s))
<1>1. PICK f : Filters(f, s, S, Len(s))
  BY FilterExists
<1> QED BY <1>1 DEF Filters, Kept

\* What the filter keeps: exactly the members of S.
LEMMA OnlyFacts ==
    ASSUME NEW T, NEW s \in Seq(T), NEW S
    PROVE  /\ Only(s, S) \in Seq(T \cap S)
           /\ \A i \in 1..Len(s) : s[i] \in S => \E j \in 1..Len(Only(s, S)) : Only(s, S)[j] = s[i]
<1> DEFINE f == Kept(s, S)
<1>1. Filters(f, s, S, Len(s))
  BY KeptFilters
<1>2. Only(s, S) = f[Len(s)]
  BY OnlyIsKept
<1> DEFINE Good(n) ==
       /\ f[n] \in Seq(T \cap S)
       /\ \A i \in 1..n : s[i] \in S => \E j \in 1..Len(f[n]) : f[n][j] = s[i]
    Bad == {n \in 0..Len(s) : ~ Good(n)}
<1> HIDE DEF f
<1>a. Len(s) \in Nat
  OBVIOUS
<1>b. f[0] = <<>>
  BY <1>1, <1>a DEF Filters
<1>c. ASSUME NEW n \in 1..Len(s)
      PROVE  /\ n - 1 \in 0..Len(s) /\ n \in 0..Len(s) /\ n # 0
             /\ f[n] = IF s[n] \in S THEN Append(f[n - 1], s[n]) ELSE f[n - 1]
  <2>1. n - 1 \in 0..Len(s) /\ n \in 0..Len(s) /\ n # 0
    BY <1>a
  <2> QED BY <1>1, <2>1 DEF Filters
<1>3. Good(0)
  BY <1>b
<1>4. ASSUME NEW n \in 1..Len(s), Good(n - 1) PROVE Good(n)
  <2>1. CASE s[n] \in S
    <3> DEFINE p == f[n - 1]
    <3>1. s[n] \in T /\ p \in Seq(T \cap S) /\ f[n] = Append(p, s[n])
      <4>1. s[n] \in T
        OBVIOUS
      <4>2. p \in Seq(T \cap S)
        BY <1>4
      <4> QED BY <1>c, <2>1, <4>1, <4>2
    <3>2. \A i \in 1..(n - 1) : s[i] \in S => \E j \in 1..Len(p) : p[j] = s[i]
      BY <1>4
    <3> HIDE DEF p, Good
    <3>3. /\ Append(p, s[n]) \in Seq(T \cap S) /\ Len(Append(p, s[n])) = Len(p) + 1
          /\ \A j \in 1..Len(p) : Append(p, s[n])[j] = p[j]
          /\ Append(p, s[n])[Len(p) + 1] = s[n]
      BY <3>1, <2>1
    <3>4. \A j \in 1..Len(p) : j \in 1..(Len(p) + 1)
      BY <3>1
    <3>5. Len(p) + 1 \in 1..(Len(p) + 1)
      BY <3>1
    <3>6. \A i \in 1..n : i \in 1..(n - 1) \/ i = n
      OBVIOUS
    <3>7. ASSUME NEW i \in 1..n, s[i] \in S
          PROVE  \E j \in 1..Len(Append(p, s[n])) : Append(p, s[n])[j] = s[i]
      BY <3>2, <3>3, <3>4, <3>5, <3>6, <3>7
    <3> QED BY <3>1, <3>3, <3>7 DEF Good
  <2>2. CASE s[n] \notin S
    <3>1. f[n] = f[n - 1]
      BY <1>c, <2>2
    <3>2. \A i \in 1..n : s[i] \in S => i \in 1..(n - 1)
      BY <2>2
    <3> QED BY <1>4, <3>1, <3>2
  <2> QED BY <2>1, <2>2
<1>5. Bad = {}
  <2> HIDE DEF Good
  <2>1. SUFFICES ASSUME Bad # {} PROVE FALSE
    OBVIOUS
  <2>a. Bad \subseteq Nat
    OBVIOUS
  <2>2. PICK m \in Bad : \A k \in Bad : m <= k
    <3> HIDE DEF Bad
    <3> QED BY <2>1, <2>a, SetHasMin
  <2>3. m \in 1..Len(s) /\ m - 1 \in 0..Len(s) /\ ~ (m <= m - 1)
    BY <2>2, <1>3
  <2>4. m - 1 \notin Bad
    BY <2>2, <2>3
  <2> QED BY <1>4, <2>2, <2>3, <2>4
<1>6. Good(Len(s))
  BY <1>5
<1> QED BY <1>2, <1>6

-----------------------------------------------------------------------------
(* Types.                                                                  *)

\* What a player sends besides hello and requestSync.
Sent ==
    CellCommands
      \cup [type : {"checkPuzzle"}, id : CommandIds]
      \cup [type : {"castCheckVote"}, id : CommandIds, approve : BOOLEAN, voteSeq : Nat]

Upward == Sent \cup {Hello, RequestSync}

Codes == {ApplyWithVote(b, cmd).error : b \in Boards, cmd \in Commands}
Snapshots == [type : SnapshotTypes, board : Views, recent : SUBSET CommandIds]
Errors == [type : {"error"}, fatal : {FALSE}, code : Codes, id : CommandIds]
Downward == Events \cup Snapshots \cup Errors \cup {FatalFrame("UNAUTHORIZED"), Closed}

Stores == [sync : SyncStates, view : Views, overlay : Seq(CellCommands), welcomed : BOOLEAN]

GameTyped ==
    /\ board \in Boards /\ GoodBoard(board)
    /\ saved \in [board : Boards, applied : Seq(CommandIds)] /\ GoodBoard(saved.board)
    /\ applied \in Seq(CommandIds) /\ answered \subseteq CommandIds
    /\ finishing \in BOOLEAN /\ (finishing => board.status = "completed")
QueueTyped == queue \in Seq([by : Users, here : BOOLEAN, msg : Sent])
SocketsTyped ==
    /\ phase \in [Users -> {"none", "new", "attached", "live"}]
    /\ socket \in [Users -> {"closed", "open", "greeted"}]
    /\ ghosts \subseteq Users
UpTyped == up \in [Users -> Seq(Upward)] /\ late \in [Users -> Seq(Sent \cup {Hello})]
DownTyped == down \in [Users -> Seq(Downward)]
ClientTyped ==
    /\ client \in [Users -> Stores] /\ typed \in [Users -> 0..MaxCommands]
    /\ faults \in [{"drops", "lost", "crashes", "reads"} -> Nat]

\* hello is said once on a socket, and has been read before it is attached.
Greeted ==
    \A u \in Users :
        /\ socket[u] # "greeted" => \A i \in 1..Len(up[u]) : up[u][i] # Hello
        /\ \A i, j \in 1..Len(up[u]) : up[u][i] = Hello /\ up[u][j] = Hello => i = j
        /\ phase[u] \in {"attached", "live"} =>
               socket[u] = "greeted" /\ \A i \in 1..Len(up[u]) : up[u][i] # Hello

\* A frame of a connection that is up.
IsOpen(f) == f # Closed /\ f # FatalFrame("UNAUTHORIZED")

\* Only an attached socket is told anything, a closed one knows that it is not live,
\* and a live store has been welcomed on the socket it has.
Linked ==
    /\ \A u \in Users :
         /\ socket[u] = "closed" \/ phase[u] = "new" =>
                client[u].sync # "live" /\ down[u] = <<>>
         /\ phase[u] \in {"attached", "live"} => \A i \in 1..Len(down[u]) : IsOpen(down[u][i])
         /\ phase[u] = "attached" =>
                /\ client[u].sync # "live"
                /\ \A i \in 1..Len(down[u]) : down[u][i] \notin Snapshots
         /\ phase[u] # "none" => socket[u] # "closed"
    /\ \A i \in 1..Len(queue) : queue[i].here => phase[queue[i].by] = "live"

TypeInv ==
    /\ GameTyped /\ QueueTyped /\ SocketsTyped /\ UpTyped /\ DownTyped /\ ClientTyped /\ Greeted

LEMMA HelloIsApart ==
    /\ Hello \notin Sent /\ Hello # RequestSync /\ RequestSync \notin Sent
    /\ Closed \notin Events \cup Snapshots \cup Errors /\ Closed # FatalFrame("UNAUTHORIZED")
<1>1. /\ Hello.type = "hello" /\ RequestSync.type = "requestSync" /\ Closed.type = "closed"
      /\ FatalFrame("UNAUTHORIZED").type = "error"
  BY DEF Hello, RequestSync, Closed, FatalFrame
<1>2. \A m \in Sent : m.type \in {"placeLetter", "clearCell", "checkPuzzle", "castCheckVote"}
  BY DEF Sent, CellCommands
<1>3. \A f \in Events \cup Snapshots \cup Errors : f.type # "closed"
  BY DEF Events, Snapshots, Errors, SnapshotTypes
<1> QED BY <1>1, <1>2, <1>3

\* The overlay without some ids keeps every other entry.
LEMMA WithoutFacts ==
    ASSUME NEW s \in Seq(CellCommands), NEW ids
    PROVE  /\ Without(s, ids) \in Seq(CellCommands)
           /\ \A i \in DOMAIN s : s[i].id \notin ids => s[i] \in Range(Without(s, ids))
<1> DEFINE S == {e \in Range(s) : e.id \notin ids}
<1>1. /\ Only(s, S) \in Seq(CellCommands \cap S)
      /\ \A i \in 1..Len(s) : s[i] \in S => \E j \in 1..Len(Only(s, S)) : Only(s, S)[j] = s[i]
  <2> HIDE DEF S
  <2> QED BY OnlyFacts
<1>2. DOMAIN s = 1..Len(s) /\ \A i \in 1..Len(s) : s[i].id \notin ids => s[i] \in S
  BY DEF Range
<1>3. Without(s, ids) = Only(s, S)
  BY DEF Without
<1> HIDE DEF S
<1>4. Only(s, S) \in Seq(CellCommands)
  BY <1>1
<1>5. DOMAIN Only(s, S) = 1..Len(Only(s, S))
  BY <1>4
<1> QED BY <1>1, <1>2, <1>3, <1>4, <1>5 DEF Range

LEMMA ViewOfTyped == ASSUME NEW b \in Boards PROVE ViewOf(b) \in Views /\ ViewOf(b).seq = b.seq
  BY DEF ViewOf, Views, Boards

LEMMA ApplyEventTyped ==
    ASSUME NEW v \in Views, NEW e \in Events
    PROVE  ApplyEvent(v, e) \in Views /\ ApplyEvent(v, e).seq = e.seq
<1>1. CASE e.type = "cellSet"
  BY <1>1 DEF Events, Views, ApplyEvent
<1>2. CASE e.type = "checkVoteOpened"
  <2>1. OpenedVote(e) \in Votes
    BY <1>2 DEF Events, Votes, OpenedVote
  <2>2. OpenedVote(e) \in MaybeVotes
    BY <2>1 DEF MaybeVotes
  <2> QED BY <1>2, <2>2 DEF Events, Views, ApplyEvent
<1>3. CASE e.type = "checkVoteCast"
  <2>1. v.vote \in MaybeVotes /\ e.by \in Users
    BY <1>3 DEF Events, Views
  <2>2. Tallied(v.vote, e) \in MaybeVotes
    BY <2>1 DEF Tallied, MaybeVotes, Votes
  <2> QED BY <1>3, <2>2 DEF Events, Views, ApplyEvent
<1>4. CASE e.type = "checkVoteClosed"
  <2>1. NoVote \in MaybeVotes
    BY DEF MaybeVotes
  <2> QED BY <1>4, <2>1 DEF Events, Views, ApplyEvent
<1>5. CASE e.type = "puzzleChecked"
  BY <1>5 DEF Events, Views, ApplyEvent
<1>6. CASE e.type = "gameCompleted"
  BY <1>6 DEF Events, Views, ApplyEvent, Statuses
<1> QED BY <1>1, <1>2, <1>3, <1>4, <1>5, <1>6 DEF Events

LEMMA FrameKinds ==
    ASSUME NEW f \in Downward
    PROVE  \/ f \in Events /\ f.type \in EventTypes
           \/ f \in Snapshots /\ f.type \in SnapshotTypes
           \/ f \in Errors /\ f.type = "error"
           \/ f = FatalFrame("UNAUTHORIZED") /\ f.type = "error" /\ f.fatal
           \/ f = Closed /\ f.type = "closed"
<1>1. f \in Events => f.type \in EventTypes
  BY DEF Events, EventTypes
<1>2. f \in Snapshots => f.type \in SnapshotTypes
  BY DEF Snapshots
<1>3. f \in Errors => f.type = "error"
  BY DEF Errors
<1>4. FatalFrame("UNAUTHORIZED").type = "error" /\ FatalFrame("UNAUTHORIZED").fatal
  BY DEF FatalFrame
<1>5. Closed.type = "closed"
  BY DEF Closed
<1> QED BY <1>1, <1>2, <1>3, <1>4, <1>5 DEF Downward

\* Which part of the store takes in which frame.
LEMMA ReceivedIs ==
    ASSUME NEW s, NEW f
    PROVE  /\ f.type \in EventTypes => Received(s, f) = ApplySequenced(s, f)
           /\ f.type \in SnapshotTypes => Received(s, f) = ApplySnapshot(s, f)
           /\ f.type = "error" => Received(s, f) = ApplyError(s, f)
           /\ f = Closed => Received(s, f) = ConnectionLost(s)
<1>1. Closed.type = "closed"
  BY DEF Closed
<1> QED BY <1>1 DEF Received, EventTypes, SnapshotTypes

LEMMA SeqGrows == ASSUME NEW A, NEW B, A \subseteq B, NEW o \in Seq(A) PROVE o \in Seq(B)
  OBVIOUS

LEMMA ReceivedTyped ==
    ASSUME NEW s \in Stores, NEW f \in Downward
    PROVE  /\ Received(s, f) \in Stores
           /\ Replies(s, Received(s, f), f) \in Seq(Upward \ {Hello})
<1>1. Received(s, f) \in Stores
  <2>1. CASE f \in Events /\ f.type \in EventTypes
    <3>1. Received(s, f) = ApplySequenced(s, f)
      BY <2>1, ReceivedIs
    <3>2. ApplyEvent(s.view, f) \in Views
      BY <2>1, ApplyEventTyped DEF Stores
    <3>3. Forget(s.overlay, f.id) \in Seq(CellCommands)
      BY WithoutFacts DEF Forget, Stores
    <3>4. Apply(s, f) \in Stores
      BY <3>2, <3>3 DEF Apply, Stores
    <3>5. [s EXCEPT !.sync = "resyncing"] \in Stores
      BY DEF Stores, SyncStates
    <3> QED BY <3>1, <3>4, <3>5 DEF ApplySequenced
  <2>2. CASE f \in Snapshots /\ f.type \in SnapshotTypes
    <3>1. Received(s, f) = ApplySnapshot(s, f)
      BY <2>2, ReceivedIs
    <3>2. Without(s.overlay, f.recent) \in Seq(CellCommands)
      BY WithoutFacts DEF Stores
    <3> QED BY <2>2, <3>1, <3>2 DEF ApplySnapshot, Stores, Snapshots, SyncStates
  <2>3. CASE f.type = "error"
    <3>1. Received(s, f) = ApplyError(s, f)
      BY <2>3, ReceivedIs
    <3>2. Forget(s.overlay, f.id) \in Seq(CellCommands)
      BY WithoutFacts DEF Forget, Stores
    <3> QED BY <3>1, <3>2 DEF ApplyError, Stores, SyncStates
  <2>4. CASE f = Closed /\ f.type = "closed"
    <3>1. Received(s, f) = ConnectionLost(s)
      BY <2>4, ReceivedIs
    <3> QED BY <3>1 DEF ConnectionLost, Stores, SyncStates
  <2> QED BY <2>1, <2>2, <2>3, <2>4, FrameKinds
<1>2. Received(s, f).overlay \in Seq(CellCommands)
  BY <1>1 DEF Stores
<1>3. CellCommands \subseteq Upward \ {Hello}
  BY HelloIsApart DEF Upward, Sent
<1>4. RequestSync \in Upward \ {Hello}
  BY HelloIsApart DEF Upward
<1>5. << [type |-> "requestSync"] >> \in Seq(Upward \ {Hello})
  BY <1>4 DEF RequestSync
<1>6. Received(s, f).overlay \in Seq(Upward \ {Hello})
  BY <1>2, <1>3, SeqGrows
<1> QED BY <1>1, <1>5, <1>6 DEF Replies

LEMMA EmptyIsTyped ==
    /\ EmptyBoard \in Boards /\ GoodBoard(EmptyBoard) /\ NewStore \in Stores
<1>1. EmptyBoard \in Boards
  BY EngineAssumption DEF EmptyBoard, Boards, Statuses, MaybeVotes
<1>2. FilledCells(EmptyBoard) = {}
  BY DEF FilledCells, EmptyBoard
<1>3. GoodBoard(EmptyBoard)
  <2>1. FilledIsExact(EmptyBoard)
    BY <1>2, FS_EmptySet DEF FilledIsExact, EmptyBoard
  <2>2. ~ IsFull(EmptyBoard)
    <3>1. Cardinality(Cells) # 0
      BY EngineAssumption, FS_EmptySet
    <3> QED BY <3>1 DEF IsFull, EmptyBoard
  <2> QED BY <2>1, <2>2 DEF GoodBoard, MarksAreWrong, CompletedIffSolved, VoteOnFullGrid,
                            VoteIsUndecided, EmptyBoard
<1>4. NewStore \in Stores
  BY <1>1, ViewOfTyped DEF NewStore, Stores, SyncStates
<1> QED BY <1>1, <1>3, <1>4

LEMMA InitTyped == Init => TypeInv
<1> SUFFICES ASSUME Init PROVE TypeInv
  OBVIOUS
<1>1. GameTyped
  <2>1. board = EmptyBoard /\ applied = <<>> /\ saved = [board |-> EmptyBoard, applied |-> <<>>]
        /\ finishing = FALSE /\ answered = {}
    BY DEF Init
  <2>2. <<>> \in Seq(CommandIds)
    OBVIOUS
  <2>3. saved.board = EmptyBoard /\ saved \in [board : Boards, applied : Seq(CommandIds)]
    BY <2>1, <2>2, EmptyIsTyped
  <2> QED BY <2>1, <2>2, <2>3, EmptyIsTyped DEF GameTyped
<1>2. QueueTyped /\ SocketsTyped /\ DownTyped
  BY DEF Init, QueueTyped, SocketsTyped, DownTyped
<1>3. UpTyped
  BY DEF Init, UpTyped
<1>4. ClientTyped
  BY EmptyIsTyped, RoomAssumption DEF Init, ClientTyped
<1>5. Greeted
  BY DEF Init, Greeted
<1> QED BY <1>1, <1>2, <1>3, <1>4, <1>5 DEF TypeInv

\* Frames go up in order, hello not among them.
LEMMA SendTyped ==
    ASSUME TypeInv, NEW u \in Users, NEW frames \in Seq(Upward \ {Hello}), Send(u, frames)
    PROVE  /\ up' \in [Users -> Seq(Upward)]
           /\ \A v \in Users : \A i \in 1..Len(up'[v]) :
                up'[v][i] = Hello => i \in 1..Len(up[v]) /\ up[v][i] = Hello
<1>1. up \in [Users -> Seq(Upward)]
  BY DEF TypeInv, UpTyped
<1>2. CASE socket[u] = "closed"
  BY <1>1, <1>2 DEF Send
<1>3. CASE socket[u] # "closed"
  <2>1. up' = [up EXCEPT ![u] = up[u] \o frames]
    BY <1>3 DEF Send
  <2>2. up[u] \in Seq(Upward) /\ frames \in Seq(Upward)
    BY <1>1, SeqGrows
  <2>3. up[u] \o frames \in Seq(Upward)
    BY <2>2
  <2>4. \A i \in 1..Len(up[u] \o frames) : (up[u] \o frames)[i] = Hello =>
            i \in 1..Len(up[u]) /\ up[u][i] = Hello
    <3> SUFFICES ASSUME NEW i \in 1..Len(up[u] \o frames), (up[u] \o frames)[i] = Hello
                 PROVE  i \in 1..Len(up[u]) /\ up[u][i] = Hello
      OBVIOUS
    <3>1. CASE i \in 1..Len(up[u])
      BY <2>2, <3>1
    <3>2. CASE i \notin 1..Len(up[u])
      <4>1. /\ i - Len(up[u]) \in 1..Len(frames)
            /\ (up[u] \o frames)[i] = frames[i - Len(up[u])]
        BY <2>2, <3>2
      <4>2. frames[i - Len(up[u])] # Hello
        BY <4>1
      <4> QED BY <4>1, <4>2
    <3> QED BY <3>1, <3>2
  <2> QED BY <1>1, <2>1, <2>3, <2>4
<1> QED BY <1>2, <1>3

\* What is sent on an unchanged socket is no second hello.
LEMMA SendGreets ==
    ASSUME TypeInv, NEW u \in Users, NEW frames \in Seq(Upward \ {Hello}), Send(u, frames),
           UNCHANGED <<phase, socket>>
    PROVE  Greeted'
<1>1. \A v \in Users : \A i \in 1..Len(up'[v]) :
                up'[v][i] = Hello => i \in 1..Len(up[v]) /\ up[v][i] = Hello
  BY SendTyped
<1> QED BY <1>1 DEF TypeInv, Greeted

LEMMA TypeTyped == ASSUME TypeInv, NEW u \in Users, Type(u) PROVE TypeInv'
<1>1. PICK cmd \in CellCommands :
         client' = [client EXCEPT ![u].overlay = Append(@, cmd)] /\ Send(u, << cmd >>)
  BY DEF Type
<1>2. << cmd >> \in Seq(Upward \ {Hello})
  BY HelloIsApart DEF Upward, Sent
<1>3. UpTyped' /\ Greeted'
  BY <1>1, <1>2, SendTyped, SendGreets DEF Type, TypeInv, UpTyped
<1>4. ClientTyped'
  <2>1. client[u] \in Stores /\ Append(client[u].overlay, cmd) \in Seq(CellCommands)
    BY DEF TypeInv, ClientTyped, Stores
  <2>2. [client[u] EXCEPT !.overlay = Append(client[u].overlay, cmd)] \in Stores
    BY <2>1 DEF Stores
  <2>3. client' = [client EXCEPT ![u] = [client[u] EXCEPT !.overlay = Append(client[u].overlay, cmd)]]
    BY <1>1 DEF TypeInv, ClientTyped
  <2>4. client' \in [Users -> Stores]
    BY <2>2, <2>3 DEF TypeInv, ClientTyped
  <2>5. typed' \in [Users -> 0..MaxCommands]
    BY RoomAssumption DEF Type, TypeInv, ClientTyped
  <2> QED BY <2>4, <2>5 DEF Type, TypeInv, ClientTyped
<1> QED BY <1>3, <1>4 DEF Type, TypeInv, GameTyped, QueueTyped, SocketsTyped, DownTyped, game

\* The id of the next command a player sends.
LEMMA NextId ==
    ASSUME TypeInv, NEW u \in Users, typed[u] < MaxCommands
    PROVE  <<u, typed[u] + 1>> \in CommandIds
  BY RoomAssumption DEF TypeInv, ClientTyped

LEMMA VoteTyped == ASSUME TypeInv, NEW u \in Users, Vote(u) PROVE TypeInv'
<1> DEFINE id == <<u, typed[u] + 1>>
<1>1. id \in CommandIds
  BY NextId DEF Vote
<1>2. client[u].view.vote \in MaybeVotes
  BY DEF TypeInv, ClientTyped, Stores, Views
<1>3. PICK frames \in Seq(Upward \ {Hello}) : Send(u, frames)
  <2>1. [type |-> "checkPuzzle", id |-> id] \in Upward \ {Hello}
    BY <1>1, HelloIsApart DEF Upward, Sent
  <2>2. ASSUME client[u].view.vote # NoVote, NEW yes \in BOOLEAN
        PROVE  [type |-> "castCheckVote", id |-> id, approve |-> yes,
                voteSeq |-> client[u].view.vote.openedSeq] \in Upward \ {Hello}
    <3>1. client[u].view.vote.openedSeq \in Nat
      BY <1>2, <2>2 DEF MaybeVotes, Votes
    <3>2. [type |-> "castCheckVote", id |-> id, approve |-> yes,
                voteSeq |-> client[u].view.vote.openedSeq] \in Sent
      BY <1>1, <3>1 DEF Sent
    <3> QED BY <3>2, HelloIsApart DEF Upward
  <2> HIDE DEF id
  <2>3. CASE client[u].view.vote = NoVote
    BY <2>1, <2>3 DEF Vote, id
  <2>4. CASE client[u].view.vote # NoVote
    <3>1. PICK yes \in BOOLEAN :
             Send(u, << [type |-> "castCheckVote", id |-> id, approve |-> yes,
                         voteSeq |-> client[u].view.vote.openedSeq] >>)
      BY <2>4 DEF Vote, id
    <3>2. << [type |-> "castCheckVote", id |-> id, approve |-> yes,
              voteSeq |-> client[u].view.vote.openedSeq] >> \in Seq(Upward \ {Hello})
      BY <2>2, <2>4
    <3> QED BY <3>1, <3>2
  <2> QED BY <2>3, <2>4
<1>4. UpTyped' /\ Greeted'
  BY <1>3, SendTyped, SendGreets DEF Vote, TypeInv, UpTyped
<1>5. ClientTyped'
  BY RoomAssumption DEF Vote, TypeInv, ClientTyped
<1> QED BY <1>4, <1>5 DEF Vote, TypeInv, GameTyped, QueueTyped, SocketsTyped, DownTyped, game

LEMMA TailFacts ==
    ASSUME NEW A, NEW o \in Seq(A), o # <<>>
    PROVE  /\ Tail(o) \in Seq(A) /\ Len(Tail(o)) = Len(o) - 1 /\ Len(o) \in Nat \ {0}
           /\ Head(o) = o[1] /\ Head(o) \in A
           /\ \A i \in 1..Len(Tail(o)) : Tail(o)[i] = o[i + 1] /\ i + 1 \in 1..Len(o)
<1>1. Len(o) \in Nat /\ Len(o) # 0
  OBVIOUS
<1>2. 1 \in 1..Len(o)
  BY <1>1
<1> QED BY <1>1, <1>2

LEMMA AppendFacts ==
    ASSUME NEW A, NEW o \in Seq(A), NEW x \in A
    PROVE  /\ Append(o, x) \in Seq(A) /\ Len(Append(o, x)) = Len(o) + 1 /\ Len(o) \in Nat
           /\ \A i \in 1..Len(o) : Append(o, x)[i] = o[i]
           /\ Append(o, x)[Len(o) + 1] = x
  OBVIOUS

\* Reading the first frame a player sent.
LEMMA ReadsUp ==
    ASSUME TypeInv, NEW u \in Users, up[u] # <<>>, up' = [up EXCEPT ![u] = Tail(@)]
    PROVE  /\ up' \in [Users -> Seq(Upward)] /\ Head(up[u]) \in Upward
           /\ \A v \in Users : v # u => up'[v] = up[v]
           /\ Len(up'[u]) = Len(up[u]) - 1
           /\ \A i \in 1..Len(up'[u]) : up'[u][i] = up[u][i + 1] /\ i + 1 \in 1..Len(up[u])
<1>1. up \in [Users -> Seq(Upward)] /\ up[u] \in Seq(Upward)
  BY DEF TypeInv, UpTyped
<1>2. up'[u] = Tail(up[u]) /\ \A v \in Users : v # u => up'[v] = up[v]
  BY <1>1
<1>3. Tail(up[u]) \in Seq(Upward)
  BY <1>1, TailFacts
<1>4. up' \in [Users -> Seq(Upward)]
  BY <1>1, <1>3
<1> QED BY <1>1, <1>2, <1>4, TailFacts

\* A frame added to what is on its way to a player.
LEMMA TellTyped ==
    ASSUME TypeInv, NEW u \in Users, NEW f \in Downward, down' = [down EXCEPT ![u] = Append(@, f)]
    PROVE  DownTyped'
<1>1. down[u] \in Seq(Downward)
  BY DEF TypeInv, DownTyped
<1>2. Append(down[u], f) \in Seq(Downward)
  BY <1>1
<1> QED BY <1>2 DEF TypeInv, DownTyped

LEMMA SnapshotTyped ==
    ASSUME TypeInv, NEW type \in SnapshotTypes
    PROVE  SnapshotFrame(type) \in Snapshots /\ SnapshotFrame(type) \in Downward
<1>1. LastOf(applied, RecentLimit) \in Seq(CommandIds)
  BY RoomAssumption DEF LastOf, TypeInv, GameTyped
<1>2. Recent \subseteq CommandIds
  BY <1>1 DEF Recent, Range
<1> QED BY <1>2, ViewOfTyped DEF SnapshotFrame, Snapshots, Downward, TypeInv, GameTyped

\* What the server may still read of a socket.
LEMMA UnreadTyped ==
    ASSUME NEW u, NEW frames \in Seq(Upward)
    PROVE  Unread(u, frames) \in Seq(Sent \cup {Hello})
<1> DEFINE S == Range(frames) \ {RequestSync}
           commands == Only(frames, S)
           hellos == {i \in DOMAIN commands : commands[i] = Hello}
           first == CHOOSE i \in hellos : \A j \in hellos : i <= j
<1>1. commands \in Seq(Sent \cup {Hello})
  <2>1. Upward \cap S \subseteq Sent \cup {Hello}
    BY DEF Upward
  <2> HIDE DEF S
  <2>2. Only(frames, S) \in Seq(Upward \cap S)
    BY OnlyFacts
  <2> QED BY <2>1, <2>2, SeqGrows
<1> HIDE DEF commands
<1>2. hellos # {} => SubSeq(commands, first, Len(commands)) \in Seq(Sent \cup {Hello})
  <2> SUFFICES ASSUME hellos # {} PROVE SubSeq(commands, first, Len(commands)) \in Seq(Sent \cup {Hello})
    OBVIOUS
  <2>1. hellos \subseteq Nat /\ hellos \subseteq 1..Len(commands)
    BY <1>1
  <2>2. \E i \in hellos : \A j \in hellos : i <= j
    <3> HIDE DEF hellos
    <3> QED BY <2>1, SetHasMin
  <2>3. first \in hellos
    <3> HIDE DEF hellos
    <3> QED BY <2>2
  <2>4. first \in 1..Len(commands)
    BY <2>1, <2>3
  <2> HIDE DEF first
  <2> QED BY <1>1, <2>4
<1>3. Unread(u, frames) = IF phase[u] # "new" THEN commands
                          ELSE IF hellos = {} THEN <<>> ELSE SubSeq(commands, first, Len(commands))
  BY DEF Unread, commands
<1>4. <<>> \in Seq(Sent \cup {Hello})
  OBVIOUS
<1> HIDE DEF hellos, first
<1> QED BY <1>1, <1>2, <1>3, <1>4

LEMMA OpenTyped == ASSUME TypeInv, NEW u \in Users, Open(u) PROVE TypeInv'
<1>1. /\ socket' = [socket EXCEPT ![u] = "open"] /\ phase' = [phase EXCEPT ![u] = "new"]
      /\ socket[u] = "closed" /\ up' = up
  BY DEF Open
<1>2. SocketsTyped'
  BY <1>1 DEF Open, TypeInv, SocketsTyped
<1>3. Greeted'
  BY <1>1 DEF TypeInv, Greeted, SocketsTyped
<1> QED BY <1>2, <1>3 DEF Open, TypeInv, GameTyped, QueueTyped, UpTyped, DownTyped, ClientTyped, game

LEMMA SendHelloTyped == ASSUME TypeInv, NEW u \in Users, SendHello(u) PROVE TypeInv'
<1>1. /\ socket' = [socket EXCEPT ![u] = "greeted"] /\ phase' = phase
      /\ socket[u] = "open" /\ up' = [up EXCEPT ![u] = Append(up[u], Hello)]
  BY DEF SendHello
<1>2. SocketsTyped'
  BY <1>1 DEF SendHello, TypeInv, SocketsTyped
<1>3. up[u] \in Seq(Upward) /\ Hello \in Upward
  BY DEF TypeInv, UpTyped, Upward
<1>4. /\ up'[u] = Append(up[u], Hello) /\ up'[u] \in Seq(Upward)
      /\ \A v \in Users : v # u => up'[v] = up[v]
  BY <1>1, <1>3 DEF TypeInv, UpTyped
<1>5. UpTyped'
  BY <1>1, <1>4 DEF SendHello, TypeInv, UpTyped
<1>6. Greeted'
  <2>1. \A i \in 1..Len(up[u]) : up[u][i] # Hello
    BY <1>1 DEF TypeInv, Greeted
  <2>2. \A i \in 1..Len(up'[u]) : up'[u][i] = Hello => i = Len(up[u]) + 1
    BY <1>3, <1>4, <2>1
  <2>3. phase[u] \notin {"attached", "live"}
    BY <1>1 DEF TypeInv, Greeted
  <2>4. socket'[u] = "greeted" /\ \A v \in Users : v # u => socket'[v] = socket[v]
    BY <1>1 DEF TypeInv, SocketsTyped
  <2> QED BY <1>1, <1>4, <2>2, <2>3, <2>4 DEF TypeInv, Greeted
<1> QED BY <1>2, <1>5, <1>6 DEF SendHello, TypeInv, GameTyped, QueueTyped, DownTyped, ClientTyped, game

LEMMA ReceiveTyped == ASSUME TypeInv, Linked, NEW u \in Users, Receive(u) PROVE TypeInv'
<1> DEFINE f == Head(down[u])
           after == Received(client[u], f)
<1>1. down[u] \in Seq(Downward) /\ down[u] # <<>>
  BY DEF Receive, TypeInv, DownTyped
<1>2. f \in Downward /\ Tail(down[u]) \in Seq(Downward)
  BY <1>1, TailFacts
<1>3. after \in Stores /\ Replies(client[u], after, f) \in Seq(Upward \ {Hello})
  <2>1. client[u] \in Stores
    BY DEF TypeInv, ClientTyped
  <2> QED BY <1>2, <2>1, ReceivedTyped
<1>4. client' = [client EXCEPT ![u] = after]
  BY DEF Receive
<1>5. ClientTyped'
  BY <1>3, <1>4 DEF Receive, TypeInv, ClientTyped
<1>6. SocketsTyped' /\ UpTyped' /\ DownTyped' /\ Greeted'
  <2>1. CASE f = Closed
    <3>1. /\ socket' = [socket EXCEPT ![u] = "closed"]
          /\ up' = [up EXCEPT ![u] = <<>>] /\ down' = [down EXCEPT ![u] = <<>>]
          /\ UNCHANGED <<phase, ghosts, late>>
      BY <2>1 DEF Receive
    <3>2. SocketsTyped' /\ UpTyped' /\ DownTyped'
      BY <3>1 DEF TypeInv, SocketsTyped, UpTyped, DownTyped
    <3>3. up'[u] = <<>> /\ \A v \in Users : v # u => up'[v] = up[v] /\ socket'[v] = socket[v]
      BY <3>1 DEF TypeInv, UpTyped, SocketsTyped
    <3>4. phase[u] \notin {"attached", "live"}
      <4>1. down[u][1] = Closed /\ 1 \in 1..Len(down[u])
        BY <1>1, <2>1, TailFacts
      <4> QED BY <4>1 DEF Linked, IsOpen
    <3> QED BY <3>1, <3>2, <3>3, <3>4 DEF TypeInv, Greeted
  <2>2. CASE f # Closed
    <3>1. /\ Send(u, Replies(client[u], after, f)) /\ down' = [down EXCEPT ![u] = Tail(@)]
          /\ UNCHANGED <<phase, socket, ghosts, late>>
      BY <2>2 DEF Receive
    <3>2. UpTyped' /\ Greeted'
      <4> HIDE DEF f, after
      <4> QED BY <1>3, <3>1, SendTyped, SendGreets DEF TypeInv, UpTyped
    <3>3. DownTyped'
      BY <1>2, <3>1 DEF TypeInv, DownTyped
    <3> QED BY <3>1, <3>2, <3>3 DEF TypeInv, SocketsTyped
  <2> QED BY <2>1, <2>2
<1> QED BY <1>5, <1>6 DEF Receive, TypeInv, GameTyped, QueueTyped, game

\* One fault more of some kind.
LEMMA CountTyped ==
    ASSUME ClientTyped, NEW kind \in {"drops", "lost", "crashes", "reads"}, NEW max, Count(kind, max)
    PROVE  /\ faults' \in [{"drops", "lost", "crashes", "reads"} -> Nat]
           /\ faults'[kind] = faults[kind] + 1
           /\ \A k \in {"drops", "lost", "crashes", "reads"} : k # kind => faults'[k] = faults[k]
  BY DEF ClientTyped, Count

LEMMA LoseFrameTyped == ASSUME TypeInv, NEW u \in Users, LoseFrame(u) PROVE TypeInv'
<1>1. down[u] \in Seq(Downward) /\ down[u] # <<>> /\ down' = [down EXCEPT ![u] = Tail(@)]
  BY DEF LoseFrame, TypeInv, DownTyped
<1>2. Tail(down[u]) \in Seq(Downward)
  BY <1>1, TailFacts
<1>3. DownTyped'
  BY <1>1, <1>2 DEF TypeInv, DownTyped
<1>4. ClientTyped'
  BY CountTyped DEF LoseFrame, TypeInv, ClientTyped
<1> QED BY <1>3, <1>4 DEF LoseFrame, TypeInv, GameTyped, QueueTyped, SocketsTyped, UpTyped, Greeted, game

LEMMA DropTyped == ASSUME TypeInv, NEW u \in Users, Drop(u) PROVE TypeInv'
<1>1. ClientTyped'
  <2>1. client[u] \in Stores
    BY DEF TypeInv, ClientTyped
  <2>2. ConnectionLost(client[u]) \in Stores
    BY <2>1 DEF ConnectionLost, Stores, SyncStates
  <2>3. client' = [client EXCEPT ![u] = ConnectionLost(client[u])] /\ typed' = typed
    BY DEF Drop
  <2>4. client' \in [Users -> Stores]
    BY <2>2, <2>3 DEF TypeInv, ClientTyped
  <2>5. faults' \in [{"drops", "lost", "crashes", "reads"} -> Nat]
    BY CountTyped DEF Drop, TypeInv
  <2> QED BY <2>3, <2>4, <2>5 DEF TypeInv, ClientTyped
<1>2. SocketsTyped' /\ DownTyped' /\ GameTyped'
  BY DEF Drop, TypeInv, SocketsTyped, DownTyped, GameTyped, game
<1>3. UpTyped'
  <2>1. up[u] \in Seq(Upward) /\ late[u] \in Seq(Sent \cup {Hello})
    BY DEF TypeInv, UpTyped
  <2>2. Unread(u, up[u]) \in Seq(Sent \cup {Hello})
    BY <2>1, UnreadTyped
  <2>3. late[u] \o Unread(u, up[u]) \in Seq(Sent \cup {Hello})
    BY <2>1, <2>2
  <2> QED BY <2>3 DEF Drop, TypeInv, UpTyped
<1>4. Greeted'
  <2>1. up'[u] = <<>> /\ phase'[u] = "none"
    BY DEF Drop, TypeInv, UpTyped, SocketsTyped
  <2>2. \A v \in Users : v # u => up'[v] = up[v] /\ socket'[v] = socket[v] /\ phase'[v] = phase[v]
    BY DEF Drop, TypeInv, UpTyped, SocketsTyped
  <2> QED BY <2>1, <2>2 DEF TypeInv, Greeted
<1>5. QueueTyped'
  <2> DEFINE Tasks == [by : Users, here : BOOLEAN, msg : Sent]
             next(i) == [queue[i] EXCEPT !.here = queue[i].here /\ queue[i].by # u]
  <2>1. queue \in Seq(Tasks) /\ DOMAIN queue = 1..Len(queue) /\ Len(queue) \in Nat
    BY DEF TypeInv, QueueTyped
  <2>2. ASSUME NEW i \in 1..Len(queue) PROVE next(i) \in Tasks
    <3>1. queue[i] \in Tasks
      <4> HIDE DEF Tasks
      <4> QED BY <2>1
    <3>2. \A yes \in BOOLEAN : [queue[i] EXCEPT !.here = yes] \in Tasks
      BY <3>1
    <3>3. (queue[i].here /\ queue[i].by # u) \in BOOLEAN
      OBVIOUS
    <3> HIDE DEF Tasks
    <3> QED BY <3>2, <3>3
  <2>3. queue' = [i \in 1..Len(queue) |-> next(i)]
    BY <2>1 DEF Drop
  <2> HIDE DEF next, Tasks
  <2>4. queue' \in Seq(Tasks)
    BY <2>1, <2>2, <2>3
  <2> QED BY <2>4 DEF QueueTyped, Tasks
<1> QED BY <1>1, <1>2, <1>3, <1>4, <1>5 DEF TypeInv

LEMMA HandshakeTyped == ASSUME TypeInv, NEW u \in Users, Handshake(u) PROVE TypeInv'
<1>1. up[u] \in Seq(Upward) /\ up[u] # <<>> /\ phase[u] = "new"
  BY DEF Handshake, TypeInv, UpTyped
<1>2. GameTyped' /\ QueueTyped' /\ ClientTyped'
  BY DEF Handshake, TypeInv, GameTyped, QueueTyped, ClientTyped, game
<1>3. CASE Head(up[u]) = Hello
  <2>1. /\ phase' = [phase EXCEPT ![u] = "attached"] /\ up' = [up EXCEPT ![u] = Tail(@)]
        /\ UNCHANGED <<down, late, socket, ghosts>>
    BY <1>3 DEF Handshake
  <2>2. SocketsTyped' /\ DownTyped'
    BY <2>1 DEF TypeInv, SocketsTyped, DownTyped
  <2>3. /\ up' \in [Users -> Seq(Upward)]
        /\ \A v \in Users : v # u => up'[v] = up[v]
        /\ Len(up'[u]) = Len(up[u]) - 1
        /\ \A i \in 1..Len(up'[u]) : up'[u][i] = up[u][i + 1] /\ i + 1 \in 1..Len(up[u])
    BY <1>1, <2>1, ReadsUp
  <2>4. UpTyped'
    BY <2>1, <2>3 DEF TypeInv, UpTyped
  <2>5. up[u][1] = Hello /\ 1 \in 1..Len(up[u])
    BY <1>1, <1>3, TailFacts
  <2>6. \A i \in 1..Len(up[u]) : up[u][i] = Hello => i = 1
    BY <2>5 DEF TypeInv, Greeted
  <2>7. \A i \in 1..Len(up'[u]) : up'[u][i] # Hello
    <3> SUFFICES ASSUME NEW i \in 1..Len(up'[u]), up'[u][i] = Hello PROVE FALSE
      OBVIOUS
    <3>1. i + 1 = 1
      BY <2>3, <2>6
    <3> QED BY <3>1
  <2>8. socket[u] = "greeted"
    BY <2>5 DEF TypeInv, Greeted
  <2>9. \A v \in Users : v # u => phase'[v] = phase[v]
    BY <2>1 DEF TypeInv, SocketsTyped
  <2>10. Greeted'
    BY <2>1, <2>3, <2>7, <2>8, <2>9 DEF TypeInv, Greeted
  <2> QED BY <1>2, <2>2, <2>4, <2>10 DEF TypeInv
<1>4. CASE Head(up[u]) # Hello
  <2>1. /\ phase' = [phase EXCEPT ![u] = "none"] /\ up' = [up EXCEPT ![u] = <<>>]
        /\ down' = [down EXCEPT ![u] = @ \o << FatalFrame("UNAUTHORIZED"), Closed >>]
        /\ late' = [late EXCEPT ![u] = @ \o Unread(u, Tail(up[u]))]
        /\ UNCHANGED <<socket, ghosts>>
    BY <1>4 DEF Handshake
  <2>2. SocketsTyped'
    BY <2>1 DEF TypeInv, SocketsTyped
  <2>3. DownTyped'
    <3>1. << FatalFrame("UNAUTHORIZED"), Closed >> \in Seq(Downward) /\ down[u] \in Seq(Downward)
      BY DEF Downward, TypeInv, DownTyped
    <3>2. down[u] \o << FatalFrame("UNAUTHORIZED"), Closed >> \in Seq(Downward)
      BY <3>1
    <3> QED BY <2>1, <3>2 DEF TypeInv, DownTyped
  <2>4. UpTyped'
    <3>1. Tail(up[u]) \in Seq(Upward)
      BY <1>1, TailFacts
    <3>2. Unread(u, Tail(up[u])) \in Seq(Sent \cup {Hello}) /\ late[u] \in Seq(Sent \cup {Hello})
      BY <3>1, UnreadTyped DEF TypeInv, UpTyped
    <3>3. late[u] \o Unread(u, Tail(up[u])) \in Seq(Sent \cup {Hello})
      BY <3>2
    <3> QED BY <2>1, <3>3 DEF TypeInv, UpTyped
  <2>5. Greeted'
    <3>1. up'[u] = <<>> /\ phase'[u] = "none"
      BY <2>1 DEF TypeInv, UpTyped, SocketsTyped
    <3>2. \A v \in Users : v # u => up'[v] = up[v] /\ socket'[v] = socket[v] /\ phase'[v] = phase[v]
      BY <2>1 DEF TypeInv, UpTyped, SocketsTyped
    <3> QED BY <3>1, <3>2 DEF TypeInv, Greeted
  <2> QED BY <1>2, <2>2, <2>3, <2>4, <2>5 DEF TypeInv
<1> QED BY <1>3, <1>4

LEMMA WelcomeTyped == ASSUME TypeInv, NEW u \in Users, Welcome(u) PROVE TypeInv'
<1>1. DownTyped'
  BY SnapshotTyped, TellTyped DEF Welcome, SnapshotTypes
<1>2. phase' = [phase EXCEPT ![u] = "live"] /\ phase[u] = "attached"
  BY DEF Welcome
<1>3. SocketsTyped' /\ Greeted'
  BY <1>2 DEF Welcome, TypeInv, SocketsTyped, Greeted
<1> QED BY <1>1, <1>3 DEF Welcome, TypeInv, GameTyped, QueueTyped, UpTyped, ClientTyped, game

\* Once attached, reading a frame leaves no hello behind.
LEMMA ReadsGreets ==
    ASSUME TypeInv, NEW u \in Users, up[u] # <<>>, up' = [up EXCEPT ![u] = Tail(@)],
           UNCHANGED socket, phase[u] = "live", UNCHANGED phase
    PROVE  Greeted'
<1>1. /\ \A v \in Users : v # u => up'[v] = up[v]
      /\ \A i \in 1..Len(up'[u]) : up'[u][i] = up[u][i + 1] /\ i + 1 \in 1..Len(up[u])
  BY ReadsUp
<1>2. \A i \in 1..Len(up[u]) : up[u][i] # Hello
  BY DEF TypeInv, Greeted
<1>3. \A i \in 1..Len(up'[u]) : up'[u][i] # Hello
  BY <1>1, <1>2
<1> QED BY <1>1, <1>3 DEF TypeInv, Greeted

\* A task for the mailbox.
LEMMA PostTyped ==
    ASSUME TypeInv, NEW u \in Users, NEW here \in BOOLEAN, NEW m \in Sent,
           queue' = Append(queue, [by |-> u, here |-> here, msg |-> m])
    PROVE  QueueTyped'
<1>1. [by |-> u, here |-> here, msg |-> m] \in [by : Users, here : BOOLEAN, msg : Sent]
  OBVIOUS
<1> QED BY <1>1 DEF TypeInv, QueueTyped

LEMMA HandleFrameTyped == ASSUME TypeInv, NEW u \in Users, HandleFrame(u) PROVE TypeInv'
<1>1. /\ phase[u] = "live" /\ up[u] # <<>> /\ up' = [up EXCEPT ![u] = Tail(@)]
      /\ UNCHANGED <<game, phase, socket, late, ghosts, client, typed, faults>>
  BY DEF HandleFrame
<1>2. up' \in [Users -> Seq(Upward)] /\ Head(up[u]) \in Upward
  BY <1>1, ReadsUp
<1>3. UpTyped' /\ Greeted'
  BY <1>1, <1>2, ReadsGreets DEF TypeInv, UpTyped
<1>4. DownTyped' /\ QueueTyped'
  <2>1. CASE Head(up[u]) = RequestSync
    <3>1. DownTyped'
      BY <2>1, SnapshotTyped, TellTyped DEF HandleFrame, SnapshotTypes
    <3> QED BY <2>1, <3>1 DEF HandleFrame, TypeInv, QueueTyped
  <2>2. CASE Head(up[u]) # RequestSync
    <3>1. Head(up[u]) # Hello
      <4>1. 1 \in 1..Len(up[u]) /\ Head(up[u]) = up[u][1]
        BY <1>1, TailFacts DEF TypeInv, UpTyped
      <4> QED BY <1>1, <4>1 DEF TypeInv, Greeted
    <3>2. Head(up[u]) \in Sent
      BY <1>2, <2>2, <3>1 DEF Upward
    <3>3. QueueTyped'
      BY <2>2, <3>2, PostTyped DEF HandleFrame
    <3> QED BY <2>2, <3>3 DEF HandleFrame, TypeInv, DownTyped
  <2> QED BY <2>1, <2>2
<1> QED BY <1>1, <1>3, <1>4 DEF TypeInv, GameTyped, SocketsTyped, ClientTyped, game

LEMMA MembersUnreadableTyped ==
    ASSUME TypeInv, NEW u \in Users, MembersUnreadable(u) PROVE TypeInv'
<1>1. ClientTyped'
  BY CountTyped DEF MembersUnreadable, TypeInv, ClientTyped
<1>2. UpTyped' /\ Greeted' /\ SocketsTyped'
  <2>1. CASE phase[u] = "attached" /\ phase' = [phase EXCEPT ![u] = "live"] /\ UNCHANGED up
    BY <2>1 DEF MembersUnreadable, TypeInv, UpTyped, Greeted, SocketsTyped
  <2>2. CASE /\ phase[u] = "live" /\ up[u] # <<>> /\ Head(up[u]) = RequestSync
             /\ up' = [up EXCEPT ![u] = Tail(@)] /\ UNCHANGED phase
    <3>1. up' \in [Users -> Seq(Upward)]
      BY <2>2, ReadsUp
    <3>2. Greeted'
      BY <2>2, ReadsGreets DEF MembersUnreadable, TypeInv
    <3> QED BY <2>2, <3>1, <3>2 DEF MembersUnreadable, TypeInv, UpTyped, SocketsTyped
  <2> QED BY <2>1, <2>2 DEF MembersUnreadable
<1> QED BY <1>1, <1>2 DEF MembersUnreadable, TypeInv, GameTyped, QueueTyped, DownTyped, game

LEMMA HandleLateTyped == ASSUME TypeInv, NEW u \in Users, HandleLate(u) PROVE TypeInv'
<1>1. /\ late[u] # <<>> /\ late' = [late EXCEPT ![u] = Tail(@)]
      /\ UNCHANGED <<game, phase, socket, up, down, client, typed, faults>>
  BY DEF HandleLate
<1>2. Tail(late[u]) \in Seq(Sent \cup {Hello}) /\ Head(late[u]) \in Sent \cup {Hello}
  BY <1>1, TailFacts DEF TypeInv, UpTyped
<1>3. UpTyped'
  BY <1>1, <1>2 DEF TypeInv, UpTyped
<1>4. QueueTyped' /\ SocketsTyped'
  <2>1. CASE Head(late[u]) = Hello
    BY <1>1, <2>1 DEF HandleLate, TypeInv, QueueTyped, SocketsTyped
  <2>2. CASE Head(late[u]) # Hello
    <3>1. Head(late[u]) \in Sent
      BY <1>2, <2>2
    <3>2. QueueTyped'
      BY <2>2, <3>1, PostTyped DEF HandleLate
    <3> QED BY <1>1, <2>2, <3>2 DEF HandleLate, TypeInv, SocketsTyped
  <2> QED BY <2>1, <2>2
<1> QED BY <1>1, <1>3, <1>4 DEF TypeInv, GameTyped, DownTyped, ClientTyped, Greeted, game

-----------------------------------------------------------------------------
(* What one call of the engine tells the players.                          *)

EventStep(b, e, d) ==
    ActStep(b, e, d) \/ CloseStep(b, e, d) \/ CheckStep(b, e, d) \/ EndStep(b, e, d)

\* One event takes a player's view of the board before to that of the board after.
LEMMA StepIsApplied ==
    ASSUME NEW b, NEW e, NEW d, EventStep(b, e, d)
    PROVE  /\ IsNext(b, e, d) /\ ApplyEvent(ViewOf(b), e) = ViewOf(d)
           /\ (d.status = "completed" <=> e.type = "gameCompleted")
           /\ e.type = "gameCompleted" => e = GameCompleted(d.seq)
<1>1. IsNext(b, e, d)
  BY DEF EventStep, ActStep, CellStep, OpenStep, CastStep, CloseStep, CheckStep, EndStep
<1>2. /\ b \in Boards /\ d \in Boards /\ e \in Events
      /\ e.seq = b.seq + 1 /\ d.seq = e.seq /\ b.status = "ongoing"
  BY <1>1 DEF IsNext
<1>3. d.status = "completed" <=> e.type = "gameCompleted"
  BY <1>2 DEF EventStep, ActStep, CellStep, OpenStep, CastStep, CloseStep, CheckStep, EndStep
<1>4. e.type = "gameCompleted" => e = GameCompleted(d.seq)
  <2> SUFFICES ASSUME e.type = "gameCompleted" PROVE e = GameCompleted(d.seq)
    OBVIOUS
  <2>1. e \in [type : {"gameCompleted"}, seq : Nat]
    BY <1>2 DEF Events
  <2> QED BY <1>2, <2>1 DEF GameCompleted
<1> DEFINE v == ViewOf(b)
           w == ViewOf(d)
<1>5. /\ v = [seq |-> b.seq, status |-> b.status, cells |-> b.cells, marks |-> b.marks,
              checks |-> b.checks, vote |-> b.vote]
      /\ w = [seq |-> d.seq, status |-> d.status, cells |-> d.cells, marks |-> d.marks,
              checks |-> d.checks, vote |-> d.vote]
  BY DEF ViewOf
<1> HIDE DEF v, w
<1>6. CASE CellStep(b, e, d)
  <2>1. /\ e.type = "cellSet" /\ d.cells = [b.cells EXCEPT ![e.cell] = e.value]
        /\ d.marks = IF e.value # b.cells[e.cell] THEN b.marks \ {e.cell} ELSE b.marks
        /\ d.checks = b.checks /\ d.vote = b.vote /\ d.status = b.status
    BY <1>6 DEF CellStep
  <2>2. ApplyEvent(v, e) =
          [v EXCEPT !.seq = e.seq, !.cells[e.cell] = e.value,
                    !.marks = IF e.value # v.cells[e.cell] THEN @ \ {e.cell} ELSE @]
    BY <2>1 DEF ApplyEvent
  <2>3. ApplyEvent(v, e) = w
    BY <1>2, <1>5, <2>1, <2>2
  <2> QED BY <1>1, <1>3, <1>4, <2>3 DEF v, w
<1>7. CASE OpenStep(b, e, d)
  <2>1. OpenedVote(e) = d.vote
    BY <1>7 DEF OpenStep, OpenedVote, Votes
  <2>2. ApplyEvent(v, e) = [v EXCEPT !.seq = e.seq, !.vote = OpenedVote(e)]
    BY <1>7 DEF ApplyEvent, OpenStep
  <2>3. ApplyEvent(v, e) = w
    BY <1>2, <1>5, <1>7, <2>1, <2>2 DEF OpenStep, SameLetters
  <2> QED BY <1>1, <1>3, <1>4, <2>3 DEF v, w
<1>8. CASE CastStep(b, e, d)
  <2>1. Tallied(b.vote, e) = d.vote
    <3>1. /\ b.vote # NoVote /\ b.vote.openedSeq = e.voteSeq
          /\ e.by \notin b.vote.approvals \cup b.vote.rejections
          /\ b.vote \in Votes /\ d.vote \in Votes
      BY <1>8, NoVoteAssumption DEF CastStep
    <3>1a. \A S : S \cup {} = S
      OBVIOUS
    <3>2. CASE e.approve
      <4>1. Tallied(b.vote, e) = [b.vote EXCEPT !.approvals = @ \cup {e.by}]
        BY <3>1, <3>2 DEF Tallied
      <4>2. d.vote.approvals = b.vote.approvals \cup {e.by} /\ d.vote.rejections = b.vote.rejections
        BY <1>8, <3>2 DEF CastStep
      <4> QED BY <1>8, <3>1, <4>1, <4>2 DEF CastStep, Votes
    <3>3. CASE ~ e.approve
      <4>1. Tallied(b.vote, e) = [b.vote EXCEPT !.rejections = @ \cup {e.by}]
        BY <3>1, <3>3 DEF Tallied
      <4>2. d.vote.approvals = b.vote.approvals /\ d.vote.rejections = b.vote.rejections \cup {e.by}
        BY <1>8, <3>3 DEF CastStep
      <4> QED BY <1>8, <3>1, <4>1, <4>2 DEF CastStep, Votes
    <3> QED BY <3>2, <3>3
  <2>2. ApplyEvent(v, e) = [v EXCEPT !.seq = e.seq, !.vote = Tallied(v.vote, e)]
    BY <1>8 DEF ApplyEvent, CastStep
  <2>3. ApplyEvent(v, e) = w
    BY <1>2, <1>5, <1>8, <2>1, <2>2 DEF CastStep, SameLetters
  <2> QED BY <1>1, <1>3, <1>4, <2>3 DEF v, w
<1>9. CASE CloseStep(b, e, d)
  <2>1. ApplyEvent(v, e) = [v EXCEPT !.seq = e.seq, !.vote = NoVote]
    BY <1>9 DEF ApplyEvent, CloseStep
  <2>2. ApplyEvent(v, e) = w
    BY <1>2, <1>5, <1>9, <2>1 DEF CloseStep, SameLetters
  <2> QED BY <1>1, <1>3, <1>4, <2>2 DEF v, w
<1>10. CASE CheckStep(b, e, d)
  <2>1. ApplyEvent(v, e) = [v EXCEPT !.seq = e.seq, !.marks = e.wrongCells, !.checks = e.checkCount]
    BY <1>10 DEF ApplyEvent, CheckStep
  <2>2. ApplyEvent(v, e) = w
    BY <1>2, <1>5, <1>10, <2>1 DEF CheckStep
  <2> QED BY <1>1, <1>3, <1>4, <2>2 DEF v, w
<1>11. CASE EndStep(b, e, d)
  <2>1. ApplyEvent(v, e) = [v EXCEPT !.seq = e.seq, !.status = "completed"]
    BY <1>11 DEF ApplyEvent, EndStep
  <2>2. ApplyEvent(v, e) = w
    BY <1>2, <1>5, <1>11, <2>1 DEF EndStep, SameLetters
  <2> QED BY <1>1, <1>3, <1>4, <2>2 DEF v, w
<1> QED BY <1>6, <1>7, <1>8, <1>9, <1>10, <1>11 DEF EventStep, ActStep

\* The engine's call as at most three events, each told by its step.
LEMMA PathShape ==
    ASSUME NEW b, NEW es, NEW d, Path(b, es, d)
    PROVE  \/ es = <<>> /\ d = b
           \/ \E e : es = <<e>> /\ EventStep(b, e, d)
           \/ \E e, m, f : es = <<e, f>> /\ EventStep(b, e, m) /\ EventStep(m, f, d)
                           /\ f.type # "cellSet"
           \/ \E e, m, f, n, g : es = <<e, f, g>> /\ EventStep(b, e, m) /\ EventStep(m, f, n)
                           /\ EventStep(n, g, d) /\ f.type # "cellSet" /\ g.type # "cellSet"
<1>1. CASE es = <<>> /\ d = b
  BY <1>1
<1>2. ASSUME NEW c, NEW ys, ClosePath(c, ys, d)
      PROVE  \/ \E e : ys = <<e>> /\ EventStep(c, e, d) /\ e.type # "cellSet"
             \/ \E e, m, f : ys = <<e, f>> /\ EventStep(c, e, m) /\ EventStep(m, f, d)
                           /\ e.type # "cellSet" /\ f.type # "cellSet"
  BY <1>2 DEF ClosePath, PassSteps, EventStep, CloseStep, CheckStep
<1>3. CASE ClosePath(b, es, d)
  <2>1. CASE \E e : es = <<e>> /\ EventStep(b, e, d) /\ e.type # "cellSet"
    BY <2>1
  <2>2. CASE \E e, m, f : es = <<e, f>> /\ EventStep(b, e, m) /\ EventStep(m, f, d)
                           /\ e.type # "cellSet" /\ f.type # "cellSet"
    BY <2>2
  <2> QED BY <1>2, <1>3, <2>1, <2>2
<1>4. CASE \E e : es = <<e>> /\ ActStep(b, e, d)
  BY <1>4 DEF EventStep
<1>5. CASE \E e, m, ys : es = <<e>> \o ys /\ ActStep(b, e, m) /\ ClosePath(m, ys, d)
  <2>1. PICK e, m, ys : es = <<e>> \o ys /\ ActStep(b, e, m) /\ ClosePath(m, ys, d)
    BY <1>5
  <2>2. EventStep(b, e, m)
    BY <2>1 DEF EventStep
  <2>3. CASE \E f : ys = <<f>> /\ EventStep(m, f, d) /\ f.type # "cellSet"
    <3>1. PICK f : ys = <<f>> /\ EventStep(m, f, d) /\ f.type # "cellSet"
      BY <2>3
    <3>2. es = <<e, f>>
      <4>1. e \in {e, f} /\ f \in {e, f}
        OBVIOUS
      <4>2. <<e>> \o <<f>> = <<e, f>>
        BY <4>1, EventsInARow
      <4> QED BY <2>1, <3>1, <4>2
    <3> QED BY <2>2, <3>1, <3>2
  <2>4. CASE \E f, n, g : ys = <<f, g>> /\ EventStep(m, f, n) /\ EventStep(n, g, d)
                           /\ f.type # "cellSet" /\ g.type # "cellSet"
    <3>1. PICK f, n, g : ys = <<f, g>> /\ EventStep(m, f, n) /\ EventStep(n, g, d)
                           /\ f.type # "cellSet" /\ g.type # "cellSet"
      BY <2>4
    <3>2. es = <<e, f, g>>
      <4>1. e \in {e, f, g} /\ f \in {e, f, g} /\ g \in {e, f, g}
        OBVIOUS
      <4>2. <<e>> \o <<f, g>> = <<e, f, g>>
        BY <4>1, EventsInARow
      <4> QED BY <2>1, <3>1, <4>2
    <3> QED BY <2>2, <3>1, <3>2
  <2>5. ClosePath(m, ys, d)
    BY <2>1
  <2> QED BY <1>2, <2>3, <2>4, <2>5
<1>6. CASE \E e, m, f : es = <<e, f>> /\ ActStep(b, e, m) /\ EndStep(m, f, d)
  BY <1>6 DEF EventStep, EndStep
<1>7. CASE \E e, m, f, n, g : /\ es = <<e, f, g>> /\ ActStep(b, e, m)
                              /\ CloseStep(m, f, n) /\ EndStep(n, g, d)
  BY <1>7 DEF EventStep, CloseStep, EndStep
<1> QED BY <1>1, <1>3, <1>4, <1>5, <1>6, <1>7 DEF Path

\* The views h from seq b.seq on: each event of es takes the view before it to the
\* view it leaves, of an unfinished game but for the last.
Shows(h, b, es, d) ==
    /\ h \in [Nat -> Views] /\ h[b.seq] = ViewOf(b) /\ h[d.seq] = ViewOf(d)
    /\ \A i \in 1..Len(es) :
         /\ h[es[i].seq] = ApplyEvent(h[es[i].seq - 1], es[i])
         /\ h[es[i].seq - 1].seq = es[i].seq - 1 /\ h[es[i].seq - 1].status = "ongoing"

\* What the players can make of the events es that took b to d.
Tells(b, es, d) ==
    /\ b \in Boards /\ d \in Boards /\ es \in Seq(Events) /\ Numbered(b.seq, es, d.seq)
    /\ \E h : Shows(h, b, es, d)
    /\ \A i \in 1..Len(es) : i # 1 => es[i].type # "cellSet"
    /\ \A i \in 1..Len(es) : es[i].type = "gameCompleted" => i = Len(es) /\ d.status = "completed"
    /\ b.status = "ongoing" /\ d.status = "completed" =>
         es # <<>> /\ es[Len(es)] = GameCompleted(d.seq)

LEMMA PathTells ==
    ASSUME NEW b \in Boards, NEW es, NEW d, Path(b, es, d)
    PROVE  Tells(b, es, d)
<1>1. CASE es = <<>> /\ d = b
  <2>1. b.seq \in Nat /\ ViewOf(b) \in Views
    BY ViewOfTyped DEF Boards
  <2> DEFINE h == [x \in Nat |-> ViewOf(b)]
  <2>2. h \in [Nat -> Views] /\ h[b.seq] = ViewOf(b) /\ Len(es) = 0
    BY <1>1, <2>1
  <2>3. Shows(h, b, es, d)
    BY <1>1, <2>2 DEF Shows
  <2>4. Numbered(b.seq, es, d.seq) /\ es \in Seq(Events)
    BY <1>1, <2>1 DEF Numbered
  <2> QED BY <1>1, <2>3, <2>4 DEF Tells
<1>2. CASE \E e : es = <<e>> /\ EventStep(b, e, d)
  <2>1. PICK e : es = <<e>> /\ EventStep(b, e, d)
    BY <1>2
  <2>2. /\ IsNext(b, e, d) /\ ApplyEvent(ViewOf(b), e) = ViewOf(d)
        /\ (d.status = "completed" <=> e.type = "gameCompleted")
        /\ e.type = "gameCompleted" => e = GameCompleted(d.seq)
    BY <2>1, StepIsApplied
  <2>3. /\ d \in Boards /\ e \in Events /\ e.seq = b.seq + 1 /\ d.seq = e.seq
        /\ b.status = "ongoing" /\ b.seq \in Nat /\ d.seq \in Nat
    BY <2>2 DEF IsNext, Boards
  <2>4. Len(es) = 1 /\ es[1] = e /\ es \in Seq(Events) /\ 1..1 = {1}
    BY <2>1, <2>3
  <2> DEFINE h == [x \in Nat |-> IF x = b.seq THEN ViewOf(b) ELSE ViewOf(d)]
  <2>6. h \in [Nat -> Views]
    BY <2>3, ViewOfTyped
  <2>7. h[b.seq] = ViewOf(b) /\ h[d.seq] = ViewOf(d) /\ e.seq - 1 = b.seq
    BY <2>3, <2>6
  <2> HIDE DEF h
  <2>8. ViewOf(b).seq = b.seq /\ ViewOf(b).status = b.status
    BY DEF ViewOf
  <2>9. Shows(h, b, es, d)
    BY <2>2, <2>3, <2>4, <2>6, <2>7, <2>8 DEF Shows
  <2>10. Numbered(b.seq, es, d.seq)
    BY <2>3, <2>4 DEF Numbered
  <2>11. es # <<>>
    BY <2>1
  <2> QED BY <2>2, <2>3, <2>4, <2>9, <2>10, <2>11 DEF Tells
<1>3. CASE \E e, m, f : es = <<e, f>> /\ EventStep(b, e, m) /\ EventStep(m, f, d)
                        /\ f.type # "cellSet"
  <2>1. PICK e, m, f : es = <<e, f>> /\ EventStep(b, e, m) /\ EventStep(m, f, d)
                       /\ f.type # "cellSet"
    BY <1>3
  <2>2. /\ IsNext(b, e, m) /\ ApplyEvent(ViewOf(b), e) = ViewOf(m)
        /\ (m.status = "completed" <=> e.type = "gameCompleted")
        /\ IsNext(m, f, d) /\ ApplyEvent(ViewOf(m), f) = ViewOf(d)
        /\ (d.status = "completed" <=> f.type = "gameCompleted")
        /\ f.type = "gameCompleted" => f = GameCompleted(d.seq)
    BY <2>1, StepIsApplied
  <2>3. /\ m \in Boards /\ e \in Events /\ e.seq = b.seq + 1 /\ m.seq = e.seq
        /\ d \in Boards /\ f \in Events /\ f.seq = m.seq + 1 /\ d.seq = f.seq
        /\ b.status = "ongoing" /\ m.status = "ongoing"
        /\ b.seq \in Nat /\ m.seq \in Nat /\ d.seq \in Nat
    BY <2>2 DEF IsNext, Boards
  <2>4. Len(es) = 2 /\ es[1] = e /\ es[2] = f /\ es \in Seq(Events) /\ 1..2 = {1, 2}
    BY <2>1, <2>3
  <2> DEFINE h == [x \in Nat |-> IF x = b.seq THEN ViewOf(b)
                                 ELSE IF x = m.seq THEN ViewOf(m) ELSE ViewOf(d)]
  <2>6. h \in [Nat -> Views]
    BY <2>3, ViewOfTyped
  <2>7. /\ h[b.seq] = ViewOf(b) /\ h[m.seq] = ViewOf(m) /\ h[d.seq] = ViewOf(d)
        /\ e.seq - 1 = b.seq /\ f.seq - 1 = m.seq
    BY <2>3, <2>6
  <2> HIDE DEF h
  <2>8. /\ ViewOf(b).seq = b.seq /\ ViewOf(b).status = b.status
        /\ ViewOf(m).seq = m.seq /\ ViewOf(m).status = m.status
    BY DEF ViewOf
  <2>8a. /\ h[e.seq] = ApplyEvent(h[e.seq - 1], e)
         /\ h[e.seq - 1].seq = e.seq - 1 /\ h[e.seq - 1].status = "ongoing"
    BY <2>2, <2>3, <2>7, <2>8
  <2>8b. /\ h[f.seq] = ApplyEvent(h[f.seq - 1], f)
         /\ h[f.seq - 1].seq = f.seq - 1 /\ h[f.seq - 1].status = "ongoing"
    BY <2>2, <2>3, <2>7, <2>8
  <2>8c. \A i \in 1..Len(es) : es[i] = e \/ es[i] = f
    BY <2>4
  <2>8d. \A i \in 1..Len(es) :
           /\ h[es[i].seq] = ApplyEvent(h[es[i].seq - 1], es[i])
           /\ h[es[i].seq - 1].seq = es[i].seq - 1 /\ h[es[i].seq - 1].status = "ongoing"
    BY <2>8a, <2>8b, <2>8c
  <2>9. Shows(h, b, es, d)
    BY <2>6, <2>7, <2>8d DEF Shows
  <2>10. Numbered(b.seq, es, d.seq)
    BY <2>3, <2>4 DEF Numbered
  <2>11. es # <<>>
    BY <2>1
  <2>12. e.type # "gameCompleted"
    BY <2>2, <2>3
  <2> QED BY <2>1, <2>2, <2>3, <2>4, <2>9, <2>10, <2>11, <2>12 DEF Tells
<1>4. CASE \E e, m, f, n, g : es = <<e, f, g>> /\ EventStep(b, e, m) /\ EventStep(m, f, n)
                        /\ EventStep(n, g, d) /\ f.type # "cellSet" /\ g.type # "cellSet"
  <2>1. PICK e, m, f, n, k : es = <<e, f, k>> /\ EventStep(b, e, m) /\ EventStep(m, f, n)
                        /\ EventStep(n, k, d) /\ f.type # "cellSet" /\ k.type # "cellSet"
    BY <1>4
  <2>2. /\ IsNext(b, e, m) /\ ApplyEvent(ViewOf(b), e) = ViewOf(m)
        /\ (m.status = "completed" <=> e.type = "gameCompleted")
        /\ IsNext(m, f, n) /\ ApplyEvent(ViewOf(m), f) = ViewOf(n)
        /\ (n.status = "completed" <=> f.type = "gameCompleted")
        /\ IsNext(n, k, d) /\ ApplyEvent(ViewOf(n), k) = ViewOf(d)
        /\ (d.status = "completed" <=> k.type = "gameCompleted")
        /\ k.type = "gameCompleted" => k = GameCompleted(d.seq)
    BY <2>1, StepIsApplied
  <2>3. /\ m \in Boards /\ e \in Events /\ e.seq = b.seq + 1 /\ m.seq = e.seq
        /\ n \in Boards /\ f \in Events /\ f.seq = m.seq + 1 /\ n.seq = f.seq
        /\ d \in Boards /\ k \in Events /\ k.seq = n.seq + 1 /\ d.seq = k.seq
        /\ b.status = "ongoing" /\ m.status = "ongoing" /\ n.status = "ongoing"
        /\ b.seq \in Nat /\ m.seq \in Nat /\ n.seq \in Nat /\ d.seq \in Nat
    BY <2>2 DEF IsNext, Boards
  <2>4. /\ Len(es) = 3 /\ es[1] = e /\ es[2] = f /\ es[3] = k /\ es \in Seq(Events)
        /\ 1..3 = {1, 2, 3}
    BY <2>1, <2>3
  <2> DEFINE h == [x \in Nat |-> IF x = b.seq THEN ViewOf(b) ELSE IF x = m.seq THEN ViewOf(m)
                                 ELSE IF x = n.seq THEN ViewOf(n) ELSE ViewOf(d)]
  <2>6. h \in [Nat -> Views]
    BY <2>3, ViewOfTyped
  <2>7. /\ h[b.seq] = ViewOf(b) /\ h[m.seq] = ViewOf(m) /\ h[n.seq] = ViewOf(n)
        /\ h[d.seq] = ViewOf(d) /\ e.seq - 1 = b.seq /\ f.seq - 1 = m.seq /\ k.seq - 1 = n.seq
    BY <2>3, <2>6
  <2> HIDE DEF h
  <2>8. /\ ViewOf(b).seq = b.seq /\ ViewOf(b).status = b.status
        /\ ViewOf(m).seq = m.seq /\ ViewOf(m).status = m.status
        /\ ViewOf(n).seq = n.seq /\ ViewOf(n).status = n.status
    BY DEF ViewOf
  <2>8a. \A i \in 1..Len(es) : i = 1 \/ i = 2 \/ i = 3
    BY <2>4
  <2>8b. /\ h[e.seq] = ApplyEvent(h[e.seq - 1], e) /\ h[e.seq - 1].seq = e.seq - 1
         /\ h[e.seq - 1].status = "ongoing"
         /\ h[f.seq] = ApplyEvent(h[f.seq - 1], f) /\ h[f.seq - 1].seq = f.seq - 1
         /\ h[f.seq - 1].status = "ongoing"
         /\ h[k.seq] = ApplyEvent(h[k.seq - 1], k) /\ h[k.seq - 1].seq = k.seq - 1
         /\ h[k.seq - 1].status = "ongoing"
    BY <2>2, <2>3, <2>7, <2>8
  <2>9. Shows(h, b, es, d)
    BY <2>4, <2>6, <2>7, <2>8a, <2>8b DEF Shows
  <2>10. Numbered(b.seq, es, d.seq)
    BY <2>3, <2>4 DEF Numbered
  <2>11. es # <<>>
    BY <2>1
  <2>12. e.type # "gameCompleted" /\ f.type # "gameCompleted"
    BY <2>2, <2>3
  <2> QED BY <2>1, <2>2, <2>3, <2>4, <2>9, <2>10, <2>11, <2>12 DEF Tells
<1> QED BY <1>1, <1>2, <1>3, <1>4, PathShape

-----------------------------------------------------------------------------
(* The actor's steps.                                                      *)

Messages == CellCommands \cup Proposals \cup Ballots

LEMMA VoteCommandTyped ==
    ASSUME TypeInv, NEW by \in Users, NEW m \in Sent
    PROVE  /\ VoteCommand(by, m) \in Messages /\ VoteCommand(by, m) \in Commands
           /\ VoteCommand(by, m).id = m.id /\ m.id \in CommandIds
<1>1. ghosts \subseteq Users /\ Attached \subseteq Users
  BY DEF TypeInv, SocketsTyped, Attached
<1>2. CASE m \in CellCommands
  <2>1. VoteCommand(by, m) = m
    BY <1>2 DEF VoteCommand, CellCommands
  <2> QED BY <1>2, <2>1 DEF Messages, Commands, CellCommands
<1>3. CASE m \in [type : {"checkPuzzle"}, id : CommandIds]
  <2> DEFINE c == [type |-> m.type, id |-> m.id, by |-> by, electorate |-> {by} \cup Attached \cup ghosts]
  <2>1. VoteCommand(by, m) = c
    BY <1>3 DEF VoteCommand
  <2>2. c \in Proposals
    BY <1>1, <1>3 DEF Proposals
  <2>3. c.id = m.id /\ m.id \in CommandIds
    BY <1>3
  <2> QED BY <2>1, <2>2, <2>3 DEF Messages, Commands
<1>4. CASE m \in [type : {"castCheckVote"}, id : CommandIds, approve : BOOLEAN, voteSeq : Nat]
  <2> DEFINE c == [type |-> m.type, id |-> m.id, by |-> by, voteSeq |-> m.voteSeq,
                   approve |-> m.approve]
  <2>1. VoteCommand(by, m) = c
    BY <1>4 DEF VoteCommand
  <2>2. c \in Ballots
    BY <1>4 DEF Ballots
  <2>3. c.id = m.id /\ m.id \in CommandIds
    BY <1>4
  <2> QED BY <2>1, <2>2, <2>3 DEF Messages, Commands
<1> QED BY <1>2, <1>3, <1>4 DEF Sent

\* The command with this id is taken: its events es are told but for a completion.
Took(id, es, told) ==
    /\ id \in CommandIds /\ id \notin Recent /\ board.status = "ongoing"
    /\ board' \in Boards /\ GoodBoard(board') /\ Tells(board, es, board')
    /\ \A i \in 1..Len(es) : es[i].type = "cellSet" => es[i].id = id
    /\ applied' = Append(applied, id) /\ answered' = answered \cup {id}
    /\ finishing' \in BOOLEAN /\ (finishing' <=> board'.status = "completed")
    /\ told \in Seq(Events) /\ Len(told) = IF finishing' THEN Len(es) - 1 ELSE Len(es)
    /\ \A i \in 1..Len(told) : /\ i \in 1..Len(es) /\ told[i] = es[i]
                               /\ told[i].type # "gameCompleted"
    /\ Broadcast(told)

\* It is refused, and only a socket still up hears of it.
Refused(task, code) ==
    /\ task.msg.id \in CommandIds /\ code \in Codes
    /\ down' = IF task.here
               THEN [down EXCEPT ![task.by] = Append(@, ErrorFrame(code, task.msg.id))]
               ELSE down
    /\ answered' = answered \cup {task.msg.id} /\ UNCHANGED <<board, applied, finishing>>

LEMMA ToldFacts ==
    ASSUME NEW es \in Seq(Events), NEW b, NEW d, Tells(b, es, d), b.status = "ongoing",
           NEW over \in BOOLEAN, over <=> d.status = "completed"
    PROVE  /\ ToldAtOnce(es, over) \in Seq(Events)
           /\ Len(ToldAtOnce(es, over)) = IF over THEN Len(es) - 1 ELSE Len(es)
           /\ \A i \in 1..Len(ToldAtOnce(es, over)) :
                /\ i \in 1..Len(es) /\ ToldAtOnce(es, over)[i] = es[i]
                /\ es[i].type # "gameCompleted"
<1>1. /\ over => es # <<>>
      /\ \A i \in 1..Len(es) : es[i].type = "gameCompleted" => i = Len(es) /\ over
  BY DEF Tells
<1>2. CASE ~ over
  <2>1. ToldAtOnce(es, over) = es
    BY <1>2 DEF ToldAtOnce
  <2> QED BY <1>1, <1>2, <2>1
<1>3. CASE over
  <2>1. ToldAtOnce(es, over) = SubSeq(es, 1, Len(es) - 1) /\ Len(es) \in Nat \ {0}
    BY <1>1, <1>3 DEF ToldAtOnce, Front
  <2> DEFINE t == SubSeq(es, 1, Len(es) - 1)
  <2>2. /\ t \in Seq(Events) /\ Len(t) = Len(es) - 1
        /\ \A i \in 1..Len(t) : i \in 1..Len(es) /\ i # Len(es) /\ t[i] = es[i]
    <3> DEFINE n == Len(es) - 1
    <3>1. n \in Nat /\ Len(es) = n + 1 /\ \A i \in 1..n : i \in 1..Len(es) /\ i # Len(es)
      BY <2>1
    <3>3. t = SubSeq(es, 1, n)
      OBVIOUS
    <3> HIDE DEF n, t
    <3>2. ASSUME NEW i \in 1..n PROVE es[i] \in Events
      <4>1. i \in 1..Len(es)
        BY <3>1
      <4> QED BY <4>1
    <3>4. Len(t) = n /\ \A i \in 1..n : t[i] = es[i]
      BY <3>1, <3>3
    <3>5. t \in Seq(Events)
      BY <3>1, <3>2, <3>3
    <3> QED BY <3>1, <3>4, <3>5
  <2> HIDE DEF t
  <2> QED BY <1>1, <1>3, <2>1, <2>2 DEF t
<1> QED BY <1>2, <1>3

\* Events of a command that carry a cell's id carry the command's.
LEMMA CellsCarryId ==
    ASSUME NEW b, NEW cmd \in Messages, NEW es, es = ApplyWithVote(b, cmd).events,
           NEW d, Tells(b, es, d), NEW i \in 1..Len(es), es[i].type = "cellSet"
    PROVE  es[i].id = cmd.id
<1>1. i = 1
  BY DEF Tells
<1>2. es # <<>>
  <2>1. Len(<<>>) = 0 /\ 1..0 = {}
    OBVIOUS
  <2> QED BY <2>1
<1>3. HasId(es[1])
  BY <1>1 DEF HasId
<1> QED BY <1>1, <1>2, <1>3, FirstCarriesId DEF Messages

LEMMA CommandOutcome ==
    ASSUME TypeInv, RunCommand
    PROVE  /\ Head(queue) \in [by : Users, here : BOOLEAN, msg : Sent]
           /\ Head(queue) = queue[1] /\ 1 \in 1..Len(queue)
           /\ \/ UNCHANGED <<board, applied, finishing, answered, down>>
              \/ \E code : Refused(Head(queue), code)
              \/ \E es, told : Took(Head(queue).msg.id, es, told)
<1> DEFINE task == Head(queue)
           cmd == VoteCommand(task.by, task.msg)
           r == ApplyWithVote(board, cmd)
           es == r.events
<1>1. task \in [by : Users, here : BOOLEAN, msg : Sent] /\ task = queue[1] /\ 1 \in 1..Len(queue)
  <2>1. queue \in Seq([by : Users, here : BOOLEAN, msg : Sent]) /\ queue # <<>>
    BY DEF RunCommand, TypeInv, QueueTyped
  <2>2. Len(queue) \in Nat \ {0} /\ Head(queue) = queue[1]
        /\ Head(queue) \in [by : Users, here : BOOLEAN, msg : Sent]
    BY <2>1, TailFacts
  <2> QED BY <2>2
<1>2. cmd \in Messages /\ cmd \in Commands /\ cmd.id = task.msg.id /\ task.msg.id \in CommandIds
  BY <1>1, VoteCommandTyped
<1>3. board \in Boards /\ GoodBoard(board)
  BY DEF TypeInv, GameTyped
<1>4. \/ UNCHANGED <<board, applied, finishing, answered, down>>
      \/ /\ down' = IF task.here
                    THEN [down EXCEPT ![task.by] = Append(@, ErrorFrame(r.error, task.msg.id))]
                    ELSE down
         /\ answered' = answered \cup {task.msg.id} /\ UNCHANGED <<board, applied, finishing>>
      \/ /\ task.msg.id \notin Recent /\ r.error = "none"
         /\ board' = r.state /\ applied' = Append(applied, task.msg.id)
         /\ answered' = answered \cup {task.msg.id}
         /\ finishing' = (r.state.status = "completed")
         /\ Broadcast(ToldAtOnce(r.events, finishing'))
  BY Zenon DEF RunCommand, Duplicate
<1> HIDE DEF task, cmd
<1>5. r.error \in Codes
  BY <1>2, <1>3 DEF Codes
<1>6. GoodResult(board, r) /\ Tells(board, es, r.state)
  BY <1>2, <1>3, EngineKeepsGoodBoards, EngineTakesSteps, PathTells
<1>7. r.error = "none" => board.status = "ongoing"
  BY <1>2, OverRejects DEF Messages
<1>8. \A i \in 1..Len(es) : es[i].type = "cellSet" => es[i].id = task.msg.id
  <2>1. es = ApplyWithVote(board, cmd).events /\ Tells(board, es, r.state)
    BY <1>6
  <2> HIDE DEF es, r
  <2>2. ASSUME NEW i \in 1..Len(es), es[i].type = "cellSet" PROVE es[i].id = cmd.id
    BY <1>2, <2>1, <2>2, CellsCarryId
  <2> QED BY <1>2, <2>2
<1> HIDE DEF r
<1>9. ASSUME /\ task.msg.id \notin Recent /\ r.error = "none"
             /\ board' = r.state /\ applied' = Append(applied, task.msg.id)
             /\ answered' = answered \cup {task.msg.id}
             /\ finishing' = (r.state.status = "completed")
             /\ Broadcast(ToldAtOnce(r.events, finishing'))
      PROVE  \E told : Took(task.msg.id, es, told)
  <2>1. finishing' \in BOOLEAN /\ (finishing' <=> board'.status = "completed")
    BY <1>9
  <2>2. es \in Seq(Events) /\ board' \in Boards /\ GoodBoard(board')
    BY <1>6, <1>9 DEF GoodResult
  <2> DEFINE told == ToldAtOnce(es, finishing')
  <2>3. /\ told \in Seq(Events) /\ Len(told) = IF finishing' THEN Len(es) - 1 ELSE Len(es)
        /\ \A i \in 1..Len(told) : /\ i \in 1..Len(es) /\ told[i] = es[i]
                                   /\ es[i].type # "gameCompleted"
    <3>1. finishing' <=> r.state.status = "completed"
      BY <1>9
    <3>2. board.status = "ongoing" /\ Tells(board, es, r.state)
      BY <1>6, <1>7, <1>9
    <3> HIDE DEF es
    <3> QED BY <2>1, <2>2, <3>1, <3>2, ToldFacts
  <2>4. Broadcast(told)
    BY <1>9
  <2> HIDE DEF told, es
  <2>5. Tells(board, es, board')
    BY <1>6, <1>9
  <2>6. Took(task.msg.id, es, told)
    BY <1>2, <1>7, <1>8, <1>9, <2>1, <2>2, <2>3, <2>4, <2>5 DEF Took
  <2> QED BY <2>6
<1>10. ASSUME /\ down' = IF task.here
                    THEN [down EXCEPT ![task.by] = Append(@, ErrorFrame(r.error, task.msg.id))]
                    ELSE down
              /\ answered' = answered \cup {task.msg.id} /\ UNCHANGED <<board, applied, finishing>>
       PROVE  Refused(task, r.error)
  BY <1>2, <1>5, <1>10 DEF Refused
<1>11. CASE UNCHANGED <<board, applied, finishing, answered, down>>
  BY <1>1, <1>11 DEF task
<1> QED BY <1>1, <1>4, <1>9, <1>10, <1>11 DEF task

LEMMA ConcatFacts ==
    ASSUME NEW A, NEW s \in Seq(A), NEW t \in Seq(A)
    PROVE  /\ s \o t \in Seq(A) /\ Len(s \o t) = Len(s) + Len(t) /\ Len(s) \in Nat /\ Len(t) \in Nat
           /\ \A i \in 1..Len(s) : (s \o t)[i] = s[i] /\ i \in 1..Len(s \o t)
           /\ \A i \in 1..Len(t) : (s \o t)[Len(s) + i] = t[i] /\ Len(s) + i \in 1..Len(s \o t)
           /\ \A i \in 1..Len(s \o t) :
                \/ i \in 1..Len(s) /\ (s \o t)[i] = s[i]
                \/ i - Len(s) \in 1..Len(t) /\ (s \o t)[i] = t[i - Len(s)]
<1>1. s \o t \in Seq(A) /\ Len(s \o t) = Len(s) + Len(t) /\ Len(s) \in Nat /\ Len(t) \in Nat
  OBVIOUS
<1>2. \A i \in 1..Len(s) : (s \o t)[i] = s[i] /\ i \in 1..Len(s \o t)
  BY <1>1
<1>3. ASSUME NEW i \in 1..Len(t)
      PROVE  (s \o t)[Len(s) + i] = t[i] /\ Len(s) + i \in 1..Len(s \o t)
  BY <1>1
<1>4. ASSUME NEW i \in 1..Len(s \o t), i \notin 1..Len(s)
      PROVE  i - Len(s) \in 1..Len(t) /\ (s \o t)[i] = t[i - Len(s)]
  BY <1>1, <1>4
<1> QED BY <1>1, <1>2, <1>3, <1>4

LEMMA BroadcastTyped ==
    ASSUME TypeInv, NEW events \in Seq(Events), Broadcast(events)
    PROVE  /\ DownTyped'
           /\ \A u \in Users : u \in Attached => down'[u] = down[u] \o events
           /\ \A u \in Users : u \notin Attached => down'[u] = down[u]
<1>1. events \in Seq(Downward)
  <2>1. Events \subseteq Downward
    BY DEF Downward
  <2> QED BY <2>1, SeqGrows
<1>2. \A u \in Users : down[u] \in Seq(Downward)
  BY DEF TypeInv, DownTyped
<1>3. \A u \in Users : down[u] \o events \in Seq(Downward)
  BY <1>1, <1>2, ConcatFacts
<1> QED BY <1>2, <1>3 DEF Broadcast, DownTyped

\* An expired vote closes, and the game goes on.
LEMMA ExpiryOutcome ==
    ASSUME TypeInv, ExpireOpenVote
    PROVE  /\ board.status = "ongoing" /\ board'.status = "ongoing" /\ ~ finishing
           /\ board' \in Boards /\ GoodBoard(board')
           /\ \E es \in Seq(Events) :
                /\ Tells(board, es, board') /\ Broadcast(es)
                /\ \A i \in 1..Len(es) : es[i].type \notin {"cellSet", "gameCompleted"}
<1> DEFINE r == ApplyWithVote(board, Expiry)
           e == VoteClosed(board.seq + 1, board.vote.openedSeq, "failed", "EXPIRED")
<1>1. /\ ~ finishing /\ board.vote # NoVote /\ board' = r.state /\ Broadcast(r.events)
      /\ board \in Boards /\ GoodBoard(board)
  BY DEF ExpireOpenVote, TypeInv, GameTyped
<1>2. board.status = "ongoing"
  BY <1>1 DEF GoodBoard, VoteOnFullGrid
<1>3. GoodResult(board, r) /\ Tells(board, r.events, r.state)
  BY <1>1, EngineKeepsGoodBoards, EngineTakesSteps, PathTells DEF Commands
<1>4. r = CloseFailed(board, board.vote, "failed", "EXPIRED")
  BY <1>1 DEF ApplyWithVote, Expiry, ExpireVote
<1>5. r.events = <<e>> /\ r.state.status = "ongoing"
  <2>1. "status" \in DOMAIN board
    BY <1>1 DEF Boards
  <2> HIDE DEF r
  <2>2. r = Accept([board EXCEPT !.seq = @ + 1, !.vote = NoVote], <<e>>)
    BY <1>4 DEF CloseFailed
  <2> HIDE DEF e
  <2>3. r.events = <<e>> /\ r.state = [board EXCEPT !.seq = @ + 1, !.vote = NoVote]
    BY <2>2 DEF Accept
  <2> QED BY <1>2, <2>1, <2>3
<1>6. e.type = "checkVoteClosed"
  BY DEF VoteClosed
<1> HIDE DEF r, e
<1>7. \A i \in 1..Len(r.events) : r.events[i].type \notin {"cellSet", "gameCompleted"}
  BY <1>5, <1>6
<1> QED BY <1>1, <1>2, <1>3, <1>5, <1>7 DEF GoodResult

LEMMA RunCommandTyped == ASSUME TypeInv, RunCommand PROVE TypeInv'
<1>1. /\ queue # <<>> /\ queue' = Tail(queue) /\ ~ finishing
      /\ UNCHANGED <<saved, phase, socket, up, late, ghosts, client, typed, faults>>
  BY DEF RunCommand
<1>2. QueueTyped'
  BY <1>1, TailFacts DEF TypeInv, QueueTyped
<1>3. GameTyped' /\ DownTyped'
  <2> DEFINE task == Head(queue)
  <2>1. task \in [by : Users, here : BOOLEAN, msg : Sent]
    BY CommandOutcome
  <2>2. CASE UNCHANGED <<board, applied, finishing, answered, down>>
    BY <1>1, <2>2 DEF TypeInv, GameTyped, DownTyped
  <2>3. CASE \E code : Refused(task, code)
    <3>1. PICK code : Refused(task, code)
      BY <2>3
    <3> HIDE DEF task
    <3>2. ErrorFrame(code, task.msg.id) \in Downward
      BY <3>1 DEF Refused, ErrorFrame, Downward, Errors
    <3>3. DownTyped'
      <4>1. CASE task.here
        BY <2>1, <3>1, <3>2, <4>1, TellTyped DEF Refused
      <4>2. CASE ~ task.here
        BY <3>1, <4>2 DEF Refused, TypeInv, DownTyped
      <4> QED BY <4>1, <4>2
    <3>4. answered' \subseteq CommandIds
      BY <3>1 DEF Refused, TypeInv, GameTyped
    <3> QED BY <1>1, <3>1, <3>3, <3>4 DEF Refused, TypeInv, GameTyped
  <2>4. CASE \E es, told : Took(task.msg.id, es, told)
    <3>1. PICK es, told : Took(task.msg.id, es, told)
      BY <2>4
    <3> HIDE DEF task
    <3>2. DownTyped'
      BY <3>1, BroadcastTyped DEF Took
    <3>3. applied' \in Seq(CommandIds) /\ answered' \subseteq CommandIds
      BY <3>1, AppendFacts DEF Took, TypeInv, GameTyped
    <3>4. finishing' \in BOOLEAN /\ (finishing' => board'.status = "completed")
      BY <3>1 DEF Took
    <3> QED BY <1>1, <3>1, <3>2, <3>3, <3>4 DEF Took, TypeInv, GameTyped
  <2> QED BY <2>2, <2>3, <2>4, CommandOutcome
<1> QED BY <1>1, <1>2, <1>3 DEF TypeInv, SocketsTyped, UpTyped, ClientTyped, Greeted

LEMMA FlushTyped == ASSUME TypeInv, Flush \/ FlushTerminal PROVE TypeInv'
<1>1. /\ saved' = [board |-> board, applied |-> applied] /\ finishing' = FALSE
      /\ UNCHANGED <<board, applied, answered, queue, phase, socket, up, late, ghosts,
                     client, typed, faults>>
  BY DEF Flush, FlushTerminal, TypeInv, GameTyped
<1>2. GameTyped'
  <2>1. saved' \in [board : Boards, applied : Seq(CommandIds)] /\ saved'.board = board
    BY <1>1 DEF TypeInv, GameTyped
  <2> QED BY <1>1, <2>1 DEF TypeInv, GameTyped
<1>3. DownTyped'
  <2>1. CASE UNCHANGED down
    BY <2>1 DEF TypeInv, DownTyped
  <2>2. CASE Broadcast(<< GameCompleted(board.seq) >>)
    <3>1. GameCompleted(board.seq) \in Events
      BY DEF GameCompleted, Events, TypeInv, GameTyped, Boards
    <3>2. << GameCompleted(board.seq) >> \in Seq(Events)
      BY <3>1
    <3> QED BY <2>2, <3>2, BroadcastTyped
  <2> QED BY <2>1, <2>2 DEF Flush, FlushTerminal
<1> QED BY <1>1, <1>2, <1>3
        DEF TypeInv, QueueTyped, SocketsTyped, UpTyped, ClientTyped, Greeted

LEMMA ExpireOpenVoteTyped == ASSUME TypeInv, ExpireOpenVote PROVE TypeInv'
<1>1. /\ ~ finishing /\ UNCHANGED <<applied, saved, finishing, answered, queue, phase, socket,
                                    up, late, ghosts, client, typed, faults>>
  BY DEF ExpireOpenVote
<1>2. board' \in Boards /\ GoodBoard(board') /\ \E es \in Seq(Events) : Broadcast(es)
  BY ExpiryOutcome
<1>3. DownTyped'
  BY <1>2, BroadcastTyped
<1>4. GameTyped'
  BY <1>1, <1>2 DEF TypeInv, GameTyped
<1> QED BY <1>1, <1>3, <1>4
        DEF TypeInv, QueueTyped, SocketsTyped, UpTyped, ClientTyped, Greeted

LEMMA LastOfTyped ==
    ASSUME NEW A, NEW s \in Seq(A), NEW n \in Nat
    PROVE  LastOf(s, n) \in Seq(A)
  BY DEF LastOf

LEMMA CrashTyped == ASSUME TypeInv, Crash PROVE TypeInv'
<1>1. /\ board' = saved.board /\ applied' = LastOf(saved.applied, RecentLimit)
      /\ finishing' = FALSE /\ queue' = <<>> /\ ghosts' = {}
      /\ phase' = [u \in Users |-> "none"]
      /\ up' = [u \in Users |-> <<>>] /\ late' = [u \in Users |-> <<>>]
      /\ UNCHANGED <<saved, answered, socket, client, typed>>
  BY DEF Crash
<1>2. GameTyped'
  <2>1. saved.board \in Boards /\ saved.applied \in Seq(CommandIds) /\ RecentLimit \in Nat
    BY RoomAssumption DEF TypeInv, GameTyped
  <2> QED BY <1>1, <2>1, LastOfTyped DEF TypeInv, GameTyped
<1>3. QueueTyped' /\ SocketsTyped' /\ UpTyped'
  BY <1>1 DEF TypeInv, QueueTyped, SocketsTyped, UpTyped
<1>4. DownTyped'
  <2>1. \A u \in Users : down[u] \in Seq(Downward) /\ Append(down[u], Closed) \in Seq(Downward)
    BY DEF TypeInv, DownTyped, Downward
  <2> QED BY <2>1 DEF Crash, DownTyped
<1>5. ClientTyped'
  <2>1. faults' \in [{"drops", "lost", "crashes", "reads"} -> Nat]
    BY CountTyped DEF Crash, TypeInv
  <2> QED BY <1>1, <2>1 DEF TypeInv, ClientTyped
<1>6. Greeted'
  BY <1>1 DEF Greeted
<1> QED BY <1>2, <1>3, <1>4, <1>5, <1>6 DEF TypeInv

-----------------------------------------------------------------------------
(* What one step means to one player: the frames on their way, the server's *)
(* side of the socket, the store.                                          *)

Idle(v) ==
    /\ down'[v] = down[v] /\ phase'[v] = phase[v]
    /\ client'[v].sync = client[v].sync /\ client'[v].view = client[v].view

Reads(v) ==
    /\ down[v] # <<>> /\ Head(down[v]) # Closed /\ down'[v] = Tail(down[v])
    /\ client'[v] = Received(client[v], Head(down[v])) /\ phase'[v] = phase[v]

Loses(v) ==
    /\ down[v] # <<>> /\ Head(down[v]).type \in EventTypes /\ down'[v] = Tail(down[v])
    /\ client'[v] = client[v] /\ phase'[v] = phase[v] /\ faults'.lost # 0

\* The connection ends, or a new one begins.
Leaves(v) ==
    /\ phase'[v] \in {"none", "new"}
    /\ \A i \in 1..Len(down'[v]) :
         \/ i \in 1..Len(down[v]) /\ down'[v][i] = down[v][i]
         \/ down'[v][i] \in {Closed, FatalFrame("UNAUTHORIZED")}

Attaches(v) ==
    /\ phase[v] = "new" /\ phase'[v] = "attached" /\ down'[v] = down[v]
    /\ client'[v] = client[v]

IsWelcomed(v) ==
    /\ phase[v] \in {"attached", "live"} /\ phase'[v] = "live" /\ client'[v] = client[v]
    /\ \E type \in SnapshotTypes : down'[v] = Append(down[v], SnapshotFrame(type))

GoesUnanswered(v) ==
    /\ phase[v] = "attached" /\ phase'[v] = "live" /\ down'[v] = down[v]
    /\ client'[v] = client[v]

IsRefused(v) ==
    /\ phase[v] = "live" /\ phase'[v] = "live" /\ client'[v] = client[v]
    /\ \E f \in Errors : f.id \in answered' /\ down'[v] = Append(down[v], f)

OneMoves(v) ==
    \/ Idle(v) \/ Reads(v) \/ Loses(v) \/ Leaves(v) \/ Attaches(v) \/ IsWelcomed(v)
    \/ GoesUnanswered(v) \/ IsRefused(v)

\* Everyone attached is told the events.
Heard(events) ==
    \A v \in Users :
        /\ client'[v] = client[v] /\ phase'[v] = phase[v]
        /\ v \in Attached => down'[v] = down[v] \o events
        /\ v \notin Attached => down'[v] = down[v]

SameGame == UNCHANGED <<board, finishing, saved, applied>>

\* A step moves players without the board, or tells everyone what became of the board.
Happens ==
    \/ SameGame /\ answered \subseteq answered' /\ \A v \in Users : OneMoves(v)
    \/ \E id, es, told : Took(id, es, told) /\ ~ finishing /\ saved' = saved /\ Heard(told)
    \/ /\ ~ finishing /\ UNCHANGED <<board, finishing, applied, answered>>
       /\ saved' = [board |-> board, applied |-> applied] /\ Heard(<<>>)
    \/ /\ finishing /\ ~ finishing' /\ UNCHANGED <<board, applied, answered>>
       /\ saved' = [board |-> board, applied |-> applied]
       /\ Heard(<< GameCompleted(board.seq) >>)
    \/ /\ ~ finishing /\ UNCHANGED <<finishing, saved, applied, answered>>
       /\ board' \in Boards /\ board.status = "ongoing" /\ board'.status = "ongoing"
       /\ \E es \in Seq(Events) :
            /\ Tells(board, es, board') /\ Heard(es)
            /\ \A i \in 1..Len(es) : es[i].type \notin {"cellSet", "gameCompleted"}
    \/ /\ \A v \in Users : Leaves(v)
       /\ ~ finishing' /\ board' = saved.board /\ UNCHANGED <<saved, answered>>
       /\ applied' = LastOf(saved.applied, RecentLimit)

LEMMA PlayerHappens ==
    ASSUME TypeInv, NEW u \in Users, Player(u) \/ Open(u) \/ SendHello(u)
    PROVE  Happens
<1>1. SameGame /\ answered' = answered
  BY DEF Player, Type, Vote, Open, SendHello, SameGame, game
<1>2. \A v \in Users : OneMoves(v)
  <2>1. CASE Type(u)
    <3>1. /\ UNCHANGED <<down, phase>>
          /\ \E cmd : client' = [client EXCEPT ![u].overlay = Append(@, cmd)]
      BY <2>1 DEF Type
    <3>2. \A v \in Users : client'[v].sync = client[v].sync /\ client'[v].view = client[v].view
      BY <3>1 DEF TypeInv, ClientTyped, Stores
    <3> QED BY <3>1, <3>2 DEF OneMoves, Idle
  <2>2. CASE Vote(u) \/ SendHello(u)
    BY <2>2 DEF Vote, SendHello, OneMoves, Idle
  <2>3. CASE Open(u)
    <3>1. UNCHANGED <<down, client>> /\ phase' = [phase EXCEPT ![u] = "new"]
      BY <2>3 DEF Open
    <3>2. phase'[u] = "new" /\ \A v \in Users : v # u => phase'[v] = phase[v]
      BY <3>1 DEF TypeInv, SocketsTyped
    <3>3. Leaves(u)
      BY <3>1, <3>2 DEF Leaves
    <3>4. \A v \in Users : v # u => Idle(v)
      BY <3>1, <3>2 DEF Idle
    <3> QED BY <3>3, <3>4 DEF OneMoves
  <2> QED BY <2>1, <2>2, <2>3 DEF Player
<1> QED BY <1>1, <1>2 DEF Happens

\* Only u's part of the three changes.
LEMMA OthersIdle ==
    ASSUME TypeInv, NEW u \in Users,
           \A v \in Users : v # u => down'[v] = down[v] /\ phase'[v] = phase[v]
                                     /\ client'[v] = client[v],
           OneMoves(u), SameGame, answered \subseteq answered'
    PROVE  Happens
<1>1. \A v \in Users : v # u => Idle(v)
  BY DEF Idle
<1> QED BY <1>1 DEF Happens, OneMoves

LEMMA ReceiveHappens ==
    ASSUME TypeInv, Linked, NEW u \in Users, Receive(u)
    PROVE  Happens
<1> DEFINE f == Head(down[u])
           after == Received(client[u], f)
<1>1. /\ down[u] \in Seq(Downward) /\ down[u] # <<>> /\ client' = [client EXCEPT ![u] = after]
      /\ SameGame /\ answered' = answered /\ phase' = phase
  BY DEF Receive, TypeInv, DownTyped, SameGame, game
<1>2. client'[u] = after /\ \A v \in Users : v # u => client'[v] = client[v]
  BY <1>1 DEF TypeInv, ClientTyped
<1>3. CASE f = Closed
  <2>1. down' = [down EXCEPT ![u] = <<>>]
    BY <1>3 DEF Receive
  <2>2. down'[u] = <<>> /\ \A v \in Users : v # u => down'[v] = down[v]
    BY <2>1 DEF TypeInv, DownTyped
  <2>3. phase[u] \in {"none", "new"}
    <3>1. down[u][1] = Closed /\ 1 \in 1..Len(down[u])
      BY <1>1, <1>3, TailFacts
    <3>2. phase[u] \notin {"attached", "live"}
      BY <3>1 DEF Linked, IsOpen
    <3> QED BY <3>2 DEF TypeInv, SocketsTyped
  <2>4. Leaves(u)
    BY <1>1, <2>2, <2>3 DEF Leaves
  <2> QED BY <1>1, <1>2, <2>2, <2>4, OthersIdle DEF OneMoves
<1>4. CASE f # Closed
  <2>1. down' = [down EXCEPT ![u] = Tail(@)]
    BY <1>4 DEF Receive
  <2>2. down'[u] = Tail(down[u]) /\ \A v \in Users : v # u => down'[v] = down[v]
    BY <2>1 DEF TypeInv, DownTyped
  <2>3. Reads(u)
    BY <1>1, <1>2, <1>4, <2>2 DEF Reads
  <2> QED BY <1>1, <1>2, <2>2, <2>3, OthersIdle DEF OneMoves
<1> QED BY <1>3, <1>4

LEMMA LosesOrDrops ==
    ASSUME TypeInv, Linked, NEW u \in Users, LoseFrame(u) \/ Drop(u)
    PROVE  Happens
<1>1. CASE LoseFrame(u)
  <2>1. /\ Count("lost", MaxLost) /\ down[u] # <<>> /\ Head(down[u]).type \in EventTypes
        /\ down' = [down EXCEPT ![u] = Tail(@)]
        /\ UNCHANGED <<game, phase, client>>
    BY <1>1 DEF LoseFrame
  <2>2. down'[u] = Tail(down[u]) /\ \A v \in Users : v # u => down'[v] = down[v]
    BY <2>1 DEF TypeInv, DownTyped
  <2>3. faults'.lost # 0
    <3>1. faults'["lost"] = faults["lost"] + 1 /\ faults["lost"] \in Nat
      BY <2>1, CountTyped DEF TypeInv, ClientTyped
    <3> QED BY <3>1
  <2>4. Loses(u) /\ SameGame /\ answered' = answered
    BY <2>1, <2>2, <2>3 DEF Loses, SameGame, game
  <2> QED BY <2>1, <2>2, <2>4, OthersIdle DEF OneMoves
<1>2. CASE Drop(u)
  <2>1. /\ client' = [client EXCEPT ![u] = ConnectionLost(@)] /\ down' = [down EXCEPT ![u] = <<>>]
        /\ phase' = [phase EXCEPT ![u] = "none"] /\ UNCHANGED game
    BY <1>2 DEF Drop
  <2>2. /\ down'[u] = <<>> /\ phase'[u] = "none"
        /\ \A v \in Users : v # u => down'[v] = down[v] /\ phase'[v] = phase[v]
                                     /\ client'[v] = client[v]
    BY <2>1 DEF TypeInv, DownTyped, SocketsTyped, ClientTyped
  <2>3. Leaves(u) /\ SameGame /\ answered' = answered
    BY <2>1, <2>2 DEF Leaves, SameGame, game
  <2> QED BY <2>2, <2>3, OthersIdle DEF OneMoves
<1> QED BY <1>1, <1>2

LEMMA ServerHappens ==
    ASSUME TypeInv, Linked, NEW u \in Users, Server(u)
    PROVE  Happens
<1>1. SameGame /\ answered' = answered /\ client' = client
  BY DEF Server, Handshake, Welcome, HandleFrame, HandleLate, MembersUnreadable, SameGame, game
<1>2. CASE Handshake(u)
  <2>1. CASE Head(up[u]) = Hello
    <3>1. phase' = [phase EXCEPT ![u] = "attached"] /\ down' = down /\ phase[u] = "new"
      BY <1>2, <2>1 DEF Handshake
    <3>2. phase'[u] = "attached" /\ \A v \in Users : v # u => phase'[v] = phase[v]
      BY <3>1 DEF TypeInv, SocketsTyped
    <3>3. Attaches(u)
      BY <1>1, <3>1, <3>2 DEF Attaches
    <3> QED BY <1>1, <3>1, <3>2, <3>3, OthersIdle DEF OneMoves
  <2>2. CASE Head(up[u]) # Hello
    <3>1. /\ phase' = [phase EXCEPT ![u] = "none"] /\ phase[u] = "new"
          /\ down' = [down EXCEPT ![u] = @ \o << FatalFrame("UNAUTHORIZED"), Closed >>]
      BY <1>2, <2>2 DEF Handshake
    <3>2. /\ phase'[u] = "none" /\ down'[u] = down[u] \o << FatalFrame("UNAUTHORIZED"), Closed >>
          /\ \A v \in Users : v # u => phase'[v] = phase[v] /\ down'[v] = down[v]
      BY <3>1 DEF TypeInv, SocketsTyped, DownTyped
    <3>3. \A i \in 1..Len(down'[u]) :
              \/ i \in 1..Len(down[u]) /\ down'[u][i] = down[u][i]
              \/ down'[u][i] \in {Closed, FatalFrame("UNAUTHORIZED")}
      <4> DEFINE t == << FatalFrame("UNAUTHORIZED"), Closed >>
      <4>1. down[u] \in Seq(Downward) /\ t \in Seq(Downward)
        BY DEF TypeInv, DownTyped, Downward
      <4>2. \A i \in 1..Len(t) : t[i] \in {Closed, FatalFrame("UNAUTHORIZED")}
        OBVIOUS
      <4> HIDE DEF t
      <4>3. \A i \in 1..Len(down[u] \o t) :
              \/ i \in 1..Len(down[u]) /\ (down[u] \o t)[i] = down[u][i]
              \/ i - Len(down[u]) \in 1..Len(t) /\ (down[u] \o t)[i] = t[i - Len(down[u])]
        BY <4>1, ConcatFacts
      <4> QED BY <3>2, <4>2, <4>3 DEF t
    <3>4. Leaves(u)
      BY <3>2, <3>3 DEF Leaves
    <3> QED BY <1>1, <3>2, <3>4, OthersIdle DEF OneMoves
  <2> QED BY <2>1, <2>2
<1>3. CASE Welcome(u)
  <2>1. /\ phase' = [phase EXCEPT ![u] = "live"] /\ phase[u] = "attached"
        /\ down' = [down EXCEPT ![u] = Append(@, SnapshotFrame("welcome"))]
    BY <1>3 DEF Welcome
  <2>2. /\ phase'[u] = "live" /\ down'[u] = Append(down[u], SnapshotFrame("welcome"))
        /\ \A v \in Users : v # u => phase'[v] = phase[v] /\ down'[v] = down[v]
    BY <2>1 DEF TypeInv, SocketsTyped, DownTyped
  <2>3. IsWelcomed(u)
    BY <1>1, <2>1, <2>2 DEF IsWelcomed, SnapshotTypes
  <2> QED BY <1>1, <2>2, <2>3, OthersIdle DEF OneMoves
<1>4. CASE HandleFrame(u)
  <2>1. phase[u] = "live" /\ phase' = phase
    BY <1>4 DEF HandleFrame
  <2>2. CASE down' = down
    BY <1>1, <2>1, <2>2 DEF Happens, OneMoves, Idle
  <2>3. CASE down' = [down EXCEPT ![u] = Append(@, SnapshotFrame("sync"))]
    <3>1. /\ down'[u] = Append(down[u], SnapshotFrame("sync"))
          /\ \A v \in Users : v # u => down'[v] = down[v]
      BY <2>3 DEF TypeInv, DownTyped
    <3>2. IsWelcomed(u)
      BY <1>1, <2>1, <3>1 DEF IsWelcomed, SnapshotTypes
    <3> QED BY <1>1, <2>1, <3>1, <3>2, OthersIdle DEF OneMoves
  <2> QED BY <1>4, <2>2, <2>3 DEF HandleFrame
<1>5. CASE HandleLate(u)
  <2>1. UNCHANGED <<phase, down>>
    BY <1>5 DEF HandleLate
  <2> QED BY <1>1, <2>1 DEF Happens, OneMoves, Idle
<1>6. CASE MembersUnreadable(u)
  <2>1. down' = down
    BY <1>6 DEF MembersUnreadable
  <2>2. CASE phase' = phase
    BY <1>1, <2>1, <2>2 DEF Happens, OneMoves, Idle
  <2>3. CASE phase[u] = "attached" /\ phase' = [phase EXCEPT ![u] = "live"]
    <3>1. phase'[u] = "live" /\ \A v \in Users : v # u => phase'[v] = phase[v]
      BY <2>3 DEF TypeInv, SocketsTyped
    <3>2. GoesUnanswered(u)
      BY <1>1, <2>1, <2>3, <3>1 DEF GoesUnanswered
    <3> QED BY <1>1, <2>1, <3>1, <3>2, OthersIdle DEF OneMoves
  <2> QED BY <1>6, <2>2, <2>3 DEF MembersUnreadable
<1> QED BY <1>2, <1>3, <1>4, <1>5, <1>6 DEF Server

LEMMA ActorHappens ==
    ASSUME TypeInv, Linked, Actor
    PROVE  Happens
<1>1. UNCHANGED <<phase, client>>
  BY DEF Actor, RunCommand, Flush, FlushTerminal, ExpireOpenVote
<1>2. ASSUME NEW events, Broadcast(events) PROVE Heard(events)
  BY <1>1, <1>2 DEF Broadcast, Heard
<1>3. CASE RunCommand
  <2> DEFINE task == Head(queue)
  <2>1. /\ task \in [by : Users, here : BOOLEAN, msg : Sent] /\ task = queue[1]
        /\ 1 \in 1..Len(queue) /\ saved' = saved /\ ~ finishing
    BY <1>3, CommandOutcome DEF RunCommand
  <2>2. CASE UNCHANGED <<board, applied, finishing, answered, down>>
    BY <1>1, <2>1, <2>2 DEF Happens, SameGame, OneMoves, Idle
  <2>3. CASE \E code : Refused(task, code)
    <3>1. PICK code : Refused(task, code)
      BY <2>3
    <3> HIDE DEF task
    <3> DEFINE f == ErrorFrame(code, task.msg.id)
    <3>2. f \in Errors /\ f.id \in answered'
      BY <3>1 DEF Refused, ErrorFrame, Errors
    <3>3. SameGame /\ answered \subseteq answered'
      BY <2>1, <3>1 DEF Refused, SameGame
    <3>4. CASE ~ task.here
      BY <1>1, <3>1, <3>3, <3>4 DEF Refused, Happens, OneMoves, Idle
    <3>5. CASE task.here
      <4> HIDE DEF f
      <4>1. down' = [down EXCEPT ![task.by] = Append(@, f)]
        BY <3>1, <3>5 DEF Refused, f
      <4>2. /\ down'[task.by] = Append(down[task.by], f) /\ task.by \in Users
            /\ \A v \in Users : v # task.by => down'[v] = down[v]
        BY <2>1, <4>1 DEF TypeInv, DownTyped
      <4>3. phase[task.by] = "live"
        BY <2>1, <3>5 DEF Linked
      <4>4. IsRefused(task.by)
        BY <1>1, <3>2, <4>2, <4>3 DEF IsRefused
      <4> QED BY <1>1, <3>3, <4>2, <4>4, OthersIdle DEF OneMoves
    <3> QED BY <3>4, <3>5
  <2>4. CASE \E es, told : Took(task.msg.id, es, told)
    <3>1. PICK es, told : Took(task.msg.id, es, told)
      BY <2>4
    <3>2. Heard(told)
      BY <1>2, <3>1 DEF Took
    <3> QED BY <2>1, <3>1, <3>2 DEF Happens
  <2> QED BY <1>3, <2>2, <2>3, <2>4, CommandOutcome
<1>4. CASE Flush
  <2>1. Heard(<<>>)
    <3>1. \A v \in Users : down[v] \o <<>> = down[v]
      BY DEF TypeInv, DownTyped
    <3> QED BY <1>1, <1>4, <3>1 DEF Flush, Heard
  <2> QED BY <1>4, <2>1 DEF Flush, Happens
<1>5. CASE FlushTerminal
  BY <1>2, <1>5 DEF FlushTerminal, Happens
<1>6. CASE ExpireOpenVote
  <2>1. ~ finishing /\ UNCHANGED <<finishing, saved, applied, answered>>
    BY <1>6 DEF ExpireOpenVote
  <2>2. board.status = "ongoing" /\ board'.status = "ongoing" /\ board' \in Boards
    BY <1>6, ExpiryOutcome
  <2>3. PICK es \in Seq(Events) :
           /\ Tells(board, es, board') /\ Broadcast(es)
           /\ \A i \in 1..Len(es) : es[i].type \notin {"cellSet", "gameCompleted"}
    BY <1>6, ExpiryOutcome
  <2>4. Heard(es)
    BY <1>2, <2>3
  <2> QED BY <2>1, <2>2, <2>3, <2>4 DEF Happens
<1> QED BY <1>3, <1>4, <1>5, <1>6 DEF Actor

LEMMA CrashHappens == ASSUME TypeInv, Crash PROVE Happens
<1>1. /\ ~ finishing' /\ board' = saved.board /\ UNCHANGED <<saved, answered>>
      /\ applied' = LastOf(saved.applied, RecentLimit)
      /\ phase' = [u \in Users |-> "none"]
      /\ down' = [u \in Users |-> IF phase[u] = "none" THEN down[u] ELSE Append(down[u], Closed)]
  BY DEF Crash
<1>2. ASSUME NEW v \in Users PROVE Leaves(v)
  <2>1. down[v] \in Seq(Downward) /\ Closed \in Downward /\ phase'[v] = "none"
    BY <1>1 DEF TypeInv, DownTyped, Downward
  <2>2. CASE phase[v] = "none"
    BY <1>1, <2>1, <2>2 DEF Leaves
  <2>3. CASE phase[v] # "none"
    <3>1. down'[v] = Append(down[v], Closed)
      BY <1>1, <2>3
    <3>2. /\ Len(down'[v]) = Len(down[v]) + 1 /\ Len(down[v]) \in Nat
          /\ \A i \in 1..Len(down[v]) : down'[v][i] = down[v][i]
          /\ down'[v][Len(down[v]) + 1] = Closed
      BY <2>1, <3>1, AppendFacts
    <3> QED BY <2>1, <3>2 DEF Leaves
  <2> QED BY <2>2, <2>3
<1> QED BY <1>1, <1>2 DEF Happens

LEMMA NextHappens ==
    ASSUME TypeInv, Linked, Next
    PROVE  Happens /\ (faults'.lost = 0 => faults.lost = 0) /\ TypeInv'
<1>1. Happens
  <2>1. ASSUME NEW u \in Users, Player(u) \/ Transport(u) \/ Server(u) PROVE Happens
    BY <2>1, PlayerHappens, ReceiveHappens, LosesOrDrops, ServerHappens DEF Transport
  <2> QED BY <2>1, ActorHappens, CrashHappens DEF Next
<1>2. faults'.lost = 0 => faults.lost = 0
  <2>1. CASE faults' = faults
    BY <2>1
  <2>2. ASSUME NEW kind \in {"drops", "lost", "crashes", "reads"}, NEW max, Count(kind, max)
        PROVE  faults'.lost = 0 => faults.lost = 0
    <3>1. /\ faults'[kind] = faults[kind] + 1 /\ faults["lost"] \in Nat
          /\ "lost" # kind => faults'["lost"] = faults["lost"]
      BY <2>2, CountTyped DEF TypeInv, ClientTyped
    <3> QED BY <3>1
  <2>3. \/ faults' = faults
        \/ \E kind \in {"drops", "lost", "crashes", "reads"} : \E max : Count(kind, max)
    BY DEF Next, Player, Transport, Server, Actor, Type, Vote, Open, SendHello, Receive,
           LoseFrame, Drop, Handshake, Welcome, HandleFrame, HandleLate, MembersUnreadable,
           RunCommand, Flush, FlushTerminal, ExpireOpenVote, Crash
  <2> QED BY <2>1, <2>2, <2>3
<1>3. TypeInv'
  BY TypeTyped, VoteTyped, OpenTyped, SendHelloTyped, ReceiveTyped, LoseFrameTyped, DropTyped,
     HandshakeTyped, WelcomeTyped, HandleFrameTyped, MembersUnreadableTyped, HandleLateTyped,
     RunCommandTyped, FlushTyped, ExpireOpenVoteTyped, CrashTyped
     DEF Next, Player, Transport, Server, Actor
<1> QED BY <1>1, <1>2, <1>3

-----------------------------------------------------------------------------
(* What the players' side of a socket knows of the server's.               *)

LEMMA OpenFrames ==
    ASSUME NEW f \in Events \cup Snapshots \cup Errors
    PROVE  IsOpen(f)
<1>1. f # Closed
  BY HelloIsApart
<1>2. f # FatalFrame("UNAUTHORIZED")
  <2>1. FatalFrame("UNAUTHORIZED").type = "error" /\ FatalFrame("UNAUTHORIZED").fatal = TRUE
    BY DEF FatalFrame
  <2>2. f.type = "error" => f \in Errors
    BY DEF Events, Snapshots, SnapshotTypes
  <2>3. f \in Errors => f.fatal = FALSE
    BY DEF Errors
  <2> QED BY <2>1, <2>2, <2>3
<1> QED BY <1>1, <1>2 DEF IsOpen

\* No store goes live but on a snapshot.
LEMMA OnlySnapshotsRevive ==
    ASSUME NEW s \in Stores, NEW f \in Downward, f \notin Snapshots, s.sync # "live"
    PROVE  Received(s, f).sync # "live"
<1>1. CASE f.type \in EventTypes
  <2>1. Received(s, f) = s
    BY <1>1, ReceivedIs DEF ApplySequenced
  <2> QED BY <2>1
<1>2. CASE f.type = "error"
  <2>1. Received(s, f) = ApplyError(s, f)
    BY <1>2, ReceivedIs
  <2> QED BY <2>1 DEF ApplyError, Stores
<1>3. CASE f = Closed
  <2>1. Received(s, f) = ConnectionLost(s)
    BY <1>3, ReceivedIs
  <2> QED BY <2>1 DEF ConnectionLost, Stores
<1> QED BY <1>1, <1>2, <1>3, FrameKinds

\* An attached player's frames after a step.
LEMMA StaysLinked ==
    ASSUME TypeInv, TypeInv', Linked, Happens, NEW v \in Users
    PROVE  /\ phase'[v] \in {"attached", "live"} =>
                \A i \in 1..Len(down'[v]) : IsOpen(down'[v][i])
           /\ phase'[v] = "attached" =>
                /\ client'[v].sync # "live"
                /\ \A i \in 1..Len(down'[v]) : down'[v][i] \notin Snapshots
<1> DEFINE Fine == /\ phase'[v] \in {"attached", "live"} =>
                        \A i \in 1..Len(down'[v]) : IsOpen(down'[v][i])
                   /\ phase'[v] = "attached" =>
                        /\ client'[v].sync # "live"
                        /\ \A i \in 1..Len(down'[v]) : down'[v][i] \notin Snapshots
<1>0. /\ down[v] \in Seq(Downward) /\ client[v] \in Stores
      /\ \A f \in Events : f \notin Snapshots
  BY DEF TypeInv, DownTyped, ClientTyped, Events, Snapshots, SnapshotTypes
<1>1. ASSUME Heard(<<>>) PROVE Fine
  <2>1. down'[v] = down[v]
    <3>1. down[v] \o <<>> = down[v]
      BY <1>0
    <3> QED BY <1>1, <3>1 DEF Heard
  <2> QED BY <1>1, <2>1 DEF Heard, Linked
<1>2. ASSUME NEW es \in Seq(Events), Heard(es) PROVE Fine
  <2>1. CASE v \in Attached
    <3>1. es \in Seq(Downward)
      <4>1. Events \subseteq Downward
        BY DEF Downward
      <4> QED BY <4>1, SeqGrows
    <3>2. \A i \in 1..Len(down[v] \o es) :
              \/ i \in 1..Len(down[v]) /\ (down[v] \o es)[i] = down[v][i]
              \/ i - Len(down[v]) \in 1..Len(es) /\ (down[v] \o es)[i] = es[i - Len(down[v])]
      BY <1>0, <3>1, ConcatFacts
    <3>3. \A i \in 1..Len(es) : es[i] \in Events /\ IsOpen(es[i])
      BY OpenFrames
    <3>4. down'[v] = down[v] \o es /\ client'[v] = client[v] /\ phase'[v] = phase[v]
      BY <1>2, <2>1 DEF Heard
    <3>5. \A i \in 1..Len(down'[v]) :
            \/ i \in 1..Len(down[v]) /\ down'[v][i] = down[v][i]
            \/ down'[v][i] \in Events /\ IsOpen(down'[v][i])
      BY <3>2, <3>3, <3>4
    <3>6. phase[v] \in {"attached", "live"} => \A i \in 1..Len(down[v]) : IsOpen(down[v][i])
      BY DEF Linked
    <3>7. phase[v] = "attached" => /\ client[v].sync # "live"
                                   /\ \A i \in 1..Len(down[v]) : down[v][i] \notin Snapshots
      BY DEF Linked
    <3> QED BY <1>0, <3>4, <3>5, <3>6, <3>7
  <2>2. CASE v \notin Attached
    BY <1>2, <2>2 DEF Heard, Linked
  <2> QED BY <2>1, <2>2
<1>3. ASSUME OneMoves(v) PROVE Fine
  <2>1. CASE Idle(v)
    BY <2>1 DEF Idle, Linked
  <2>2. CASE Reads(v) \/ Loses(v)
    <3>1. /\ down[v] # <<>> /\ down'[v] = Tail(down[v]) /\ phase'[v] = phase[v]
          /\ client'[v] = client[v] \/ client'[v] = Received(client[v], Head(down[v]))
      BY <2>2 DEF Reads, Loses
    <3>2. /\ Head(down[v]) = down[v][1] /\ 1 \in 1..Len(down[v]) /\ Head(down[v]) \in Downward
          /\ \A i \in 1..Len(Tail(down[v])) : Tail(down[v])[i] = down[v][i + 1] /\ i + 1 \in 1..Len(down[v])
      BY <1>0, <3>1, TailFacts
    <3>3. phase[v] = "attached" => client'[v].sync # "live"
      BY <1>0, <3>1, <3>2, OnlySnapshotsRevive DEF Linked
    <3> QED BY <3>1, <3>2, <3>3 DEF Linked
  <2>3. CASE Leaves(v)
    BY <2>3 DEF Leaves
  <2>4. CASE Attaches(v)
    <3>1. down'[v] = <<>> /\ client'[v].sync # "live"
      BY <2>4 DEF Attaches, Linked
    <3> QED BY <3>1
  <2>5. CASE IsWelcomed(v)
    <3>1. PICK type \in SnapshotTypes : down'[v] = Append(down[v], SnapshotFrame(type))
      BY <2>5 DEF IsWelcomed
    <3>2. SnapshotFrame(type) \in Downward /\ IsOpen(SnapshotFrame(type))
      BY SnapshotTyped, OpenFrames
    <3>3. \A i \in 1..Len(down'[v]) : IsOpen(down'[v][i])
      <4>1. /\ Len(down'[v]) = Len(down[v]) + 1 /\ Len(down[v]) \in Nat
            /\ \A i \in 1..Len(down[v]) : down'[v][i] = down[v][i]
            /\ down'[v][Len(down[v]) + 1] = SnapshotFrame(type)
        BY <1>0, <3>1, <3>2, AppendFacts
      <4>2. \A i \in 1..Len(down[v]) : IsOpen(down[v][i])
        BY <2>5 DEF IsWelcomed, Linked
      <4> QED BY <3>2, <4>1, <4>2
    <3> QED BY <2>5, <3>3 DEF IsWelcomed
  <2>6. CASE GoesUnanswered(v)
    BY <2>6 DEF GoesUnanswered, Linked
  <2>7. CASE IsRefused(v)
    <3>1. PICK f \in Errors : down'[v] = Append(down[v], f)
      BY <2>7 DEF IsRefused
    <3>2. f \in Downward /\ IsOpen(f)
      BY OpenFrames DEF Downward
    <3>3. \A i \in 1..Len(down'[v]) : IsOpen(down'[v][i])
      <4>1. /\ Len(down'[v]) = Len(down[v]) + 1 /\ Len(down[v]) \in Nat
            /\ \A i \in 1..Len(down[v]) : down'[v][i] = down[v][i]
            /\ down'[v][Len(down[v]) + 1] = f
        BY <1>0, <3>1, <3>2, AppendFacts
      <4>2. \A i \in 1..Len(down[v]) : IsOpen(down[v][i])
        BY <2>7 DEF IsRefused, Linked
      <4> QED BY <3>2, <4>1, <4>2
    <3> QED BY <2>7, <3>3 DEF IsRefused
  <2> QED BY <1>3, <2>1, <2>2, <2>3, <2>4, <2>5, <2>6, <2>7 DEF OneMoves
<1>4. ASSUME \E id, es, told : Took(id, es, told) /\ Heard(told) PROVE Fine
  BY <1>2, <1>4 DEF Took
<1>5. ASSUME Heard(<< GameCompleted(board.seq) >>) PROVE Fine
  <2>1. GameCompleted(board.seq) \in Events
    BY DEF GameCompleted, Events, TypeInv, GameTyped, Boards
  <2>2. << GameCompleted(board.seq) >> \in Seq(Events)
    BY <2>1
  <2> QED BY <1>2, <1>5, <2>2
<1>6. ASSUME Leaves(v) PROVE Fine
  BY <1>3, <1>6 DEF OneMoves
<1>7. ASSUME \E es \in Seq(Events) : Heard(es) PROVE Fine
  BY <1>2, <1>7
<1> HIDE DEF Fine
<1>8. Fine
  <2>1. \/ OneMoves(v) \/ (\E id, es, told : Took(id, es, told) /\ Heard(told))
        \/ Heard(<<>>) \/ Heard(<< GameCompleted(board.seq) >>)
        \/ (\E es \in Seq(Events) : Heard(es)) \/ Leaves(v)
    BY Zenon DEF Happens
  <2> QED BY <1>1, <1>3, <1>4, <1>5, <1>6, <1>7, <2>1
<1> QED BY <1>8 DEF Fine

\* A socket that is closed, or not yet attached.
LEMMA StaysClosed ==
    ASSUME TypeInv, Linked, Next, NEW v \in Users
    PROVE  /\ socket'[v] = "closed" \/ phase'[v] = "new" =>
                client'[v].sync # "live" /\ down'[v] = <<>>
           /\ phase'[v] # "none" => socket'[v] # "closed"
<1> DEFINE Quiet == /\ socket'[v] = "closed" \/ phase'[v] = "new" =>
                         client'[v].sync # "live" /\ down'[v] = <<>>
                    /\ phase'[v] # "none" => socket'[v] # "closed"
<1>0. /\ down \in [Users -> Seq(Downward)] /\ client \in [Users -> Stores]
      /\ phase \in [Users -> {"none", "new", "attached", "live"}]
      /\ socket \in [Users -> {"closed", "open", "greeted"}]
  BY DEF TypeInv, DownTyped, ClientTyped, SocketsTyped
<1>1. /\ socket[v] = "closed" \/ phase[v] = "new" => client[v].sync # "live" /\ down[v] = <<>>
      /\ phase[v] # "none" => socket[v] # "closed"
  BY DEF Linked
<1>2. ASSUME down'[v] = down[v], socket'[v] = socket[v], client'[v].sync = client[v].sync,
             phase'[v] # phase[v] => phase[v] # "none" /\ phase'[v] # "new"
      PROVE  Quiet
  BY <1>1, <1>2
<1>3. ASSUME NEW u \in Users, Player(u) \/ Transport(u) \/ Server(u) PROVE Quiet
  <2>1. CASE Type(u)
    <3>1. /\ UNCHANGED <<down, socket, phase>>
          /\ \E cmd : client' = [client EXCEPT ![u].overlay = Append(@, cmd)]
      BY <2>1 DEF Type
    <3>2. client'[v].sync = client[v].sync
      BY <1>0, <3>1 DEF Stores
    <3> QED BY <1>2, <3>1, <3>2
  <2>2. CASE Vote(u)
    BY <1>2, <2>2 DEF Vote
  <2>3. CASE Open(u)
    BY <1>0, <1>1, <2>3 DEF Open
  <2>4. CASE SendHello(u)
    BY <1>0, <1>1, <2>4 DEF SendHello
  <2>5. CASE Receive(u)
    <3>1. v # u => Quiet
      <4>1. v # u => down'[v] = down[v] /\ socket'[v] = socket[v] /\ client'[v] = client[v]
                     /\ phase'[v] = phase[v]
        BY <1>0, <2>5 DEF Receive
      <4> QED BY <1>2, <4>1
    <3>2. CASE v = u /\ Head(down[u]) = Closed
      <4>1. Received(client[u], Closed) = ConnectionLost(client[u])
        BY ReceivedIs
      <4>2. client'[u].sync # "live" /\ down'[u] = <<>> /\ phase' = phase
        BY <1>0, <2>5, <3>2, <4>1 DEF Receive, ConnectionLost, Stores
      <4>3. phase[u] = "none"
        <5>1. down[u][1] = Closed /\ 1 \in 1..Len(down[u]) /\ down[u] # <<>>
          BY <1>0, <2>5, <3>2, TailFacts DEF Receive
        <5>2. phase[u] \notin {"attached", "live", "new"}
          BY <5>1 DEF Linked, IsOpen
        <5> QED BY <1>0, <5>2
      <4> QED BY <3>2, <4>2, <4>3
    <3>3. CASE v = u /\ Head(down[u]) # Closed
      <4>1. down[u] # <<>> /\ socket' = socket /\ phase' = phase
        BY <2>5, <3>3 DEF Receive
      <4> QED BY <1>1, <3>3, <4>1
    <3> QED BY <3>1, <3>2, <3>3
  <2>6. CASE LoseFrame(u)
    <3>1. down[u] # <<>> /\ UNCHANGED <<socket, phase, client>>
          /\ (v # u => down'[v] = down[v])
      BY <1>0, <2>6 DEF LoseFrame
    <3>2. v = u => Quiet
      BY <1>1, <3>1
    <3> QED BY <1>2, <3>1, <3>2
  <2>7. CASE Drop(u)
    <3>1. CASE v = u
      <4>1. client'[u] = ConnectionLost(client[u]) /\ down'[u] = <<>> /\ phase'[u] = "none"
        BY <1>0, <2>7 DEF Drop
      <4> QED BY <1>0, <3>1, <4>1 DEF ConnectionLost, Stores
    <3>2. CASE v # u
      <4>1. down'[v] = down[v] /\ socket'[v] = socket[v] /\ client'[v] = client[v]
            /\ phase'[v] = phase[v]
        BY <1>0, <2>7, <3>2 DEF Drop
      <4> QED BY <1>2, <4>1
    <3> QED BY <3>1, <3>2
  <2>8. CASE Handshake(u)
    <3>1. /\ phase[u] = "new" /\ UNCHANGED <<socket, client>>
          /\ phase'[u] \in {"none", "attached"}
          /\ v # u => down'[v] = down[v] /\ phase'[v] = phase[v]
      BY <1>0, <2>8 DEF Handshake
    <3>2. v = u => Quiet
      BY <1>1, <3>1
    <3> QED BY <1>2, <3>1, <3>2
  <2>9. CASE Welcome(u)
    <3>1. /\ phase[u] = "attached" /\ UNCHANGED <<socket, client>> /\ phase'[u] = "live"
          /\ v # u => down'[v] = down[v] /\ phase'[v] = phase[v]
      BY <1>0, <2>9 DEF Welcome
    <3>2. v = u => Quiet
      BY <1>1, <3>1
    <3> QED BY <1>2, <3>1, <3>2
  <2>10. CASE HandleFrame(u)
    <3>1. /\ phase[u] = "live" /\ UNCHANGED <<socket, client, phase>>
          /\ v # u => down'[v] = down[v]
      BY <1>0, <2>10 DEF HandleFrame
    <3>2. v = u => Quiet
      BY <1>1, <3>1
    <3> QED BY <1>2, <3>1, <3>2
  <2>11. CASE HandleLate(u)
    BY <1>2, <2>11 DEF HandleLate
  <2>12. CASE MembersUnreadable(u)
    <3>1. /\ UNCHANGED <<socket, client, down>>
          /\ phase'[v] # phase[v] => phase[v] = "attached" /\ phase'[v] = "live"
      BY <1>0, <2>12 DEF MembersUnreadable
    <3> QED BY <1>2, <3>1
  <2> QED BY <1>3, <2>1, <2>2, <2>3, <2>4, <2>5, <2>6, <2>7, <2>8, <2>9, <2>10, <2>11, <2>12
          DEF Player, Transport, Server
<1>4. ASSUME Actor PROVE Quiet
  <2>1. UNCHANGED <<phase, socket, client>>
    BY <1>4 DEF Actor, RunCommand, Flush, FlushTerminal, ExpireOpenVote
  <2>2. CASE phase[v] \in {"attached", "live"}
    BY <1>1, <2>1, <2>2
  <2>3. CASE phase[v] \notin {"attached", "live"}
    <3>1. ASSUME NEW events, Broadcast(events) PROVE down'[v] = down[v]
      BY <2>3, <3>1 DEF Broadcast, Attached
    <3>2. CASE RunCommand
      <4>1. \A code : Refused(Head(queue), code) => down'[v] = down[v]
        <5>1. queue[1].here => phase[queue[1].by] = "live"
          BY <3>2, CommandOutcome DEF Linked
        <5>2. Head(queue) = queue[1]
          BY <3>2, CommandOutcome
        <5> QED BY <1>0, <2>3, <5>1, <5>2 DEF Refused
      <4>2. \A id, es, told : Took(id, es, told) => down'[v] = down[v]
        BY <3>1 DEF Took
      <4>3. down'[v] = down[v]
        BY <3>2, <4>1, <4>2, CommandOutcome
      <4> QED BY <1>2, <2>1, <4>3
    <3>3. CASE Flush
      BY <1>2, <2>1, <3>3 DEF Flush
    <3>4. CASE FlushTerminal
      BY <1>2, <2>1, <3>1, <3>4 DEF FlushTerminal
    <3>5. CASE ExpireOpenVote
      BY <1>2, <2>1, <3>1, <3>5 DEF ExpireOpenVote
    <3> QED BY <1>4, <3>2, <3>3, <3>4, <3>5 DEF Actor
  <2> QED BY <2>2, <2>3
<1>5. ASSUME Crash PROVE Quiet
  <2>1. /\ phase' = [u \in Users |-> "none"] /\ UNCHANGED <<socket, client>>
        /\ phase[v] = "none" => down'[v] = down[v]
    BY <1>5 DEF Crash
  <2> QED BY <1>1, <2>1
<1> HIDE DEF Quiet
<1>6. Quiet
  BY <1>3, <1>4, <1>5 DEF Next
<1> QED BY <1>6 DEF Quiet

\* A message whose socket is up comes from a live one.
LEMMA QueueStaysLinked ==
    ASSUME TypeInv, Linked, Next
    PROVE  \A i \in 1..Len(queue') : queue'[i].here => phase'[queue'[i].by] = "live"
<1> DEFINE Up == \A i \in 1..Len(queue') : queue'[i].here => phase'[queue'[i].by] = "live"
           Task == [by : Users, here : BOOLEAN, msg : Sent]
<1>0. /\ queue \in Seq(Task) /\ phase \in [Users -> {"none", "new", "attached", "live"}]
      /\ \A i \in 1..Len(queue) : queue[i] \in Task
  <2>1. queue \in Seq(Task)
    BY DEF TypeInv, QueueTyped
  <2> HIDE DEF Task
  <2>2. \A i \in 1..Len(queue) : queue[i] \in Task
    BY <2>1
  <2> QED BY <2>1, <2>2 DEF TypeInv, SocketsTyped
<1>1. \A i \in 1..Len(queue) : queue[i].here => phase[queue[i].by] = "live"
  BY DEF Linked
<1> HIDE DEF Task
<1>2. ASSUME queue' = queue, \A v \in Users : phase[v] = "live" => phase'[v] = "live"
      PROVE  Up
  BY <1>0, <1>1, <1>2 DEF Task
<1>3. ASSUME NEW u \in Users, NEW here \in BOOLEAN, NEW m, UNCHANGED phase,
             here => phase[u] = "live", [by |-> u, here |-> here, msg |-> m] \in Task,
             queue' = Append(queue, [by |-> u, here |-> here, msg |-> m])
      PROVE  Up
  <2> DEFINE t == [by |-> u, here |-> here, msg |-> m]
  <2>1. t.here = here /\ t.by = u /\ t \in Task /\ queue' = Append(queue, t)
    BY <1>3
  <2> HIDE DEF t
  <2>2. /\ Len(queue') = Len(queue) + 1 /\ Len(queue) \in Nat
        /\ \A i \in 1..Len(queue) : queue'[i] = queue[i]
        /\ queue'[Len(queue) + 1] = t
    BY <1>0, <2>1, AppendFacts
  <2> QED BY <1>1, <1>3, <2>1, <2>2
<1>4. ASSUME NEW u \in Users, Player(u) \/ Transport(u) \/ Server(u) PROVE Up
  <2>1. CASE Type(u) \/ Vote(u) \/ Open(u) \/ SendHello(u) \/ Receive(u) \/ LoseFrame(u)
             \/ Handshake(u) \/ Welcome(u) \/ MembersUnreadable(u)
    <3>1. queue' = queue
      BY <2>1 DEF Type, Vote, Open, SendHello, Receive, LoseFrame, Handshake, Welcome,
                  MembersUnreadable
    <3>2. \/ phase' = phase
          \/ phase[u] # "live" /\ \E p : phase' = [phase EXCEPT ![u] = p]
      BY <2>1 DEF Type, Vote, Open, SendHello, Receive, LoseFrame, Handshake, Welcome,
                  MembersUnreadable
    <3> QED BY <1>0, <1>2, <3>1, <3>2
  <2>2. CASE Drop(u)
    <3>1. /\ queue' = [i \in DOMAIN queue |-> [queue[i] EXCEPT !.here = @ /\ queue[i].by # u]]
          /\ phase' = [phase EXCEPT ![u] = "none"]
      BY <2>2 DEF Drop
    <3>2. DOMAIN queue = 1..Len(queue) /\ Len(queue) \in Nat
      BY <1>0
    <3>3. Len(queue') = Len(queue)
      BY <3>1, <3>2
    <3>4. ASSUME NEW i \in 1..Len(queue'), queue'[i].here PROVE phase'[queue'[i].by] = "live"
      <4>1. /\ i \in 1..Len(queue) /\ queue[i] \in Task
            /\ queue'[i] = [queue[i] EXCEPT !.here = queue[i].here /\ queue[i].by # u]
        BY <1>0, <3>1, <3>2, <3>3
      <4>2. queue'[i].by = queue[i].by /\ queue[i].by \in Users
        BY <4>1 DEF Task
      <4>3. queue[i].here /\ queue[i].by # u
        <5>1. queue'[i].here = (queue[i].here /\ queue[i].by # u)
          BY <4>1 DEF Task
        <5> QED BY <3>4, <5>1
      <4> QED BY <1>0, <1>1, <3>1, <4>1, <4>2, <4>3
    <3> QED BY <3>4
  <2>3. CASE HandleFrame(u)
    <3>1. CASE Head(up[u]) = RequestSync
      BY <1>2, <2>3, <3>1 DEF HandleFrame
    <3>2. CASE Head(up[u]) # RequestSync
      <4>1. queue' = Append(queue, [by |-> u, here |-> TRUE, msg |-> Head(up[u])])
            /\ phase[u] = "live" /\ UNCHANGED phase
        BY <2>3, <3>2 DEF HandleFrame
      <4>2. Head(up[u]) \in Sent
        <5>1. up[u] \in Seq(Upward) /\ up[u] # <<>>
          BY <2>3 DEF HandleFrame, TypeInv, UpTyped
        <5>2. Head(up[u]) \in Upward /\ 1 \in 1..Len(up[u]) /\ Head(up[u]) = up[u][1]
          BY <5>1, TailFacts
        <5>3. Head(up[u]) # Hello
          BY <4>1, <5>2 DEF TypeInv, Greeted
        <5> QED BY <3>2, <5>2, <5>3 DEF Upward
      <4>3. [by |-> u, here |-> TRUE, msg |-> Head(up[u])] \in Task
        BY <4>2 DEF Task
      <4> QED BY <1>3, <4>1, <4>3
    <3> QED BY <3>1, <3>2
  <2>4. CASE HandleLate(u)
    <3>1. CASE Head(late[u]) = Hello
      BY <1>2, <2>4, <3>1 DEF HandleLate
    <3>2. CASE Head(late[u]) # Hello
      <4>1. queue' = Append(queue, [by |-> u, here |-> FALSE, msg |-> Head(late[u])])
            /\ UNCHANGED phase /\ late[u] # <<>>
        BY <2>4, <3>2 DEF HandleLate, game
      <4>2. Head(late[u]) \in Sent
        BY <3>2, <4>1, TailFacts DEF TypeInv, UpTyped
      <4>3. [by |-> u, here |-> FALSE, msg |-> Head(late[u])] \in Task
        BY <4>2 DEF Task
      <4> QED BY <1>3, <4>1, <4>3
    <3> QED BY <3>1, <3>2
  <2> QED BY <1>4, <2>1, <2>2, <2>3, <2>4 DEF Player, Transport, Server
<1>5. ASSUME RunCommand PROVE Up
  <2>1. queue # <<>> /\ queue' = Tail(queue) /\ phase' = phase
    BY <1>5 DEF RunCommand
  <2>2. \A i \in 1..Len(queue') : queue'[i] = queue[i + 1] /\ i + 1 \in 1..Len(queue)
    BY <1>0, <2>1, TailFacts
  <2> QED BY <1>1, <2>1, <2>2
<1>6. ASSUME Flush \/ FlushTerminal \/ ExpireOpenVote PROVE Up
  BY <1>2, <1>6 DEF Flush, FlushTerminal, ExpireOpenVote
<1>7. ASSUME Crash PROVE Up
  <2>1. queue' = <<>>
    BY <1>7 DEF Crash
  <2> QED BY <2>1
<1> HIDE DEF Up
<1>8. Up
  BY <1>4, <1>5, <1>6, <1>7 DEF Next, Actor
<1> QED BY <1>8 DEF Up

LEMMA LinkedStays == ASSUME TypeInv, Linked, Next PROVE Linked'
<1>1. TypeInv' /\ Happens
  BY NextHappens
<1> QED BY <1>1, StaysLinked, StaysClosed, QueueStaysLinked DEF Linked

LEMMA InitLinked == Init => Linked
<1> SUFFICES ASSUME Init PROVE Linked
  OBVIOUS
<1>1. /\ phase = [u \in Users |-> "none"] /\ down = [u \in Users |-> <<>>] /\ queue = <<>>
      /\ client = [u \in Users |-> NewStore]
  BY DEF Init
<1>2. NewStore.sync = "connecting"
  BY DEF NewStore
<1> QED BY <1>1, <1>2 DEF Linked

\* A stuttering step keeps both.
LEMMA StutterIsLinked == TypeInv /\ Linked /\ UNCHANGED vars => TypeInv' /\ Linked'
  BY DEF vars, TypeInv, Linked, GameTyped, QueueTyped, SocketsTyped, UpTyped, DownTyped,
         ClientTyped, Greeted

LEMMA AlwaysLinked == Spec => [](TypeInv /\ Linked)
<1>1. Init => TypeInv /\ Linked
  BY InitTyped, InitLinked
<1>2. TypeInv /\ Linked /\ [Next]_vars => (TypeInv /\ Linked)'
  <2>1. TypeInv /\ Linked /\ Next => (TypeInv /\ Linked)'
    BY NextHappens, LinkedStays
  <2> QED BY <2>1, StutterIsLinked
<1> QED BY <1>1, <1>2, PTL DEF Spec

\* The type invariant of the room holds in every reachable state.
THEOREM TypeCorrect == Spec => []TypeOK
<1>1. TypeInv => TypeOK
  <2> SUFFICES ASSUME TypeInv PROVE TypeOK
    OBVIOUS
  <2>1. DOMAIN NewStore = {"sync", "view", "overlay", "welcomed"}
    BY DEF NewStore
  <2>2. ASSUME NEW u \in Users PROVE IsStore(client[u])
    <3>1. client[u] \in Stores
      BY DEF TypeInv, ClientTyped
    <3> QED BY <2>1, <3>1 DEF IsStore, Stores
  <2> QED BY <2>2 DEF TypeOK, TypeInv, GameTyped, SocketsTyped, ClientTyped
<1> QED BY <1>1, AlwaysLinked, PTL

-----------------------------------------------------------------------------
(* What is on its way to the players was answered, and what says the game   *)
(* is over is durable.                                                     *)

\* The command ids whose overlay entries a frame may clear.
Confirms(f) ==
    IF f.type = "cellSet" THEN {f.id}
    ELSE IF f.type \in SnapshotTypes THEN f.recent
    ELSE IF f.type = "error" /\ ~ f.fatal THEN {f.id} ELSE {}

Answers ==
    /\ Range(applied) \subseteq answered /\ Range(saved.applied) \subseteq answered
    /\ \A u \in Users : \A i \in 1..Len(down[u]) : Confirms(down[u][i]) \subseteq answered

Durable ==
    /\ saved.board.status = "completed" => board.status = "completed"
    /\ \A u \in Users : \A i \in 1..Len(down[u]) :
         down[u][i].type = "gameCompleted" => saved.board.status = "completed"

\* What a step may add to the frames on their way.
Fresh(f) ==
    \/ f \in {Closed, FatalFrame("UNAUTHORIZED")}
    \/ f \in Snapshots /\ f.recent \subseteq Range(applied)
    \/ f \in Errors /\ f.id \in answered'
    \/ /\ f \in Events /\ (f.type = "cellSet" => f.id \in answered')
       /\ f.type = "gameCompleted" => finishing /\ saved'.board = board

LEMMA LastOfRange ==
    ASSUME NEW A, NEW s \in Seq(A), NEW n \in Nat
    PROVE  Range(LastOf(s, n)) \subseteq Range(s)
<1>1. CASE Len(s) <= n
  BY <1>1 DEF LastOf
<1>2. CASE ~ (Len(s) <= n)
  <2> DEFINE m == Len(s) - n + 1
             t == SubSeq(s, m, Len(s))
  <2>1. LastOf(s, n) = t /\ m \in 1..Len(s) + 1 /\ Len(s) \in Nat
    BY <1>2 DEF LastOf
  <2>2. t \in Seq(A) /\ Len(t) = Len(s) - m + 1 /\ \A i \in 1..Len(t) : t[i] = s[m + i - 1]
    <3>1. Len(s) \in 0..Len(s) /\ m \in 1..Len(s) + 1 /\ Len(s) \in Nat
      BY <2>1
    <3> HIDE DEF m
    <3>2. Len(SubSeq(s, m, Len(s))) = IF m <= Len(s) THEN Len(s) - m + 1 ELSE 0
      BY <3>1
    <3>3. Len(t) = Len(s) - m + 1
      BY <3>1, <3>2
    <3>4. t \in Seq(A)
      BY <3>1
    <3>5. \A i \in 1..Len(t) : t[i] = s[m + i - 1]
      BY <3>1, <3>3
    <3> QED BY <3>3, <3>4, <3>5
  <2>3. \A i \in 1..Len(t) : m + i - 1 \in 1..Len(s)
    BY <2>1, <2>2
  <2> HIDE DEF t, m
  <2>4. DOMAIN t = 1..Len(t) /\ DOMAIN s = 1..Len(s)
    BY <2>2
  <2> QED BY <2>1, <2>2, <2>3, <2>4 DEF Range
<1> QED BY <1>1, <1>2

LEMMA AppendRange ==
    ASSUME NEW A, NEW s \in Seq(A), NEW x \in A
    PROVE  Range(Append(s, x)) = Range(s) \cup {x}
<1>1. /\ Len(Append(s, x)) = Len(s) + 1 /\ Len(s) \in Nat
      /\ DOMAIN s = 1..Len(s) /\ DOMAIN Append(s, x) = 1..(Len(s) + 1)
      /\ \A i \in 1..Len(s) : Append(s, x)[i] = s[i]
      /\ Append(s, x)[Len(s) + 1] = x
  OBVIOUS
<1>2. /\ \A i \in 1..(Len(s) + 1) : i \in 1..Len(s) \/ i = Len(s) + 1
      /\ \A i \in 1..Len(s) : i \in 1..(Len(s) + 1)
      /\ Len(s) + 1 \in 1..(Len(s) + 1)
  BY <1>1
<1> QED BY <1>1, <1>2 DEF Range

\* Every frame on its way after a step was on its way before, or is fresh.
LEMMA NewFrames ==
    ASSUME TypeInv, Happens, NEW v \in Users, NEW i \in 1..Len(down'[v])
    PROVE  (\E j \in 1..Len(down[v]) : down'[v][i] = down[v][j]) \/ Fresh(down'[v][i])
<1> DEFINE Was == \E j \in 1..Len(down[v]) : down'[v][i] = down[v][j]
           Good == Was \/ Fresh(down'[v][i])
<1>0. down[v] \in Seq(Downward)
  BY DEF TypeInv, DownTyped
<1>1. ASSUME NEW f \in Downward, down'[v] = Append(down[v], f), Fresh(f) PROVE Good
  <2>1. /\ Len(down'[v]) = Len(down[v]) + 1 /\ Len(down[v]) \in Nat
        /\ \A j \in 1..Len(down[v]) : down'[v][j] = down[v][j]
        /\ down'[v][Len(down[v]) + 1] = f
    BY <1>0, <1>1, AppendFacts
  <2>2. i \in 1..Len(down[v]) \/ i = Len(down[v]) + 1
    BY <2>1
  <2> QED BY <1>1, <2>1, <2>2
<1>2. ASSUME NEW es \in Seq(Events), Heard(es), \A k \in 1..Len(es) : Fresh(es[k]) PROVE Good
  <2>1. CASE v \notin Attached
    BY <1>2, <2>1 DEF Heard
  <2>2. CASE v \in Attached
    <3>1. down'[v] = down[v] \o es
      BY <1>2, <2>2 DEF Heard
    <3>2. es \in Seq(Downward)
      <4>1. Events \subseteq Downward
        BY DEF Downward
      <4> QED BY <4>1, SeqGrows
    <3>3. \/ i \in 1..Len(down[v]) /\ down'[v][i] = down[v][i]
          \/ i - Len(down[v]) \in 1..Len(es) /\ down'[v][i] = es[i - Len(down[v])]
      BY <1>0, <3>1, <3>2, ConcatFacts
    <3> QED BY <1>2, <3>3
  <2> QED BY <2>1, <2>2
<1>3. ASSUME Heard(<<>>) PROVE Good
  <2>1. <<>> \in Seq(Events) /\ Len(<<>>) = 0 /\ 1..0 = {}
    OBVIOUS
  <2> QED BY <1>2, <1>3, <2>1
<1>4. ASSUME OneMoves(v) PROVE Good
  <2>1. ASSUME down'[v] = down[v] PROVE Good
    BY <2>1
  <2>2. ASSUME down[v] # <<>>, down'[v] = Tail(down[v]) PROVE Good
    BY <1>0, <2>2, TailFacts
  <2>3. ASSUME Leaves(v) PROVE Good
    BY <2>3 DEF Leaves, Fresh
  <2>4. ASSUME IsWelcomed(v) PROVE Good
    <3>1. PICK type \in SnapshotTypes : down'[v] = Append(down[v], SnapshotFrame(type))
      BY <2>4 DEF IsWelcomed
    <3>2. SnapshotFrame(type) \in Snapshots /\ SnapshotFrame(type) \in Downward
      BY SnapshotTyped DEF Downward
    <3>3. SnapshotFrame(type).recent \subseteq Range(applied)
      <4>1. applied \in Seq(CommandIds) /\ RecentLimit \in Nat
        BY RoomAssumption DEF TypeInv, GameTyped
      <4> QED BY <4>1, LastOfRange DEF SnapshotFrame, Recent
    <3> QED BY <1>1, <3>1, <3>2, <3>3 DEF Fresh
  <2>5. ASSUME IsRefused(v) PROVE Good
    BY <1>1, <2>5 DEF IsRefused, Fresh, Downward
  <2> HIDE DEF Good
  <2> QED BY <1>4, <2>1, <2>2, <2>3, <2>4, <2>5
          DEF OneMoves, Idle, Reads, Loses, Attaches, GoesUnanswered
<1>5. ASSUME NEW id, NEW es, NEW told, Took(id, es, told), Heard(told) PROVE Good
  <2>1. told \in Seq(Events) /\ \A k \in 1..Len(told) : told[k] \in Events
    BY <1>5 DEF Took
  <2>2. \A k \in 1..Len(told) : /\ told[k].type = "cellSet" => told[k].id \in answered'
                                /\ told[k].type # "gameCompleted"
    BY <1>5 DEF Took
  <2> QED BY <1>2, <1>5, <2>1, <2>2 DEF Fresh
<1>6. ASSUME finishing, saved' = [board |-> board, applied |-> applied],
             Heard(<< GameCompleted(board.seq) >>)
      PROVE  Good
  <2> DEFINE es == << GameCompleted(board.seq) >>
  <2>1. GameCompleted(board.seq) \in Events /\ GameCompleted(board.seq).type = "gameCompleted"
    BY DEF GameCompleted, Events, TypeInv, GameTyped, Boards
  <2>2. es \in Seq(Events) /\ \A k \in 1..Len(es) : es[k] = GameCompleted(board.seq)
    BY <2>1
  <2>3. saved'.board = board
    BY <1>6
  <2> HIDE DEF es
  <2>4. \A k \in 1..Len(es) : Fresh(es[k])
    BY <1>6, <2>1, <2>2, <2>3 DEF Fresh
  <2> QED BY <1>2, <1>6, <2>2, <2>4 DEF es
<1>7. ASSUME NEW es \in Seq(Events), Heard(es),
             \A k \in 1..Len(es) : es[k].type \notin {"cellSet", "gameCompleted"}
      PROVE  Good
  <2>1. \A k \in 1..Len(es) : es[k] \in Events
    OBVIOUS
  <2> QED BY <1>2, <1>7, <2>1 DEF Fresh
<1>8. ASSUME Leaves(v) PROVE Good
  BY <1>4, <1>8 DEF OneMoves
<1> HIDE DEF Good
<1>9. Good
  BY <1>3, <1>4, <1>5, <1>6, <1>7, <1>8 DEF Happens
<1> QED BY <1>9 DEF Good

\* A frame no one knows the sender of clears nothing that was not answered.
LEMMA FreshConfirms ==
    ASSUME NEW f, Fresh(f), Range(applied) \subseteq answered'
    PROVE  Confirms(f) \subseteq answered'
<1>1. f = Closed => Confirms(f) = {}
  BY DEF Closed, Confirms, SnapshotTypes
<1>2. f = FatalFrame("UNAUTHORIZED") => Confirms(f) = {}
  BY DEF FatalFrame, Confirms, SnapshotTypes
<1>3. f \in Snapshots => Confirms(f) = f.recent
  BY DEF Snapshots, Confirms, SnapshotTypes
<1>4. f \in Errors => Confirms(f) = {f.id}
  BY DEF Errors, Confirms, SnapshotTypes
<1>5. f \in Events => Confirms(f) = IF f.type = "cellSet" THEN {f.id} ELSE {}
  <2>1. f \in Events => f.type \notin SnapshotTypes /\ f.type # "error"
    BY DEF Events, SnapshotTypes
  <2> QED BY <2>1 DEF Confirms
<1> QED BY <1>1, <1>2, <1>3, <1>4, <1>5 DEF Fresh

\* What a step does to the ids: the answered only grow, and hold the applied.
LEMMA IdsStay ==
    ASSUME TypeInv, Happens, Range(applied) \subseteq answered, Range(saved.applied) \subseteq answered
    PROVE  /\ answered \subseteq answered' /\ Range(applied') \subseteq answered'
           /\ Range(saved'.applied) \subseteq answered'
<1>0. /\ applied \in Seq(CommandIds) /\ saved.applied \in Seq(CommandIds) /\ RecentLimit \in Nat
  BY RoomAssumption DEF TypeInv, GameTyped
<1>1. ASSUME SameGame, answered \subseteq answered'
      PROVE  /\ answered \subseteq answered' /\ Range(applied') \subseteq answered'
             /\ Range(saved'.applied) \subseteq answered'
  BY <1>1 DEF SameGame
<1>2. ASSUME NEW id, NEW es, NEW told, Took(id, es, told), saved' = saved
      PROVE  /\ answered \subseteq answered' /\ Range(applied') \subseteq answered'
             /\ Range(saved'.applied) \subseteq answered'
  <2>1. id \in CommandIds /\ applied' = Append(applied, id) /\ answered' = answered \cup {id}
    BY <1>2 DEF Took
  <2>2. Range(applied') = Range(applied) \cup {id}
    BY <1>0, <2>1, AppendRange
  <2> QED BY <1>2, <2>1, <2>2
<1>3. ASSUME applied' = applied, answered' = answered,
             saved' = saved \/ saved' = [board |-> board, applied |-> applied]
      PROVE  /\ answered \subseteq answered' /\ Range(applied') \subseteq answered'
             /\ Range(saved'.applied) \subseteq answered'
  BY <1>3
<1>4. ASSUME applied' = LastOf(saved.applied, RecentLimit), UNCHANGED <<saved, answered>>
      PROVE  /\ answered \subseteq answered' /\ Range(applied') \subseteq answered'
             /\ Range(saved'.applied) \subseteq answered'
  BY <1>0, <1>4, LastOfRange
<1> QED BY <1>1, <1>2, <1>3, <1>4 DEF Happens

LEMMA AnswersStays == ASSUME TypeInv, Happens, Answers PROVE Answers'
<1>1. /\ answered \subseteq answered' /\ Range(applied') \subseteq answered'
      /\ Range(saved'.applied) \subseteq answered' /\ Range(applied) \subseteq answered'
  BY IdsStay DEF Answers
<1>2. ASSUME NEW u \in Users, NEW i \in 1..Len(down'[u])
      PROVE  Confirms(down'[u][i]) \subseteq answered'
  BY <1>1, <1>2, NewFrames, FreshConfirms DEF Answers
<1> QED BY <1>1, <1>2 DEF Answers

LEMMA DurableStays == ASSUME TypeInv, Happens, Durable PROVE Durable'
<1>0. finishing => board.status = "completed"
  BY DEF TypeInv, GameTyped
<1>1. /\ saved.board.status = "completed" => saved'.board.status = "completed"
      /\ saved'.board.status = "completed" => board'.status = "completed"
  BY DEF Happens, Took, SameGame, Durable
<1>2. ASSUME NEW u \in Users, NEW i \in 1..Len(down'[u]), down'[u][i].type = "gameCompleted"
      PROVE  saved'.board.status = "completed"
  <2>1. (\E j \in 1..Len(down[u]) : down'[u][i] = down[u][j]) \/ Fresh(down'[u][i])
    BY <1>2, NewFrames
  <2>2. Fresh(down'[u][i]) => finishing /\ saved'.board = board
    <3>1. Closed.type # "gameCompleted" /\ FatalFrame("UNAUTHORIZED").type # "gameCompleted"
      BY DEF Closed, FatalFrame
    <3>2. \A f \in Snapshots \cup Errors : f.type # "gameCompleted"
      BY DEF Snapshots, Errors, SnapshotTypes
    <3> QED BY <1>2, <3>1, <3>2 DEF Fresh
  <2> QED BY <1>0, <1>1, <1>2, <2>1, <2>2 DEF Durable
<1> QED BY <1>1, <1>2 DEF Durable

LEMMA AlwaysAnswers == Spec => [](TypeInv /\ Linked /\ Answers /\ Durable)
<1>1. Init => Answers /\ Durable
  <2> SUFFICES ASSUME Init PROVE Answers /\ Durable
    OBVIOUS
  <2>1. /\ applied = <<>> /\ saved = [board |-> EmptyBoard, applied |-> <<>>]
        /\ down = [u \in Users |-> <<>>] /\ board = EmptyBoard
    BY DEF Init
  <2>2. Range(<<>>) = {}
    BY DEF Range
  <2>3. \A u \in Users : 1..Len(down[u]) = {}
    BY <2>1
  <2> QED BY <2>1, <2>2, <2>3 DEF Answers, Durable
<1>2. TypeInv /\ Linked /\ Answers /\ Durable /\ Next => Answers' /\ Durable'
  BY NextHappens, AnswersStays, DurableStays
<1>3. Answers /\ Durable /\ UNCHANGED vars => Answers' /\ Durable'
  BY DEF vars, Answers, Durable
<1> QED BY <1>1, <1>2, <1>3, AlwaysLinked, PTL DEF Spec

\* gameCompleted is on its way only when the completed board is in the durable row
\* (INV-3): no crash after it can bring back an unfinished game.
THEOREM CompletionsAreDurable == Spec => []CompletionIsDurable
<1>1. TypeInv /\ Durable => CompletionIsDurable
  <2> SUFFICES ASSUME TypeInv, Durable PROVE CompletionIsDurable
    OBVIOUS
  <2>1. \A u \in Users : DOMAIN down[u] = 1..Len(down[u])
    BY DEF TypeInv, DownTyped
  <2> QED BY <2>1 DEF Durable, CompletionIsDurable
<1> QED BY <1>1, AlwaysAnswers, PTL

-----------------------------------------------------------------------------
(* What clears an overlay entry.                                           *)

LEMMA ReceivedKeeps ==
    ASSUME NEW s \in Stores, NEW f \in Downward, NEW i \in DOMAIN s.overlay
    PROVE  s.overlay[i] \in Range(Received(s, f).overlay) \/ s.overlay[i].id \in Confirms(f)
<1>1. s.overlay \in Seq(CellCommands) /\ s.overlay[i] \in Range(s.overlay)
  BY DEF Stores, Range
<1>2. CASE f \in Events /\ f.type \in EventTypes
  <2>1. Received(s, f) = ApplySequenced(s, f)
    BY <1>2, ReceivedIs
  <2>2. \/ Received(s, f).overlay = s.overlay
        \/ f.type = "cellSet" /\ Received(s, f).overlay = Without(s.overlay, {f.id})
    BY <2>1 DEF ApplySequenced, Apply, Forget, Stores
  <2>3. f.type = "cellSet" => Confirms(f) = {f.id}
    BY DEF Confirms
  <2> QED BY <1>1, <2>2, <2>3, WithoutFacts
<1>3. CASE f \in Snapshots /\ f.type \in SnapshotTypes
  <2>1. Received(s, f) = ApplySnapshot(s, f)
    BY <1>3, ReceivedIs
  <2>2. Received(s, f).overlay = Without(s.overlay, f.recent)
    BY <2>1 DEF ApplySnapshot, Stores
  <2>3. Confirms(f) = f.recent
    BY <1>3 DEF Confirms, SnapshotTypes
  <2> QED BY <1>1, <2>2, <2>3, WithoutFacts
<1>4. CASE f.type = "error"
  <2>1. Received(s, f) = ApplyError(s, f)
    BY <1>4, ReceivedIs
  <2>2. \/ Received(s, f).overlay = s.overlay
        \/ ~ f.fatal /\ Received(s, f).overlay = Without(s.overlay, {f.id})
    BY <2>1 DEF ApplyError, Forget, Stores
  <2>3. ~ f.fatal => Confirms(f) = {f.id}
    BY <1>4 DEF Confirms, SnapshotTypes
  <2> QED BY <1>1, <2>2, <2>3, WithoutFacts
<1>5. CASE f = Closed
  <2>1. Received(s, f) = ConnectionLost(s)
    BY <1>5, ReceivedIs
  <2>2. Received(s, f).overlay = s.overlay
    BY <2>1 DEF ConnectionLost, Stores
  <2> QED BY <1>1, <2>2
<1> QED BY <1>2, <1>3, <1>4, <1>5, FrameKinds

\* A store's overlay changes by the player typing or by a frame that arrives.
LEMMA OverlayMoves ==
    ASSUME TypeInv, [Next]_vars, NEW v \in Users
    PROVE  \/ client'[v].overlay = client[v].overlay
           \/ \E cmd \in CellCommands : client'[v].overlay = Append(client[v].overlay, cmd)
           \/ down[v] # <<>> /\ client'[v] = Received(client[v], Head(down[v]))
<1> DEFINE Good == \/ client'[v].overlay = client[v].overlay
                   \/ \E cmd \in CellCommands : client'[v].overlay = Append(client[v].overlay, cmd)
                   \/ down[v] # <<>> /\ client'[v] = Received(client[v], Head(down[v]))
<1>0. client \in [Users -> Stores] /\ client[v] \in Stores
  BY DEF TypeInv, ClientTyped
<1>1. ASSUME NEW u \in Users, Type(u) PROVE Good
  <2>1. PICK cmd \in CellCommands : client' = [client EXCEPT ![u].overlay = Append(@, cmd)]
    BY <1>1 DEF Type
  <2> QED BY <1>0, <2>1 DEF Stores
<1>2. ASSUME NEW u \in Users, Receive(u) PROVE Good
  BY <1>0, <1>2 DEF Receive
<1>3. ASSUME NEW u \in Users, Drop(u) PROVE Good
  <2>1. client' = [client EXCEPT ![u] = ConnectionLost(@)]
    BY <1>3 DEF Drop
  <2>2. ConnectionLost(client[v]).overlay = client[v].overlay
    BY <1>0 DEF ConnectionLost, Stores
  <2>3. client'[v] = client[v] \/ client'[v] = ConnectionLost(client[v])
    BY <1>0, <2>1
  <2> QED BY <2>2, <2>3
<1>4. ASSUME client' = client PROVE Good
  BY <1>4
<1>5. \/ client' = client \/ \E u \in Users : Type(u) \/ Receive(u) \/ Drop(u)
  BY DEF Next, Player, Transport, Server, Actor, vars, Vote, Open, SendHello,
         LoseFrame, Handshake, Welcome, HandleFrame, HandleLate, MembersUnreadable,
         RunCommand, Flush, FlushTerminal, ExpireOpenVote, Crash
<1> HIDE DEF Good
<1>6. Good
  BY <1>1, <1>2, <1>3, <1>4, <1>5
<1> QED BY <1>6 DEF Good

\* INV-10, never silently: whatever the network, the service and the players do, an
\* entry leaves a player's overlay only when the server has applied its command or
\* refused it.
THEOREM EntriesNeverVanish == Spec => NothingVanishes
<1> DEFINE Step == \A u \in Users : \A i \in DOMAIN client[u].overlay :
                      LET entry == client[u].overlay[i]
                      IN  entry \in Range(client'[u].overlay) \/ entry.id \in answered
<1>1. TypeInv /\ Answers /\ [Next]_vars => Step
  <2> SUFFICES ASSUME TypeInv, Answers, [Next]_vars, NEW u \in Users,
                      NEW i \in DOMAIN client[u].overlay
               PROVE  \/ client[u].overlay[i] \in Range(client'[u].overlay)
                      \/ client[u].overlay[i].id \in answered
    OBVIOUS
  <2>1. client[u] \in Stores /\ client[u].overlay \in Seq(CellCommands)
        /\ down[u] \in Seq(Downward)
    BY DEF TypeInv, ClientTyped, DownTyped, Stores
  <2>2. client[u].overlay[i] \in Range(client[u].overlay)
    BY DEF Range
  <2>3. ASSUME NEW cmd \in CellCommands, client'[u].overlay = Append(client[u].overlay, cmd)
        PROVE  client[u].overlay[i] \in Range(client'[u].overlay)
    BY <2>1, <2>2, <2>3, AppendRange
  <2>4. ASSUME down[u] # <<>>, client'[u] = Received(client[u], Head(down[u]))
        PROVE  \/ client[u].overlay[i] \in Range(client'[u].overlay)
               \/ client[u].overlay[i].id \in answered
    <3>1. Head(down[u]) = down[u][1] /\ 1 \in 1..Len(down[u]) /\ Head(down[u]) \in Downward
      BY <2>1, <2>4, TailFacts
    <3>2. Confirms(Head(down[u])) \subseteq answered
      BY <3>1 DEF Answers
    <3> QED BY <2>1, <2>4, <3>1, <3>2, ReceivedKeeps
  <2> QED BY <2>2, <2>3, <2>4, OverlayMoves
<1> HIDE DEF Step
<1>2. TypeInv /\ Answers /\ [Next]_vars => [Step]_vars
  BY <1>1
<1>3. Spec => [][Step]_vars
  BY <1>2, AlwaysAnswers, PTL DEF Spec
<1> QED BY <1>3, PTL DEF NothingVanishes, Step

-----------------------------------------------------------------------------
(* Commands applied again.                                                 *)

\* An id comes back in s only after more than RecentLimit others.
Spaced(s) ==
    \A i, j \in 1..Len(s) : i < j /\ j <= i + RecentLimit => s[i] # s[j]

LEMMA AppendSpaced ==
    ASSUME NEW s \in Seq(CommandIds), Spaced(s), NEW id \in CommandIds,
           id \notin Range(LastOf(s, RecentLimit))
    PROVE  Spaced(Append(s, id))
<1> DEFINE t == Append(s, id)
           n == Len(s)
<1>0. n \in Nat /\ RecentLimit \in Nat \ {0}
  BY RoomAssumption
<1>1. /\ t \in Seq(CommandIds) /\ Len(t) = n + 1 /\ t[n + 1] = id
      /\ \A i \in 1..n : t[i] = s[i]
  BY AppendFacts
<1>2. ASSUME NEW i \in 1..n, n + 1 <= i + RecentLimit PROVE s[i] # id
  <2>1. CASE n <= RecentLimit
    <3>1. LastOf(s, RecentLimit) = s /\ s[i] \in Range(s)
      BY <1>0, <2>1 DEF LastOf, Range
    <3> QED BY <3>1
  <2>2. CASE ~ (n <= RecentLimit)
    <3> DEFINE m == n - RecentLimit + 1
               w == SubSeq(s, m, n)
    <3>1. LastOf(s, RecentLimit) = w /\ m \in 1..n
      BY <1>0, <2>2 DEF LastOf
    <3>2. w \in Seq(CommandIds) /\ Len(w) = n - m + 1 /\ \A k \in 1..Len(w) : w[k] = s[m + k - 1]
      BY <1>0, <3>1
    <3>3. i - m + 1 \in 1..Len(w) /\ m + (i - m + 1) - 1 = i
      BY <1>0, <1>2, <3>1, <3>2
    <3> HIDE DEF w, m
    <3>4. w[i - m + 1] = s[i] /\ DOMAIN w = 1..Len(w)
      BY <3>2, <3>3
    <3>5. s[i] \in Range(w)
      BY <3>3, <3>4 DEF Range
    <3> QED BY <3>1, <3>5
  <2> QED BY <2>1, <2>2
<1> HIDE DEF t, n
<1>3. ASSUME NEW i \in 1..Len(t), NEW j \in 1..Len(t), i < j, j <= i + RecentLimit
      PROVE  t[i] # t[j]
  <2>1. i \in 1..n /\ (j \in 1..n \/ j = n + 1)
    BY <1>0, <1>1, <1>3
  <2>2. CASE j \in 1..n
    BY <1>1, <1>3, <2>1, <2>2 DEF Spaced, n
  <2>3. CASE j = n + 1
    BY <1>1, <1>2, <1>3, <2>1, <2>3
  <2> QED BY <2>1, <2>2, <2>3
<1> QED BY <1>3 DEF Spaced, t

LEMMA LastOfSpaced ==
    ASSUME NEW s \in Seq(CommandIds), Spaced(s)
    PROVE  Spaced(LastOf(s, RecentLimit))
<1>0. Len(s) \in Nat /\ RecentLimit \in Nat \ {0}
  BY RoomAssumption
<1>1. CASE Len(s) <= RecentLimit
  BY <1>1 DEF LastOf
<1>2. CASE ~ (Len(s) <= RecentLimit)
  <2> DEFINE m == Len(s) - RecentLimit + 1
             w == SubSeq(s, m, Len(s))
  <2>1. LastOf(s, RecentLimit) = w /\ m \in 1..Len(s)
    BY <1>0, <1>2 DEF LastOf
  <2>2. Len(w) = Len(s) - m + 1 /\ \A k \in 1..Len(w) : w[k] = s[m + k - 1]
    BY <1>0, <2>1
  <2> HIDE DEF w, m
  <2>3. ASSUME NEW i \in 1..Len(w), NEW j \in 1..Len(w), i < j, j <= i + RecentLimit
        PROVE  w[i] # w[j]
    <3> DEFINE a == m + i - 1
               b == m + j - 1
    <3>1. a \in 1..Len(s) /\ b \in 1..Len(s) /\ a < b /\ b <= a + RecentLimit
      BY <1>0, <2>1, <2>2, <2>3
    <3>2. w[i] = s[a] /\ w[j] = s[b]
      BY <2>2
    <3> HIDE DEF a, b
    <3> QED BY <3>1, <3>2 DEF Spaced
  <2> QED BY <2>1, <2>3 DEF Spaced
<1> QED BY <1>1, <1>2

LEMMA SpacedStays ==
    ASSUME TypeInv, Happens, Spaced(applied), Spaced(saved.applied)
    PROVE  Spaced(applied') /\ Spaced(saved'.applied)
<1>0. applied \in Seq(CommandIds) /\ saved.applied \in Seq(CommandIds)
  BY DEF TypeInv, GameTyped
<1>1. ASSUME NEW id, NEW es, NEW told, Took(id, es, told) PROVE Spaced(applied')
  BY <1>0, <1>1, AppendSpaced DEF Took, Recent
<1>2. ASSUME applied' = LastOf(saved.applied, RecentLimit) PROVE Spaced(applied')
  BY <1>0, <1>2, LastOfSpaced
<1>3. saved' = saved \/ saved' = [board |-> board, applied |-> applied]
  BY DEF Happens, SameGame
<1>4. \/ applied' = applied \/ (\E id, es, told : Took(id, es, told))
      \/ applied' = LastOf(saved.applied, RecentLimit)
  BY DEF Happens, SameGame
<1>5. saved'.applied = saved.applied \/ saved'.applied = applied
  BY <1>3
<1>6. Spaced(saved'.applied)
  BY <1>5
<1>7. Spaced(applied')
  BY <1>1, <1>2, <1>4
<1> QED BY <1>6, <1>7

LEMMA AlwaysSpaced == Spec => [](TypeInv /\ Linked /\ Spaced(applied) /\ Spaced(saved.applied))
<1>1. Init => Spaced(applied) /\ Spaced(saved.applied)
  <2> SUFFICES ASSUME Init PROVE Spaced(applied) /\ Spaced(saved.applied)
    OBVIOUS
  <2>1. applied = <<>> /\ saved.applied = <<>>
    BY DEF Init
  <2>2. Spaced(<<>>)
    BY DEF Spaced
  <2> QED BY <2>1, <2>2
<1> DEFINE All == TypeInv /\ Linked /\ Spaced(applied) /\ Spaced(saved.applied)
<1>2. All /\ Next => (Spaced(applied) /\ Spaced(saved.applied))'
  <2> SUFFICES ASSUME All, Next PROVE Spaced(applied') /\ Spaced(saved'.applied)
    BY DEF Spaced
  <2> QED BY NextHappens, SpacedStays
<1>3. All /\ UNCHANGED vars => (Spaced(applied) /\ Spaced(saved.applied))'
  <2> SUFFICES ASSUME All, UNCHANGED vars PROVE Spaced(applied') /\ Spaced(saved'.applied)
    BY DEF Spaced
  <2> QED BY DEF vars
<1> QED BY <1>1, <1>2, <1>3, AlwaysLinked, PTL DEF Spec

\* However often reconciliation sends a command again, and whatever kills take back,
\* the game does not apply it again before it has applied RecentLimit others.
THEOREM NothingReturnsSoon == Spec => []NotAppliedAgainSoon
<1>1. TypeInv /\ Spaced(applied) => NotAppliedAgainSoon
  <2> SUFFICES ASSUME TypeInv, Spaced(applied), NEW i \in DOMAIN applied, NEW j \in DOMAIN applied,
                      i < j, applied[i] = applied[j]
               PROVE  j - i > RecentLimit
    BY DEF NotAppliedAgainSoon
  <2>1. applied \in Seq(CommandIds) /\ RecentLimit \in Nat
    BY RoomAssumption DEF TypeInv, GameTyped
  <2>2. i \in 1..Len(applied) /\ j \in 1..Len(applied) /\ i \in Nat /\ j \in Nat
    BY <2>1
  <2>3. ~ (j <= i + RecentLimit)
    BY <2>2 DEF Spaced
  <2> QED BY <2>1, <2>2, <2>3
<1> QED BY <1>1, AlwaysSpaced, PTL

-----------------------------------------------------------------------------
(* Convergence.  The views the game has gone through, by seq: what is on    *)
(* its way to a player steps through them, up to the last one told.        *)

\* The frames q after place n: every event is the step between two views of h, every
\* snapshot is one of them.
Genuine(h, q, n, top, last) ==
    /\ \A i \in (n + 1)..Len(q) : q[i] \in Events =>
         q[i].seq \in 1..top /\ h[q[i].seq] = ApplyEvent(h[q[i].seq - 1], q[i])
    /\ \A i \in (n + 1)..Len(q) : q[i] \in Snapshots =>
         q[i].board.seq <= last /\ q[i].board = h[q[i].board.seq]

\* A live store holds one of the views.
OnTrack(h, s, last) == s.sync = "live" => s.view.seq <= last /\ s.view = h[s.view.seq]

\* The event with this seq comes after place n.
Comes(q, n, seq) == \E j \in (n + 1)..Len(q) : q[j] \in Events /\ q[j].seq = seq

\* All that a live store has not seen is on its way, and so is all that follows a snapshot.
Unbroken(s, q, n, top) ==
    /\ s.sync = "live" => \A m \in (s.view.seq + 1)..top : Comes(q, n, m)
    /\ \A i \in (n + 1)..Len(q) : q[i] \in Snapshots =>
         \A m \in (q[i].board.seq + 1)..top : Comes(q, i, m)

Follows(h, s, q, n, top, last, lost) ==
    Genuine(h, q, n, top, last) /\ OnTrack(h, s, last) /\ (lost = 0 => Unbroken(s, q, n, top))

\* Taking in the next frame.
LEMMA FollowsNext ==
    ASSUME NEW h, NEW s \in Stores, NEW q \in Seq(Downward), NEW n \in Nat, n + 1 \in 1..Len(q),
           NEW top \in Nat, NEW last \in Nat, NEW lost, top <= last,
           Follows(h, s, q, n, top, last, lost)
    PROVE  Follows(h, Received(s, q[n + 1]), q, n + 1, top, last, lost)
<1> DEFINE f == q[n + 1]
           r == Received(s, f)
           k == n + 1
<1>0. /\ f \in Downward /\ Len(q) \in Nat /\ k \in Nat /\ r \in Stores
      /\ \A i \in (k + 1)..Len(q) : i \in (n + 1)..Len(q)
      /\ \A i \in (n + 1)..Len(q) : i = k \/ i \in (k + 1)..Len(q)
      /\ k \in (n + 1)..Len(q)
  <2>1. f \in Downward
    OBVIOUS
  <2> HIDE DEF f
  <2>2. r \in Stores
    BY <2>1, ReceivedTyped
  <2> QED BY <2>1, <2>2
<1>0a. /\ s.view \in Views /\ s.view.seq \in Nat
       /\ f \in Events => f.seq \in Nat /\ f \notin Snapshots
       /\ f \in Snapshots => f.board.seq \in Nat
  BY <1>0 DEF Stores, Views, Events, Snapshots, SnapshotTypes
<1>1. Genuine(h, q, n, top, last) /\ OnTrack(h, s, last) /\ (lost = 0 => Unbroken(s, q, n, top))
  BY DEF Follows
<1> HIDE DEF k
<1>2. Genuine(h, q, k, top, last)
  BY <1>0, <1>1 DEF Genuine
<1>2a. /\ f \in Events => f.seq \in 1..top /\ h[f.seq] = ApplyEvent(h[f.seq - 1], f)
       /\ f \in Snapshots => f.board.seq <= last /\ f.board = h[f.board.seq]
       /\ lost = 0 /\ f \in Snapshots => \A m \in (f.board.seq + 1)..top : Comes(q, k, m)
  BY <1>0, <1>1 DEF Genuine, Unbroken, k
<1>2b. ASSUME NEW m \in Nat, Comes(q, n, m), f \in Events => f.seq # m
       PROVE  Comes(q, k, m)
  BY <1>0, <1>2b DEF Comes, k
<1>2c. lost = 0 => \A i \in (k + 1)..Len(q) : q[i] \in Snapshots =>
                      \A m \in (q[i].board.seq + 1)..top : Comes(q, i, m)
  BY <1>0, <1>1 DEF Unbroken
<1>2d. ASSUME lost = 0, s.sync = "live" PROVE \A m \in (s.view.seq + 1)..top : Comes(q, n, m)
  BY <1>1, <1>2d DEF Unbroken
<1> HIDE DEF f, r
<1>3. ASSUME r.sync = s.sync, r.view = s.view, f \in Events => s.sync # "live" \/ f.seq <= s.view.seq
      PROVE  Follows(h, r, q, k, top, last, lost)
  <2>1. OnTrack(h, r, last)
    BY <1>1, <1>3 DEF OnTrack
  <2>2. ASSUME lost = 0, r.sync = "live", NEW m \in (r.view.seq + 1)..top PROVE Comes(q, k, m)
    <3>1. m \in (s.view.seq + 1)..top /\ m \in Nat /\ s.view.seq < m
      BY <1>0a, <1>3, <2>2
    <3>2. Comes(q, n, m)
      BY <1>2d, <1>3, <2>2, <3>1
    <3>3. f \in Events => f.seq # m
      BY <1>0a, <1>3, <2>2, <3>1
    <3> QED BY <1>2b, <3>1, <3>2, <3>3
  <2> QED BY <1>2, <1>2c, <2>1, <2>2 DEF Follows, Unbroken
<1>4. ASSUME r.sync # "live" PROVE Follows(h, r, q, k, top, last, lost)
  BY <1>2, <1>2c, <1>4 DEF Follows, Unbroken, OnTrack
<1>5. ASSUME f \in Events /\ f.type \in EventTypes
      PROVE  Follows(h, r, q, k, top, last, lost)
  <2>1. r = ApplySequenced(s, f)
    BY <1>5, ReceivedIs DEF r
  <2>2. CASE s.sync # "live" \/ f.seq <= s.view.seq
    <3>1. r = s
      BY <2>1, <2>2 DEF ApplySequenced
    <3> QED BY <1>3, <2>2, <3>1
  <2>3. CASE ~ (s.sync # "live" \/ f.seq <= s.view.seq) /\ f.seq > s.view.seq + 1
    <3>1. r = [s EXCEPT !.sync = "resyncing"]
      BY <2>1, <2>3 DEF ApplySequenced
    <3>2. r.sync # "live"
      BY <3>1 DEF Stores
    <3> QED BY <1>4, <3>2
  <2>4. CASE ~ (s.sync # "live" \/ f.seq <= s.view.seq) /\ ~ (f.seq > s.view.seq + 1)
    <3>1. r = Apply(s, f) /\ s.sync = "live" /\ f.seq = s.view.seq + 1
      BY <1>0a, <1>5, <2>1, <2>4 DEF ApplySequenced
    <3>2. r.view = ApplyEvent(s.view, f) /\ r.sync = "live"
      BY <3>1 DEF Apply, Stores
    <3>3. r.view.seq = f.seq
      BY <1>0a, <1>5, <3>2, ApplyEventTyped
    <3>4. s.view = h[f.seq - 1] /\ r.view = h[f.seq] /\ f.seq <= last
      <4>1. f.seq - 1 = s.view.seq
        BY <1>0a, <3>1
      <4>2. s.view = h[s.view.seq]
        BY <1>1, <3>1 DEF OnTrack
      <4>3. r.view = h[f.seq]
        BY <1>2a, <1>5, <3>2, <4>1, <4>2
      <4>4. f.seq <= last
        BY <1>2a, <1>5
      <4> QED BY <4>1, <4>2, <4>3, <4>4
    <3>5. OnTrack(h, r, last)
      BY <3>3, <3>4 DEF OnTrack
    <3>6. ASSUME lost = 0, NEW m \in (r.view.seq + 1)..top PROVE Comes(q, k, m)
      <4>1. m \in (s.view.seq + 1)..top /\ m \in Nat /\ f.seq # m
        BY <1>0a, <1>5, <3>1, <3>3, <3>6
      <4>2. Comes(q, n, m)
        BY <1>2d, <3>1, <3>6, <4>1
      <4> QED BY <1>2b, <4>1, <4>2
    <3> QED BY <1>2, <1>2c, <3>5, <3>6 DEF Follows, Unbroken
  <2> QED BY <2>2, <2>3, <2>4
<1>6. ASSUME f \in Snapshots /\ f.type \in SnapshotTypes
      PROVE  Follows(h, r, q, k, top, last, lost)
  <2>1. r = ApplySnapshot(s, f)
    BY <1>6, ReceivedIs DEF r
  <2>2. r.view = f.board /\ r.sync = "live"
    BY <2>1 DEF ApplySnapshot, Stores
  <2>3. OnTrack(h, r, last)
    BY <1>2a, <1>6, <2>2 DEF OnTrack
  <2> QED BY <1>2, <1>2a, <1>2c, <1>6, <2>2, <2>3 DEF Follows, Unbroken
<1>7. ASSUME f \in Errors /\ f.type = "error"
      PROVE  Follows(h, r, q, k, top, last, lost)
  <2>1. r = ApplyError(s, f) /\ f.fatal = FALSE /\ f \notin Events
    BY <1>7, ReceivedIs DEF r, Errors, Events
  <2>2. r.view = s.view /\ r.sync = s.sync
    BY <2>1 DEF ApplyError, Stores
  <2> QED BY <1>3, <2>1, <2>2
<1>8. ASSUME f = FatalFrame("UNAUTHORIZED") /\ f.type = "error" /\ f.fatal
      PROVE  Follows(h, r, q, k, top, last, lost)
  <2>1. r = ApplyError(s, f)
    BY <1>8, ReceivedIs DEF r
  <2>2. r.sync # "live"
    BY <1>8, <2>1 DEF ApplyError, Stores
  <2> QED BY <1>4, <2>2
<1>9. ASSUME f = Closed
      PROVE  Follows(h, r, q, k, top, last, lost)
  <2>1. r = ConnectionLost(s)
    BY <1>9, ReceivedIs DEF r
  <2>2. r.sync # "live"
    BY <2>1 DEF ConnectionLost, Stores
  <2> QED BY <1>4, <2>2
<1>10. Follows(h, r, q, k, top, last, lost)
  BY <1>0, <1>5, <1>6, <1>7, <1>8, <1>9, FrameKinds
<1> QED BY <1>10 DEF r, f, k

\* The frame taken in leaves the queue.
LEMMA FollowsTail ==
    ASSUME NEW h, NEW s, NEW q \in Seq(Downward), q # <<>>, NEW top, NEW last, NEW lost,
           Follows(h, s, q, 1, top, last, lost)
    PROVE  Follows(h, s, Tail(q), 0, top, last, lost)
<1> DEFINE t == Tail(q)
<1>1. /\ t \in Seq(Downward) /\ Len(t) = Len(q) - 1 /\ Len(q) \in Nat \ {0}
      /\ \A i \in 1..Len(t) : t[i] = q[i + 1]
  BY TailFacts
<1> HIDE DEF t
<1>2. /\ \A i \in (0 + 1)..Len(t) : i + 1 \in (1 + 1)..Len(q) /\ t[i] = q[i + 1]
      /\ \A n \in Nat : \A j \in ((n + 1) + 1)..Len(q) : j - 1 \in (n + 1)..Len(t) /\ t[j - 1] = q[j]
  BY <1>1
<1>3. ASSUME NEW n \in Nat, NEW m, Comes(q, n + 1, m) PROVE Comes(t, n, m)
  BY <1>2, <1>3 DEF Comes
<1>4. Genuine(h, q, 1, top, last) /\ OnTrack(h, s, last) /\ (lost = 0 => Unbroken(s, q, 1, top))
  BY DEF Follows
<1>5. Genuine(h, t, 0, top, last)
  BY <1>2, <1>4 DEF Genuine
<1>6. ASSUME lost = 0 PROVE Unbroken(s, t, 0, top)
  <2>1. Unbroken(s, q, 1, top)
    BY <1>4, <1>6
  <2>2. s.sync = "live" => \A m \in (s.view.seq + 1)..top : Comes(t, 0, m)
    <3>1. \A m : Comes(q, 0 + 1, m) => Comes(t, 0, m)
      BY <1>3
    <3>2. \A m : Comes(q, 1, m) => Comes(t, 0, m)
      BY <3>1
    <3> QED BY <2>1, <3>2 DEF Unbroken
  <2>3. ASSUME NEW i \in (0 + 1)..Len(t), t[i] \in Snapshots, NEW m \in (t[i].board.seq + 1)..top
        PROVE  Comes(t, i, m)
    <3>1. i \in Nat /\ i + 1 \in (1 + 1)..Len(q) /\ t[i] = q[i + 1]
      BY <1>2
    <3>2. Comes(q, i + 1, m)
      BY <2>1, <2>3, <3>1 DEF Unbroken
    <3> QED BY <1>3, <3>1, <3>2
  <2> QED BY <2>2, <2>3 DEF Unbroken
<1>7. Follows(h, s, t, 0, top, last, lost)
  BY <1>4, <1>5, <1>6 DEF Follows
<1> QED BY <1>7 DEF t

\* A frame that is not an event joins: if a snapshot, of the board as it is.
LEMMA FollowsAppend ==
    ASSUME NEW h, NEW s, NEW q \in Seq(Downward), NEW f \in Downward, f \notin Events,
           NEW top \in Nat, NEW last \in Nat, NEW lost, top <= last,
           f \in Snapshots => f.board.seq = last /\ f.board = h[last],
           Follows(h, s, q, 0, top, last, lost)
    PROVE  Follows(h, s, Append(q, f), 0, top, last, lost)
<1> DEFINE t == Append(q, f)
<1>1. /\ t \in Seq(Downward) /\ Len(t) = Len(q) + 1 /\ Len(q) \in Nat
      /\ \A i \in 1..Len(q) : t[i] = q[i]
      /\ t[Len(q) + 1] = f
  BY AppendFacts
<1> HIDE DEF t
<1>2. /\ \A i \in (0 + 1)..Len(t) : i \in (0 + 1)..Len(q) \/ i = Len(q) + 1
      /\ \A n \in Nat : \A i \in (n + 1)..Len(q) : i \in (n + 1)..Len(t) /\ t[i] = q[i]
      /\ \A i \in (0 + 1)..Len(q) : t[i] = q[i] /\ i \in Nat
  BY <1>1
<1>3. \A n \in Nat : \A m : Comes(q, n, m) => Comes(t, n, m)
  BY <1>2 DEF Comes
<1>4. Genuine(h, q, 0, top, last) /\ OnTrack(h, s, last) /\ (lost = 0 => Unbroken(s, q, 0, top))
  BY DEF Follows
<1>5. Genuine(h, t, 0, top, last)
  BY <1>1, <1>2, <1>4 DEF Genuine
<1>6. ASSUME lost = 0 PROVE Unbroken(s, t, 0, top)
  <2>1. f \in Snapshots => (f.board.seq + 1)..top = {}
    OBVIOUS
  <2>2. ASSUME NEW i \in (0 + 1)..Len(t), t[i] \in Snapshots, NEW m \in (t[i].board.seq + 1)..top
        PROVE  Comes(t, i, m)
    <3>1. CASE i = Len(q) + 1
      BY <1>1, <2>1, <2>2, <3>1
    <3>2. CASE i \in (0 + 1)..Len(q)
      <4>1. t[i] = q[i] /\ i \in Nat
        BY <1>2, <3>2
      <4>2. Comes(q, i, m)
        BY <1>4, <1>6, <2>2, <3>2, <4>1 DEF Unbroken
      <4> QED BY <1>3, <4>1, <4>2
    <3> QED BY <1>2, <3>1, <3>2
  <2>3. s.sync = "live" => \A m \in (s.view.seq + 1)..top : Comes(t, 0, m)
    BY <1>3, <1>4, <1>6 DEF Unbroken
  <2> QED BY <2>2, <2>3 DEF Unbroken
<1>7. Follows(h, s, t, 0, top, last, lost)
  BY <1>4, <1>5, <1>6 DEF Follows
<1> QED BY <1>7 DEF t

\* The events es are told: they lead on from the view at seq top.
LEMMA FollowsMore ==
    ASSUME NEW h, NEW g, NEW s \in Stores, NEW q \in Seq(Downward), NEW es \in Seq(Events),
           NEW top \in Nat, NEW last \in Nat, NEW end \in Nat, NEW lost,
           top <= last, last <= end, top + Len(es) <= end,
           \A m \in 0..last : g[m] = h[m],
           \A i \in 1..Len(es) : es[i].seq = top + i /\ g[es[i].seq] = ApplyEvent(g[es[i].seq - 1], es[i]),
           Follows(h, s, q, 0, top, last, lost)
    PROVE  Follows(g, s, q \o es, 0, top + Len(es), end, lost)
<1> DEFINE t == q \o es
           new == top + Len(es)
<1>0. es \in Seq(Downward) /\ \A i \in 1..Len(es) : es[i] \in Events /\ es[i] \notin Snapshots
  <2>1. Events \subseteq Downward /\ \A e \in Events : e \notin Snapshots
    BY DEF Downward, Events, Snapshots, SnapshotTypes
  <2> QED BY <2>1, SeqGrows
<1>1. /\ t \in Seq(Downward) /\ Len(t) = Len(q) + Len(es) /\ Len(q) \in Nat /\ Len(es) \in Nat
      /\ \A i \in 1..Len(q) : t[i] = q[i] /\ i \in 1..Len(t)
      /\ \A i \in 1..Len(es) : t[Len(q) + i] = es[i] /\ Len(q) + i \in 1..Len(t)
      /\ \A i \in 1..Len(t) :
                \/ i \in 1..Len(q) /\ t[i] = q[i]
                \/ i - Len(q) \in 1..Len(es) /\ t[i] = es[i - Len(q)]
  BY <1>0, ConcatFacts
<1>1a. new \in Nat /\ new = top + Len(es) /\ new <= end
  BY <1>1
<1> HIDE DEF t, new
<1>2. /\ \A i \in (0 + 1)..Len(t) :
                \/ i \in (0 + 1)..Len(q) /\ t[i] = q[i]
                \/ i - Len(q) \in 1..Len(es) /\ t[i] = es[i - Len(q)]
      /\ \A n \in Nat : \A i \in (n + 1)..Len(q) : i \in (n + 1)..Len(t) /\ t[i] = q[i]
  <2>1. 0 + 1 = 1
    OBVIOUS
  <2>2. \A n \in Nat : \A i \in (n + 1)..Len(q) : i \in 1..Len(q) /\ i \in (n + 1)..Len(t)
    BY <1>1
  <2> QED BY <1>1, <2>1, <2>2
<1>2a. /\ \A i \in (0 + 1)..Len(q) : i \in Nat /\ i \in 0..Len(q)
       /\ \A i \in (0 + 1)..Len(t) : t[i] \in Snapshots => i \in (0 + 1)..Len(q) /\ t[i] = q[i]
  <2>1. ASSUME NEW i \in (0 + 1)..Len(t), t[i] \in Snapshots
        PROVE  i \in (0 + 1)..Len(q) /\ t[i] = q[i]
    <3>1. i - Len(q) \in 1..Len(es) => es[i - Len(q)] \notin Snapshots
      BY <1>0
    <3> QED BY <1>2, <2>1, <3>1
  <2>2. \A i \in (0 + 1)..Len(q) : i \in Nat /\ i \in 0..Len(q)
    BY <1>1
  <2> QED BY <2>1, <2>2
<1>3. \A n \in Nat : \A m : Comes(q, n, m) => Comes(t, n, m)
  BY <1>2 DEF Comes
<1>4. ASSUME NEW n \in 0..Len(q), NEW m \in (top + 1)..new PROVE Comes(t, n, m)
  <2> DEFINE j == Len(q) + (m - top)
  <2>1. m - top \in 1..Len(es) /\ top + (m - top) = m
    BY <1>1, <1>1a
  <2>2. t[j] = es[m - top] /\ j \in 1..Len(t)
    BY <1>1, <2>1
  <2>2a. j \in (n + 1)..Len(t)
    <3>1. Len(q) + 1 <= j
      BY <1>1, <2>1
    <3>2. n + 1 <= j /\ j <= Len(t) /\ j \in Nat /\ n \in Nat
      BY <1>1, <2>2, <3>1
    <3> HIDE DEF j
    <3> QED BY <1>1, <3>2
  <2>3. es[m - top].seq = m /\ es[m - top] \in Events
    BY <1>0, <2>1
  <2> HIDE DEF j
  <2> QED BY <2>2, <2>2a, <2>3 DEF Comes
<1>5. Genuine(h, q, 0, top, last) /\ OnTrack(h, s, last) /\ (lost = 0 => Unbroken(s, q, 0, top))
  BY DEF Follows
<1>6. Genuine(g, t, 0, new, end)
  <2>1. ASSUME NEW i \in (0 + 1)..Len(t), t[i] \in Events
        PROVE  t[i].seq \in 1..new /\ g[t[i].seq] = ApplyEvent(g[t[i].seq - 1], t[i])
    <3>1. CASE i \in (0 + 1)..Len(q) /\ t[i] = q[i]
      <4>1. q[i].seq \in 1..top /\ h[q[i].seq] = ApplyEvent(h[q[i].seq - 1], q[i])
        BY <1>5, <2>1, <3>1 DEF Genuine
      <4>2. q[i].seq \in 0..last /\ q[i].seq - 1 \in 0..last /\ q[i].seq \in 1..new
        BY <1>1, <1>1a, <4>1
      <4>3. g[q[i].seq] = h[q[i].seq] /\ g[q[i].seq - 1] = h[q[i].seq - 1]
        BY <4>2
      <4> QED BY <3>1, <4>1, <4>2, <4>3
    <3>2. CASE i - Len(q) \in 1..Len(es) /\ t[i] = es[i - Len(q)]
      <4> DEFINE k == i - Len(q)
      <4>1. k \in 1..Len(es) /\ t[i] = es[k]
        BY <3>2
      <4> HIDE DEF k
      <4>2. top + k \in 1..new
        BY <1>1, <1>1a, <4>1
      <4> QED BY <4>1, <4>2
    <3> QED BY <1>2, <3>1, <3>2
  <2>2. ASSUME NEW i \in (0 + 1)..Len(t), t[i] \in Snapshots
        PROVE  t[i].board.seq <= end /\ t[i].board = g[t[i].board.seq]
    <3>1. i \in (0 + 1)..Len(q) /\ t[i] = q[i]
      BY <1>2a, <2>2
    <3>2. q[i].board.seq <= last /\ q[i].board = h[q[i].board.seq] /\ q[i].board.seq \in Nat
      BY <1>5, <2>2, <3>1 DEF Genuine, Snapshots, Views
    <3> QED BY <3>1, <3>2
  <2> QED BY <2>1, <2>2 DEF Genuine
<1>7. OnTrack(g, s, end)
  <2>1. s.view.seq \in Nat
    BY DEF Stores, Views
  <2> QED BY <1>5, <2>1 DEF OnTrack
<1>8. ASSUME lost = 0 PROVE Unbroken(s, t, 0, new)
  <2>0. Unbroken(s, q, 0, top)
    BY <1>5, <1>8
  <2>1. ASSUME s.sync = "live", NEW m \in (s.view.seq + 1)..new PROVE Comes(t, 0, m)
    <3>1. s.view.seq \in Nat
      BY DEF Stores, Views
    <3>2. m \in (s.view.seq + 1)..top \/ m \in (top + 1)..new
      BY <1>1a, <3>1
    <3>3. 0 \in Nat /\ 0 \in 0..Len(q)
      BY <1>1
    <3> QED BY <1>3, <1>4, <2>0, <2>1, <3>2, <3>3 DEF Unbroken
  <2>2. ASSUME NEW i \in (0 + 1)..Len(t), t[i] \in Snapshots, NEW m \in (t[i].board.seq + 1)..new
        PROVE  Comes(t, i, m)
    <3>1. i \in (0 + 1)..Len(q) /\ t[i] = q[i] /\ i \in Nat /\ i \in 0..Len(q)
      BY <1>2a, <2>2
    <3>2. q[i].board.seq \in Nat
      BY <2>2, <3>1 DEF Snapshots, Views
    <3>3. m \in (q[i].board.seq + 1)..top \/ m \in (top + 1)..new
      BY <1>1a, <2>2, <3>1, <3>2
    <3>4. m \in (q[i].board.seq + 1)..top => Comes(q, i, m)
      BY <2>0, <2>2, <3>1 DEF Unbroken
    <3> QED BY <1>3, <1>4, <3>1, <3>3, <3>4
  <2> QED BY <2>1, <2>2 DEF Unbroken
<1>9. Follows(g, s, t, 0, new, end, lost)
  BY <1>6, <1>7, <1>8 DEF Follows
<1> QED BY <1>9 DEF t, new

-----------------------------------------------------------------------------
(* The store once all on its way has arrived.                              *)

\* f takes in q up to place m.
Takes(f, s, q, m) ==
    f = [n \in 0..m |-> IF n = 0 THEN s ELSE Received(f[n - 1], q[n])]

\* The store s after each place of q.
After(s, q) ==
    CHOOSE f : f = [n \in 0..Len(q) |-> IF n = 0 THEN s ELSE Received(f[n - 1], q[n])]

LEMMA SettledIsAfter ==
    ASSUME NEW u \in Users PROVE Settled(u) = After(client[u], down[u])[Len(down[u])]
  BY DEF Settled, After

\* The recursion has a solution up to every place.
LEMMA TakesExists ==
    ASSUME NEW s, NEW q \in Seq(Downward)
    PROVE  \E f : Takes(f, s, q, Len(q))
<1> DEFINE Bad == {m \in 0..Len(q) : \A f : ~ Takes(f, s, q, m)}
<1>0. Len(q) \in Nat
  OBVIOUS
<1>1. ASSUME NEW m \in 0..Len(q), m # 0, NEW f, Takes(f, s, q, m - 1)
      PROVE  \E g : Takes(g, s, q, m)
  <2> DEFINE x == Received(f[m - 1], q[m])
             g == [n \in 0..m |-> IF n = m THEN x ELSE f[n]]
  <2>1. m \in Nat /\ m - 1 \in 0..m /\ m - 1 # m
    BY <1>0, <1>1
  <2>2. ASSUME NEW n \in 0..m, n # m
        PROVE  g[n] = IF n = 0 THEN s ELSE Received(g[n - 1], q[n])
    <3>1. n \in 0..(m - 1) /\ g[n] = f[n]
      BY <2>2
    <3>2. n # 0 => n - 1 \in 0..m /\ n - 1 # m /\ g[n - 1] = f[n - 1]
      BY <3>1
    <3> HIDE DEF g
    <3>3. f[n] = IF n = 0 THEN s ELSE Received(f[n - 1], q[n])
      BY <1>1, <3>1 DEF Takes
    <3> QED BY <3>1, <3>2, <3>3
  <2>3. g[m] = Received(g[m - 1], q[m])
    BY <2>1
  <2>4. g = [n \in 0..m |-> g[n]]
    OBVIOUS
  <2> HIDE DEF g
  <2>5. Takes(g, s, q, m)
    BY <1>1, <2>2, <2>3, <2>4 DEF Takes
  <2> QED BY <2>5
<1>2. 0 \notin Bad
  <2>1. Takes([n \in 0..0 |-> s], s, q, 0)
    BY DEF Takes
  <2> QED BY <2>1
<1>3. Bad = {}
  <2>1. SUFFICES ASSUME Bad # {} PROVE FALSE
    OBVIOUS
  <2>a. Bad \subseteq Nat
    BY <1>0
  <2>2. PICK m \in Bad : \A k \in Bad : m <= k
    <3> HIDE DEF Bad
    <3> QED BY <2>1, <2>a, SetHasMin
  <2>3. m \in 0..Len(q) /\ m # 0 /\ m - 1 \in 0..Len(q) /\ ~ (m <= m - 1)
    BY <2>2, <1>2
  <2>4. m - 1 \notin Bad
    BY <2>2, <2>3
  <2> QED BY <1>1, <2>2, <2>3, <2>4
<1>4. Len(q) \in 0..Len(q)
  OBVIOUS
<1> QED BY <1>3, <1>4

\* What holds of a store and the frames on their way holds when they have arrived.
LEMMA FollowsAfter ==
    ASSUME NEW h, NEW s \in Stores, NEW q \in Seq(Downward), NEW top \in Nat, NEW last \in Nat,
           NEW lost, top <= last, Follows(h, s, q, 0, top, last, lost)
    PROVE  /\ After(s, q)[Len(q)] \in Stores
           /\ Follows(h, After(s, q)[Len(q)], q, Len(q), top, last, lost)
<1> DEFINE f == After(s, q)
           Good(n) == f[n] \in Stores /\ Follows(h, f[n], q, n, top, last, lost)
           Bad == {n \in 0..Len(q) : ~ Good(n)}
<1>0. Len(q) \in Nat
  OBVIOUS
<1>1. Takes(f, s, q, Len(q))
  <2>1. PICK g : Takes(g, s, q, Len(q))
    BY TakesExists
  <2> QED BY <2>1 DEF Takes, After
<1> HIDE DEF f
<1>2. f[0] = s
  BY <1>0, <1>1 DEF Takes
<1>3. ASSUME NEW n \in 0..Len(q), n # 0, Good(n - 1) PROVE Good(n)
  <2>1. f[n] = Received(f[n - 1], q[n])
    BY <1>1, <1>3 DEF Takes
  <2> DEFINE k == n - 1
  <2>2. k \in Nat /\ k + 1 \in 1..Len(q) /\ n = k + 1
    BY <1>0, <1>3
  <2>3. f[k] \in Stores /\ Follows(h, f[k], q, k, top, last, lost) /\ f[n] = Received(f[k], q[n])
    BY <1>3, <2>1
  <2> HIDE DEF k
  <2>4. Follows(h, Received(f[k], q[k + 1]), q, k + 1, top, last, lost)
    BY <2>2, <2>3, FollowsNext
  <2>5. q[k + 1] \in Downward
    BY <2>2
  <2>6. Received(f[k], q[k + 1]) \in Stores
    BY <2>3, <2>5, ReceivedTyped
  <2> QED BY <2>2, <2>3, <2>4, <2>6
<1>4. Good(0)
  BY <1>2
<1> HIDE DEF Good
<1>5. Bad = {}
  <2>1. SUFFICES ASSUME Bad # {} PROVE FALSE
    OBVIOUS
  <2>a. Bad \subseteq Nat
    BY <1>0
  <2>2. PICK m \in Bad : \A k \in Bad : m <= k
    <3> HIDE DEF Bad
    <3> QED BY <2>1, <2>a, SetHasMin
  <2>3. m \in 0..Len(q) /\ m # 0 /\ m - 1 \in 0..Len(q) /\ ~ (m <= m - 1)
    BY <1>4, <2>2
  <2>4. m - 1 \notin Bad
    BY <2>2, <2>3
  <2> QED BY <1>3, <2>2, <2>3, <2>4
<1>6. Good(Len(q))
  BY <1>0, <1>5
<1> QED BY <1>6 DEF Good, f

-----------------------------------------------------------------------------
(* The lineage of the board, kept by every step.                           *)

\* The last event the players were told: a completion waits for its flush.
Top == IF finishing THEN board.seq - 1 ELSE board.seq

\* The last view of h is a completed one, by gameCompleted.
Ends(h, last) ==
    /\ last # 0 /\ h[last] = ApplyEvent(h[last - 1], GameCompleted(last))
    /\ h[last - 1].seq = last - 1 /\ h[last - 1].status = "ongoing"

Lineage(h) ==
    /\ h \in [Nat -> Views] /\ h[board.seq] = ViewOf(board)
    /\ finishing => Ends(h, board.seq)
    /\ \A u \in Users : phase[u] \in {"attached", "live"} =>
         Follows(h, client[u], down[u], 0, Top, board.seq, faults.lost)

LEMMA TopTyped ==
    ASSUME TypeInv, NEW h, Lineage(h)
    PROVE  /\ board.seq \in Nat /\ Top \in Nat /\ Top <= board.seq
           /\ ~ finishing => Top = board.seq
           /\ finishing => Top + 1 = board.seq
<1>1. board.seq \in Nat
  BY DEF TypeInv, GameTyped, Boards
<1>2. finishing => board.seq # 0
  BY DEF Lineage, Ends
<1> QED BY <1>1, <1>2 DEF Top

\* Only the two parts of the store matter, and losses only weaken.
LEMMA FollowsSame ==
    ASSUME NEW h, NEW s, NEW r, NEW q, NEW n, NEW top, NEW last, NEW lost, NEW more,
           r.sync = s.sync, r.view = s.view, more = 0 => lost = 0,
           Follows(h, s, q, n, top, last, lost)
    PROVE  Follows(h, r, q, n, top, last, more)
  BY DEF Follows, OnTrack, Unbroken

\* A lost frame.
LEMMA FollowsLoss ==
    ASSUME NEW h, NEW s, NEW q \in Seq(Downward), q # <<>>, NEW top, NEW last, NEW lost, NEW more,
           more # 0, Follows(h, s, q, 0, top, last, lost)
    PROVE  Follows(h, s, Tail(q), 0, top, last, more)
<1>1. /\ Genuine(h, q, 0, top, last) /\ OnTrack(h, s, last) /\ Len(q) \in Nat
      /\ \A i \in (1 + 1)..Len(q) : i \in (0 + 1)..Len(q)
  BY DEF Follows
<1>2. Genuine(h, q, 1, top, last)
  BY <1>1 DEF Genuine
<1>3. Follows(h, s, q, 1, top, last, more)
  BY <1>1, <1>2 DEF Follows
<1> QED BY <1>3, FollowsTail

\* One player's step while the game stands still.
LEMMA OneFollows ==
    ASSUME TypeInv, Linked, NEW h, Lineage(h), SameGame, NEW v \in Users, OneMoves(v),
           faults'.lost = 0 => faults.lost = 0, phase'[v] \in {"attached", "live"}
    PROVE  Follows(h, client'[v], down'[v], 0, Top, board.seq, faults'.lost)
<1> DEFINE q == down[v]
           s == client[v]
           Good == Follows(h, client'[v], down'[v], 0, Top, board.seq, faults'.lost)
<1>0. /\ q \in Seq(Downward) /\ s \in Stores
      /\ h \in [Nat -> Views] /\ h[board.seq] = ViewOf(board)
      /\ phase[v] \in {"attached", "live"} => Follows(h, s, q, 0, Top, board.seq, faults.lost)
  BY DEF TypeInv, DownTyped, ClientTyped, Lineage
<1>0a. board.seq \in Nat /\ Top \in Nat /\ Top <= board.seq
  BY TopTyped
<1> HIDE DEF q, s
<1>1. ASSUME phase[v] \in {"attached", "live"}, down'[v] = q, client'[v].sync = s.sync,
             client'[v].view = s.view
      PROVE  Good
  BY <1>0, <1>1, FollowsSame
<1>2. ASSUME Idle(v) PROVE Good
  BY <1>1, <1>2 DEF Idle, q, s
<1>3. ASSUME Reads(v) PROVE Good
  <2>1. /\ q # <<>> /\ down'[v] = Tail(q) /\ client'[v] = Received(s, Head(q))
        /\ Follows(h, s, q, 0, Top, board.seq, faults.lost)
    BY <1>0, <1>3 DEF Reads, q, s
  <2>2. Head(q) = q[0 + 1] /\ 0 + 1 \in 1..Len(q) /\ 0 + 1 = 1 /\ 0 \in Nat
    BY <1>0, <2>1, TailFacts
  <2>3. Follows(h, Received(s, q[0 + 1]), q, 0 + 1, Top, board.seq, faults.lost)
    BY <1>0, <1>0a, <2>1, <2>2, FollowsNext
  <2>4. Follows(h, client'[v], q, 1, Top, board.seq, faults.lost)
    BY <2>1, <2>2, <2>3
  <2>5. Follows(h, client'[v], Tail(q), 0, Top, board.seq, faults.lost)
    BY <1>0, <2>1, <2>4, FollowsTail
  <2> QED BY <2>1, <2>5, FollowsSame
<1>4. ASSUME Loses(v) PROVE Good
  <2>1. /\ q # <<>> /\ down'[v] = Tail(q) /\ client'[v] = s /\ faults'.lost # 0
        /\ Follows(h, s, q, 0, Top, board.seq, faults.lost)
    BY <1>0, <1>4 DEF Loses, q, s
  <2> QED BY <1>0, <2>1, FollowsLoss
<1>5. ASSUME Leaves(v) PROVE Good
  BY <1>5 DEF Leaves
<1>6. ASSUME Attaches(v) PROVE Good
  <2>1. down'[v] = <<>> /\ client'[v].sync # "live"
    BY <1>6 DEF Attaches, Linked
  <2>2. (0 + 1)..Len(down'[v]) = {}
    BY <2>1
  <2> QED BY <2>1, <2>2 DEF Follows, Genuine, OnTrack, Unbroken
<1>7. ASSUME NEW f \in Downward, f \notin Events, down'[v] = Append(q, f), client'[v] = s,
             f \in Snapshots => f.board.seq = board.seq /\ f.board = h[board.seq],
             phase[v] \in {"attached", "live"}
      PROVE  Good
  <2>1. Follows(h, s, Append(q, f), 0, Top, board.seq, faults.lost)
    BY <1>0, <1>0a, <1>7, FollowsAppend
  <2> QED BY <1>7, <2>1, FollowsSame
<1>8. ASSUME IsWelcomed(v) PROVE Good
  <2>1. PICK type \in SnapshotTypes : down'[v] = Append(q, SnapshotFrame(type))
    BY <1>8 DEF IsWelcomed, q
  <2>2. SnapshotFrame(type) \in Snapshots /\ SnapshotFrame(type) \in Downward
    BY SnapshotTyped DEF Downward
  <2>3. SnapshotFrame(type) \notin Events
    BY <2>2 DEF Events, Snapshots, SnapshotTypes
  <2>4. SnapshotFrame(type).board = h[board.seq] /\ SnapshotFrame(type).board.seq = board.seq
    BY <1>0 DEF SnapshotFrame, ViewOf
  <2>5. client'[v] = s /\ phase[v] \in {"attached", "live"}
    BY <1>8 DEF IsWelcomed, s
  <2> HIDE DEF Good
  <2> QED BY <1>7, <2>1, <2>2, <2>3, <2>4, <2>5
<1>9. ASSUME GoesUnanswered(v) PROVE Good
  BY <1>1, <1>9 DEF GoesUnanswered, q, s
<1>10. ASSUME IsRefused(v) PROVE Good
  <2>1. PICK f \in Errors : down'[v] = Append(q, f)
    BY <1>10 DEF IsRefused, q
  <2>2. f \in Downward /\ f \notin Events /\ f \notin Snapshots
    BY DEF Downward, Errors, Events, Snapshots, SnapshotTypes
  <2>3. client'[v] = s /\ phase[v] \in {"attached", "live"}
    BY <1>10 DEF IsRefused, s
  <2> HIDE DEF Good
  <2> QED BY <1>7, <2>1, <2>2, <2>3
<1> HIDE DEF Good
<1>11. Good
  BY <1>2, <1>3, <1>4, <1>5, <1>6, <1>8, <1>9, <1>10 DEF OneMoves
<1> QED BY <1>11 DEF Good

\* Everyone attached hears the events es, which lead on to the view at seq end of g.
LEMMA AllFollow ==
    ASSUME TypeInv, NEW h, Lineage(h), NEW g \in [Nat -> Views], NEW es \in Seq(Events),
           Heard(es), NEW end \in Nat, board.seq <= end, Top + Len(es) <= end,
           \A m \in 0..board.seq : g[m] = h[m],
           \A i \in 1..Len(es) :
             es[i].seq = Top + i /\ g[es[i].seq] = ApplyEvent(g[es[i].seq - 1], es[i]),
           faults'.lost = 0 => faults.lost = 0,
           NEW v \in Users, phase'[v] \in {"attached", "live"}
    PROVE  Follows(g, client'[v], down'[v], 0, Top + Len(es), end, faults'.lost)
<1>0. board.seq \in Nat /\ Top \in Nat /\ Top <= board.seq
  BY TopTyped
<1>1. v \in Attached /\ down[v] \in Seq(Downward) /\ client[v] \in Stores
      /\ down'[v] = down[v] \o es /\ client'[v] = client[v]
  BY DEF Heard, Attached, TypeInv, DownTyped, ClientTyped
<1>2. Follows(h, client[v], down[v], 0, Top, board.seq, faults.lost)
  BY DEF Heard, Lineage
<1>3. Follows(g, client[v], down[v] \o es, 0, Top + Len(es), end, faults.lost)
  BY <1>0, <1>1, <1>2, FollowsMore
<1> QED BY <1>1, <1>3, FollowsSame

\* The events of one call of the engine lengthen the lineage.
LEMMA LineageGrows ==
    ASSUME TypeInv, NEW h, Lineage(h), NEW es, NEW d, Tells(board, es, d)
    PROVE  /\ es \in Seq(Events) /\ d.seq \in Nat /\ Len(es) \in Nat /\ d.seq = board.seq + Len(es)
           /\ \E g \in [Nat -> Views] :
                /\ g[d.seq] = ViewOf(d) /\ \A m \in 0..board.seq : g[m] = h[m]
                /\ \A i \in 1..Len(es) :
                     /\ es[i].seq = board.seq + i
                     /\ g[es[i].seq] = ApplyEvent(g[es[i].seq - 1], es[i])
                     /\ g[es[i].seq - 1].seq = es[i].seq - 1
                     /\ g[es[i].seq - 1].status = "ongoing"
<1> DEFINE b == board.seq
<1>1. /\ es \in Seq(Events) /\ d.seq \in Nat /\ b \in Nat /\ Len(es) \in Nat
      /\ d.seq = b + Len(es) /\ \A i \in 1..Len(es) : es[i].seq = b + i
  <2>1. es \in Seq(Events) /\ d.seq \in Nat /\ b \in Nat
    BY DEF Tells, Boards
  <2> QED BY <2>1 DEF Tells, Numbered
<1>2. PICK k : Shows(k, board, es, d)
  BY DEF Tells
<1>3. h \in [Nat -> Views] /\ h[b] = k[b] /\ k \in [Nat -> Views] /\ k[d.seq] = ViewOf(d)
  BY <1>2 DEF Lineage, Shows
<1> DEFINE g == [n \in Nat |-> IF n <= b THEN h[n] ELSE k[n]]
<1> HIDE DEF b
<1>4. g \in [Nat -> Views] /\ \A m \in 0..b : g[m] = h[m]
  BY <1>1, <1>3
<1>5. \A n \in Nat : b <= n => g[n] = k[n]
  BY <1>1, <1>3
<1> HIDE DEF g
<1>6. g[d.seq] = ViewOf(d)
  <2>1. b <= d.seq
    BY <1>1
  <2> QED BY <1>1, <1>3, <1>5, <2>1
<1>7. ASSUME NEW i \in 1..Len(es)
      PROVE  /\ es[i].seq = b + i
             /\ g[es[i].seq] = ApplyEvent(g[es[i].seq - 1], es[i])
             /\ g[es[i].seq - 1].seq = es[i].seq - 1
             /\ g[es[i].seq - 1].status = "ongoing"
  <2>1. es[i].seq = b + i /\ es[i].seq \in Nat /\ es[i].seq - 1 \in Nat
        /\ b <= es[i].seq /\ b <= es[i].seq - 1
    BY <1>1
  <2>2. g[es[i].seq] = k[es[i].seq] /\ g[es[i].seq - 1] = k[es[i].seq - 1]
    BY <1>5, <2>1
  <2>3. /\ k[es[i].seq] = ApplyEvent(k[es[i].seq - 1], es[i])
        /\ k[es[i].seq - 1].seq = es[i].seq - 1 /\ k[es[i].seq - 1].status = "ongoing"
    BY <1>2 DEF Shows
  <2> QED BY <2>1, <2>2, <2>3
<1> QED BY <1>1, <1>4, <1>6, <1>7 DEF b

LEMMA LineageStays ==
    ASSUME TypeInv, TypeInv', Linked, Happens, faults'.lost = 0 => faults.lost = 0,
           NEW h, Lineage(h)
    PROVE  \E g : Lineage(g)'
<1> DEFINE Held == \E g : Lineage(g)'
<1>0. /\ board.seq \in Nat /\ Top \in Nat /\ Top <= board.seq
      /\ ~ finishing => Top = board.seq
      /\ finishing => Top + 1 = board.seq
  BY TopTyped
<1>0a. /\ h \in [Nat -> Views] /\ h[board.seq] = ViewOf(board) /\ (finishing => Ends(h, board.seq))
       /\ board'.seq \in Nat /\ finishing' \in BOOLEAN /\ ViewOf(board)' = ViewOf(board')
  BY DEF Lineage, TypeInv, GameTyped, Boards, ViewOf
<1>1. ASSUME NEW g \in [Nat -> Views], g[board'.seq] = ViewOf(board'),
             finishing' => Ends(g, board'.seq), NEW top,
             top = IF finishing' THEN board'.seq - 1 ELSE board'.seq,
             \A v \in Users : phase'[v] \in {"attached", "live"} =>
               Follows(g, client'[v], down'[v], 0, top, board'.seq, faults'.lost)
      PROVE  Held
  <2>1. top = Top'
    BY <1>1 DEF Top
  <2>2. Lineage(g)'
    BY <1>0a, <1>1, <2>1 DEF Lineage
  <2> QED BY <2>2
<1> HIDE DEF Held
<1>2. ASSUME SameGame, \A v \in Users : OneMoves(v) PROVE Held
  <2>1. \A v \in Users : phase'[v] \in {"attached", "live"} =>
               Follows(h, client'[v], down'[v], 0, Top, board'.seq, faults'.lost)
    BY <1>2, OneFollows DEF SameGame
  <2>2. Top = IF finishing' THEN board'.seq - 1 ELSE board'.seq
    BY <1>2 DEF SameGame, Top
  <2> QED BY <1>0a, <1>1, <1>2, <2>1, <2>2 DEF SameGame
<1>3. ASSUME NEW id, NEW es, NEW told, Took(id, es, told), ~ finishing, Heard(told) PROVE Held
  <2>1. /\ Tells(board, es, board') /\ told \in Seq(Events) /\ (finishing' <=> board'.status = "completed")
        /\ Len(told) = IF finishing' THEN Len(es) - 1 ELSE Len(es)
        /\ \A i \in 1..Len(told) : i \in 1..Len(es) /\ told[i] = es[i]
        /\ board.status = "ongoing"
    BY <1>3 DEF Took
  <2>2. /\ es \in Seq(Events) /\ Len(es) \in Nat /\ board'.seq = board.seq + Len(es)
        /\ \E g \in [Nat -> Views] :
                /\ g[board'.seq] = ViewOf(board') /\ \A m \in 0..board.seq : g[m] = h[m]
                /\ \A i \in 1..Len(es) :
                     /\ es[i].seq = board.seq + i
                     /\ g[es[i].seq] = ApplyEvent(g[es[i].seq - 1], es[i])
                     /\ g[es[i].seq - 1].seq = es[i].seq - 1
                     /\ g[es[i].seq - 1].status = "ongoing"
    <3>1. PICK d : d = board' /\ Tells(board, es, d)
      BY <2>1
    <3>2. /\ es \in Seq(Events) /\ Len(es) \in Nat /\ d.seq = board.seq + Len(es)
          /\ \E g \in [Nat -> Views] :
                /\ g[d.seq] = ViewOf(d) /\ \A m \in 0..board.seq : g[m] = h[m]
                /\ \A i \in 1..Len(es) :
                     /\ es[i].seq = board.seq + i
                     /\ g[es[i].seq] = ApplyEvent(g[es[i].seq - 1], es[i])
                     /\ g[es[i].seq - 1].seq = es[i].seq - 1
                     /\ g[es[i].seq - 1].status = "ongoing"
      BY <3>1, LineageGrows
    <3> QED BY <3>1, <3>2
  <2>3. PICK g \in [Nat -> Views] :
                /\ g[board'.seq] = ViewOf(board') /\ \A m \in 0..board.seq : g[m] = h[m]
                /\ \A i \in 1..Len(es) :
                     /\ es[i].seq = board.seq + i
                     /\ g[es[i].seq] = ApplyEvent(g[es[i].seq - 1], es[i])
                     /\ g[es[i].seq - 1].seq = es[i].seq - 1
                     /\ g[es[i].seq - 1].status = "ongoing"
    BY <2>2
  <2>4. ASSUME finishing'
        PROVE  Len(es) # 0 /\ Ends(g, board'.seq)
    <3>1. es # <<>> /\ es[Len(es)] = GameCompleted(board'.seq)
      BY <2>1, <2>4 DEF Tells
    <3>2. Len(es) \in 1..Len(es)
      BY <2>2, <3>1
    <3>3. es[Len(es)].seq = board'.seq /\ board'.seq # 0 /\ Len(es) # 0
      BY <1>0, <2>2, <2>3, <3>2
    <3>4. Ends(g, board'.seq)
      BY <2>3, <3>1, <3>2, <3>3 DEF Ends
    <3> QED BY <3>3, <3>4
  <2>5. /\ board.seq <= board'.seq /\ Top + Len(told) <= board'.seq
        /\ Top + Len(told) = IF finishing' THEN board'.seq - 1 ELSE board'.seq
    BY <1>0, <1>0a, <1>3, <2>1, <2>2, <2>4
  <2>6. \A i \in 1..Len(told) :
             told[i].seq = Top + i /\ g[told[i].seq] = ApplyEvent(g[told[i].seq - 1], told[i])
    BY <1>0, <1>3, <2>1, <2>3
  <2>7. \A v \in Users : phase'[v] \in {"attached", "live"} =>
               Follows(g, client'[v], down'[v], 0, Top + Len(told), board'.seq, faults'.lost)
    <3> SUFFICES ASSUME NEW v \in Users, phase'[v] \in {"attached", "live"}
                 PROVE  Follows(g, client'[v], down'[v], 0, Top + Len(told), board'.seq,
                                faults'.lost)
      OBVIOUS
    <3>1. g \in [Nat -> Views] /\ told \in Seq(Events) /\ Heard(told) /\ board'.seq \in Nat
      BY <1>0a, <1>3, <2>1, <2>3
    <3>2. \A m \in 0..board.seq : g[m] = h[m]
      BY <2>3
    <3> QED BY <2>5, <2>6, <3>1, <3>2, AllFollow
  <2> QED BY <1>1, <2>3, <2>4, <2>5, <2>7
<1>4. ASSUME UNCHANGED <<board, finishing>>, Heard(<<>>) PROVE Held
  <2>1. \A v \in Users : down'[v] = down[v] /\ client'[v] = client[v] /\ phase'[v] = phase[v]
    <3>1. \A v \in Users : down[v] \o <<>> = down[v]
      BY DEF TypeInv, DownTyped
    <3> QED BY <1>4, <3>1 DEF Heard
  <2>2. \A v \in Users : phase'[v] \in {"attached", "live"} =>
               Follows(h, client'[v], down'[v], 0, Top, board'.seq, faults'.lost)
    BY <1>4, <2>1, FollowsSame DEF Lineage
  <2>3. Top = IF finishing' THEN board'.seq - 1 ELSE board'.seq
    BY <1>4 DEF Top
  <2> QED BY <1>0a, <1>1, <1>4, <2>2, <2>3
<1>5. ASSUME finishing, ~ finishing', board' = board, Heard(<< GameCompleted(board.seq) >>)
      PROVE  Held
  <2> DEFINE e == GameCompleted(board.seq)
             es == << e >>
  <2>1. e \in Events /\ e.seq = board.seq
    BY <1>0 DEF GameCompleted, Events
  <2> HIDE DEF e
  <2>2. es \in Seq(Events) /\ Len(es) = 1 /\ es[1] = e /\ \A i \in 1..Len(es) : i = 1
    BY <2>1
  <2>3. h[board.seq] = ApplyEvent(h[board.seq - 1], e)
    BY <1>0a, <1>5 DEF Ends, e
  <2>4. Heard(es)
    BY <1>5 DEF e
  <2> HIDE DEF es
  <2>5. \A i \in 1..Len(es) :
             es[i].seq = Top + i /\ h[es[i].seq] = ApplyEvent(h[es[i].seq - 1], es[i])
    BY <1>0, <1>5, <2>1, <2>2, <2>3
  <2>6. Top + Len(es) = board.seq /\ Top + Len(es) <= board.seq /\ board.seq <= board.seq
    BY <1>0, <1>5, <2>2
  <2>7. \A v \in Users : phase'[v] \in {"attached", "live"} =>
               Follows(h, client'[v], down'[v], 0, Top + Len(es), board.seq, faults'.lost)
    BY <1>0, <1>0a, <2>2, <2>4, <2>5, <2>6, AllFollow
  <2> QED BY <1>0a, <1>1, <1>5, <2>6, <2>7
<1>6. ASSUME ~ finishing, finishing' = finishing, NEW es \in Seq(Events), Tells(board, es, board'),
             Heard(es)
      PROVE  Held
  <2>1. /\ Len(es) \in Nat /\ board'.seq = board.seq + Len(es)
        /\ \E g \in [Nat -> Views] :
                /\ g[board'.seq] = ViewOf(board') /\ \A m \in 0..board.seq : g[m] = h[m]
                /\ \A i \in 1..Len(es) :
                     /\ es[i].seq = board.seq + i
                     /\ g[es[i].seq] = ApplyEvent(g[es[i].seq - 1], es[i])
    BY <1>6, LineageGrows
  <2>2. PICK g \in [Nat -> Views] :
                /\ g[board'.seq] = ViewOf(board') /\ \A m \in 0..board.seq : g[m] = h[m]
                /\ \A i \in 1..Len(es) :
                     /\ es[i].seq = board.seq + i
                     /\ g[es[i].seq] = ApplyEvent(g[es[i].seq - 1], es[i])
    BY <2>1
  <2>3. Top + Len(es) = board'.seq /\ Top + Len(es) <= board'.seq /\ board.seq <= board'.seq
    BY <1>0, <1>6, <2>1
  <2>4. \A i \in 1..Len(es) :
             es[i].seq = Top + i /\ g[es[i].seq] = ApplyEvent(g[es[i].seq - 1], es[i])
    BY <1>0, <1>6, <2>2
  <2>5. \A v \in Users : phase'[v] \in {"attached", "live"} =>
               Follows(g, client'[v], down'[v], 0, Top + Len(es), board'.seq, faults'.lost)
    BY <1>0a, <1>6, <2>2, <2>3, <2>4, AllFollow
  <2> QED BY <1>1, <1>6, <2>2, <2>3, <2>5
<1>7. ASSUME \A v \in Users : Leaves(v), ~ finishing' PROVE Held
  <2> DEFINE g == [n \in Nat |-> ViewOf(board')]
  <2>1. board' \in Boards
    BY DEF TypeInv, GameTyped
  <2>2. g \in [Nat -> Views] /\ g[board'.seq] = ViewOf(board')
    BY <1>0a, <2>1, ViewOfTyped
  <2> HIDE DEF g
  <2>3. \A v \in Users : phase'[v] \notin {"attached", "live"}
    BY <1>7 DEF Leaves
  <2>4. board'.seq = IF finishing' THEN board'.seq - 1 ELSE board'.seq
    BY <1>7
  <2> QED BY <1>1, <1>7, <2>2, <2>3, <2>4
<1>8. Held
  BY <1>2, <1>3, <1>4, <1>5, <1>6, <1>7 DEF Happens
<1> QED BY <1>8 DEF Held

LEMMA AlwaysLineage == Spec => [](TypeInv /\ Linked /\ \E h : Lineage(h))
<1>1. Init => \E h : Lineage(h)
  <2> SUFFICES ASSUME Init PROVE \E h : Lineage(h)
    OBVIOUS
  <2> DEFINE h == [n \in Nat |-> ViewOf(board)]
  <2>1. board \in Boards /\ board.seq \in Nat /\ ~ finishing
        /\ \A u \in Users : phase[u] = "none"
    <3>1. board \in Boards
      BY EmptyIsTyped DEF Init
    <3> QED BY <3>1 DEF Init, Boards
  <2>2. h \in [Nat -> Views] /\ h[board.seq] = ViewOf(board)
    BY <2>1, ViewOfTyped
  <2> HIDE DEF h
  <2>3. Lineage(h)
    BY <2>1, <2>2 DEF Lineage
  <2> QED BY <2>3
<1>2. TypeInv /\ Linked /\ (\E h : Lineage(h)) /\ Next => (\E h : Lineage(h))'
  BY NextHappens, LineageStays
<1>3. (\E h : Lineage(h)) /\ UNCHANGED vars => (\E h : Lineage(h))'
  <2> SUFFICES ASSUME NEW h, Lineage(h), UNCHANGED vars PROVE Lineage(h)'
    OBVIOUS
  <2>1. Top' = Top /\ ViewOf(board)' = ViewOf(board)
    BY DEF vars, Top, ViewOf
  <2> QED BY <2>1 DEF vars, Lineage
<1> DEFINE Some == \E h : Lineage(h)
<1>4. Init => Some
  BY <1>1
<1>5. TypeInv /\ Linked /\ Some /\ Next => Some'
  BY <1>2
<1>6. Some /\ UNCHANGED vars => Some'
  BY <1>3
<1> HIDE DEF Some
<1>7. Spec => [](TypeInv /\ Linked /\ Some)
  BY <1>4, <1>5, <1>6, AlwaysLinked, PTL DEF Spec
<1> QED BY <1>7 DEF Some

\* Convergence (INV-1, INV-10, PROTOCOL 7): a live player who has taken in all that is
\* on its way holds exactly the actor's board, whatever was dropped, resynced or rolled
\* back before; without a lost frame no one is ever behind.
THEOREM LiveViewsConverge == Spec => []LiveViewIsBoard
<1>1. ASSUME TypeInv, NEW h, Lineage(h) PROVE LiveViewIsBoard
  <2> SUFFICES ASSUME NEW u \in Users, phase[u] = "live", Settled(u).sync = "live"
               PROVE  \/ Settled(u).view \in CurrentViews
                      \/ faults.lost > 0 /\ Settled(u).view.seq < board.seq
    BY DEF LiveViewIsBoard
  <2> DEFINE s == Settled(u)
             n == Len(down[u])
             last == board.seq
  <2>1. /\ last \in Nat /\ Top \in Nat /\ Top <= last /\ (~ finishing => Top = last)
        /\ (finishing => Top + 1 = last)
        /\ client[u] \in Stores /\ down[u] \in Seq(Downward) /\ n \in Nat
        /\ faults.lost \in Nat
    <3>1. client[u] \in Stores /\ down[u] \in Seq(Downward)
      BY <1>1 DEF TypeInv, ClientTyped, DownTyped
    <3>2. faults.lost \in Nat
      <4>1. faults["lost"] \in Nat
        BY <1>1 DEF TypeInv, ClientTyped
      <4> QED BY <4>1
    <3> QED BY <1>1, <3>1, <3>2, TopTyped
  <2>2. s \in Stores /\ Follows(h, s, down[u], n, Top, last, faults.lost)
    <3>1. Follows(h, client[u], down[u], 0, Top, last, faults.lost)
      BY <1>1 DEF Lineage
    <3> QED BY <2>1, <3>1, FollowsAfter, SettledIsAfter
  <2>3. s.sync = "live" /\ h[last] = ViewOf(board) /\ (finishing => Ends(h, last))
    BY <1>1 DEF Lineage
  <2> HIDE DEF s, n, last
  <2>4. s.view.seq \in Nat /\ s.view.seq <= last /\ s.view = h[s.view.seq]
    BY <2>2, <2>3 DEF Follows, OnTrack, Stores, Views
  <2>5. faults.lost = 0 => Top <= s.view.seq
    <3>1. ASSUME faults.lost = 0, s.view.seq < Top PROVE FALSE
      <4>1. Top \in (s.view.seq + 1)..Top
        BY <2>1, <2>4, <3>1
      <4>2. Comes(down[u], n, Top)
        BY <2>2, <2>3, <3>1, <4>1 DEF Follows, Unbroken
      <4>3. (n + 1)..n = {}
        BY <2>1
      <4>4. (n + 1)..Len(down[u]) = {}
        BY <4>3 DEF n
      <4> QED BY <4>2, <4>4 DEF Comes
    <3> QED BY <2>1, <2>4, <3>1
  <2>6. CASE s.view.seq = last
    BY <2>3, <2>4, <2>6 DEF CurrentViews, s
  <2>7. CASE s.view.seq # last /\ faults.lost # 0
    BY <2>1, <2>4, <2>7 DEF s, last
  <2>8. CASE s.view.seq # last /\ faults.lost = 0
    <3>1. finishing /\ s.view.seq = last - 1
      BY <2>1, <2>4, <2>5, <2>8
    <3>2. /\ ViewOf(board) = ApplyEvent(s.view, GameCompleted(last))
          /\ s.view.seq = last - 1 /\ s.view.status = "ongoing" /\ s.view \in Views
      BY <2>2, <2>3, <2>4, <3>1 DEF Ends, Stores
    <3>3. ApplyEvent(s.view, GameCompleted(last)) = [s.view EXCEPT !.seq = last, !.status = "completed"]
      <4> DEFINE e == GameCompleted(last)
      <4>1. e.type = "gameCompleted" /\ e.seq = last
        BY DEF GameCompleted
      <4> HIDE DEF e
      <4>2. ApplyEvent(s.view, e) = [s.view EXCEPT !.seq = e.seq, !.status = "completed"]
        BY <4>1 DEF ApplyEvent
      <4> QED BY <4>1, <4>2 DEF e
    <3> DEFINE w == ViewOf(board)
               v == s.view
    <3>4. w = [v EXCEPT !.seq = last, !.status = "completed"] /\ v \in Views /\ v.seq = last - 1
          /\ v.status = "ongoing"
      BY <3>2, <3>3
    <3> HIDE DEF w, v
    <3>5. w.seq = last
      BY <3>4 DEF Views
    <3>6. v = [w EXCEPT !.seq = w.seq - 1, !.status = "ongoing"]
      <4>1. w \in Views /\ DOMAIN w = DOMAIN v
        BY <3>4, <2>1 DEF Views, Statuses
      <4> QED BY <3>4, <3>5, <4>1 DEF Views
    <3>7. v \in CurrentViews
      BY <3>1, <3>6 DEF CurrentViews, w
    <3> QED BY <3>7 DEF v, s
  <2> QED BY <2>6, <2>7, <2>8
<1>2. TypeInv /\ (\E h : Lineage(h)) => LiveViewIsBoard
  BY <1>1
<1> QED BY <1>2, AlwaysLineage, PTL

=============================================================================
