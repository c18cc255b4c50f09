------------------------------ MODULE Membership ------------------------------
(***************************************************************************)
(* Who is in one game and with which role: the API's handlers              *)
(* (apps/api/src/games/routes.ts, identity/deletion.ts and succession.ts), *)
(* each split where it awaits the database or the session service, and     *)
(* what the session service does about it: the reads of a handshake        *)
(* (handshake.ts) and the re-verification a membership-changed call starts *)
(* (internal.ts), which acts on what it read a round trip earlier.         *)
(*                                                                         *)
(* Statements of one transaction run at READ COMMITTED: a later statement  *)
(* sees what others committed meanwhile, so the deletion transaction is    *)
(* two steps, the pick of a successor and the writes.                      *)
(***************************************************************************)
EXTENDS Naturals, FiniteSets

CONSTANTS
    Users, Creator,  \* all accounts, and the one that created the game
    Guests,          \* the accounts that start anonymous
    NoUser,          \* no account
    Slots,           \* the requests the API works on at once
    MaxRequests,     \* bound: requests in all
    MaxLost          \* bound: membership-changed calls that do not arrive

ASSUME MembershipAssumption ==
    /\ Creator \in Users \ Guests /\ Guests \subseteq Users /\ NoUser \notin Users
    /\ MaxRequests \in Nat /\ MaxLost \in Nat

VARIABLES
    guests,   \* users.is_anonymous
    role,     \* memberships.role, "none" without a row
    older,    \* memberships.joined_at: the pairs of members, the older row first
    denied,   \* game_denylist
    deleted,  \* users whose account is tombstoned
    over,     \* the game was abandoned
    request,  \* the requests in flight
    conn,     \* each user's socket: its handshake, and the role it carries
    slipped,  \* whose membership changed behind a check already made (history)
    overtaken, \* whose last kick committed while their join was past the denylist (history)
    crossed,  \* a deletion overlapped a kick, an upgrade or a deletion (history)
    served, lost  \* counters for the bounds

tables == <<role, older, denied, deleted>>
history == <<slipped, overtaken, crossed>>
vars == <<guests, tables, over, request, conn, history, served, lost>>

Idle == [kind |-> "none", by |-> NoUser, on |-> NoUser, at |-> "idle", todo |-> {},
         saw |-> "none"]
NoConn == [at |-> "none", role |-> "none"]

\* createGameWithHost.
Init ==
    /\ guests = Guests
    /\ role = [u \in Users |-> IF u = Creator THEN "host" ELSE "none"]
    /\ older = {} /\ denied = {} /\ deleted = {} /\ over = FALSE
    /\ request = [s \in Slots |-> Idle]
    /\ conn = [u \in Users |-> NoConn]
    /\ slipped = {} /\ overtaken = {} /\ crossed = FALSE /\ served = 0 /\ lost = 0

-----------------------------------------------------------------------------
(* Requests up to their first write.                                       *)

InFlight(kinds) == \E s \in Slots : request[s].kind \in kinds

\* A request of u takes a free slot; its first reads have been answered.
Begins(s, kind, u, on, at, saw) ==
    /\ request[s] = Idle /\ served < MaxRequests /\ u \notin deleted
    /\ served' = served + 1
    /\ request' = [request EXCEPT ![s] = [kind |-> kind, by |-> u, on |-> on, at |-> at,
                                          todo |-> {}, saw |-> saw]]
    /\ crossed' = (crossed \/ (kind = "delete" /\ InFlight({"delete", "kick", "upgrade"}))
                           \/ (kind \in {"kick", "upgrade"} /\ InFlight({"delete"})))
    /\ UNCHANGED <<guests, tables, over, conn, slipped, overtaken, lost>>

\* jitUpsert: an account is anonymous until its first request that is not.
Link(u) ==
    /\ u \in guests \ deleted
    /\ guests' = guests \ {u}
    /\ UNCHANGED <<tables, over, request, conn, history, served, lost>>

Members == {u \in Users : role[u] # "none"}

\* The role a new row will carry goes by the account.
SeatRole(u) == IF u \in guests THEN "spectator" ELSE "solver"

\* Mutant: anyone who has the code is seated.
MayJoin_Open(u) == TRUE

\* seatJoiner: the denylist is read first.
MayJoin(u) == u \notin denied

Join(s, u) == MayJoin(u) /\ Begins(s, "join", u, u, "seat", SeatRole(u))

\* POST /role: full accounts only, and only a spectator is written.
Upgrade(s, u) ==
    /\ u \notin guests /\ role[u] = "spectator"
    /\ Begins(s, "upgrade", u, u, "write", role[u])

\* DELETE /members: the host by role, never themselves, and a member.
Kick(s, u, on) ==
    /\ role[u] = "host" /\ on # u /\ role[on] # "none"
    /\ Begins(s, "kick", u, on, "write", role[u])

\* POST /abandon: the host; the session service does the rest.
Abandon(s, u) ==
    role[u] = "host" /\ ~ over /\ Begins(s, "abandon", u, NoUser, "call", role[u])

\* deleteAccount reads the games the user hosts before its transaction.
DeleteAccount(s, u) == Begins(s, "delete", u, NoUser, "pick", role[u])

-----------------------------------------------------------------------------
(* Writes.                                                                 *)

\* What was read of u and not yet acted on: a handshake that has its role, a
\* re-verification that has its verdict, a join past the denylist.
Joining(u) == \E s \in Slots : request[s].kind = "join" /\ request[s].by = u
Stale(u) ==
    \/ conn[u].at = "admitted"
    \/ \E s \in Slots : request[s].at = "apply" /\ request[s].on = u
    \/ Joining(u)

Continues(s, at) == request' = [request EXCEPT ![s].at = at]
Ends(s) == request' = [request EXCEPT ![s] = Idle]

\* The insert does nothing on conflict.
Seat(s) ==
    /\ request[s].kind = "join" /\ request[s].at = "seat"
    /\ LET u == request[s].by
       IN  /\ role' = [role EXCEPT ![u] = IF @ = "none" THEN request[s].saw ELSE @]
           /\ older' = IF role[u] = "none" THEN older \cup (Members \X {u}) ELSE older
           /\ Ends(s)
    /\ UNCHANGED <<guests, denied, deleted, over, conn, history, served, lost>>

\* Mutant: the upgrade inserts the row if it is gone.
Upgraded_Upserts(u) == [role EXCEPT ![u] = "solver"]

\* The update names the row, not the role it had when it was read.
Upgraded(u) == [role EXCEPT ![u] = IF @ = "none" THEN @ ELSE "solver"]

WriteUpgrade(s) ==
    /\ request[s].kind = "upgrade" /\ request[s].at = "write"
    /\ LET u == request[s].by
       IN  /\ role' = Upgraded(u)
           /\ slipped' = IF Stale(u) THEN slipped \cup {u} ELSE slipped
    /\ Continues(s, "call")
    /\ UNCHANGED <<guests, older, denied, deleted, over, conn, overtaken, crossed, served, lost>>

\* The row of u is gone.
Without(u) == {pair \in older : u \notin {pair[1], pair[2]}}

\* One transaction: the membership goes, the denylist row comes.
WriteKick(s) ==
    /\ request[s].kind = "kick" /\ request[s].at = "write"
    /\ LET u == request[s].on
       IN  /\ role' = [role EXCEPT ![u] = "none"] /\ older' = Without(u)
           /\ denied' = denied \cup {u}
           /\ slipped' = IF Stale(u) THEN slipped \cup {u} ELSE slipped
           /\ overtaken' = IF Joining(u) THEN overtaken \cup {u} ELSE overtaken \ {u}
    /\ Continues(s, "call")
    /\ UNCHANGED <<guests, deleted, over, conn, crossed, served, lost>>

\* Mutant: spectators and guests succeed too.
Heirs_Anyone(u) == Members \ {u}

\* succeedHost's candidates: the solvers with a full account.
Heirs(u) == {v \in Users : role[v] = "solver" /\ v # u /\ v \notin guests}

\* The first of them by joined_at, if there is any.
Earliest(heirs) == {v \in heirs : \A w \in heirs \ {v} : <<v, w>> \in older}

\* The deletion transaction picks the heir, if the user hosts.
PickHeir(s) ==
    /\ request[s].kind = "delete" /\ request[s].at = "pick"
    /\ LET heir == IF request[s].saw = "host" THEN Earliest(Heirs(request[s].by)) ELSE {}
       IN  \E on \in IF heir = {} THEN {NoUser} ELSE heir :
              request' = [request EXCEPT ![s] = [@ EXCEPT !.at = "write", !.on = on]]
    /\ UNCHANGED <<guests, tables, over, conn, history, served, lost>>

\* It promotes the row it picked, whatever became of it, removes the user's rows
\* and tombstones the user.  A hosted game without an heir is to be abandoned.
WriteDelete(s) ==
    /\ request[s].kind = "delete" /\ request[s].at = "write"
    /\ LET u == request[s].by
           heir == request[s].on
       IN  /\ role' = [v \in Users |-> IF v = u THEN "none"
                                       ELSE IF v = heir /\ role[v] # "none" THEN "host"
                                       ELSE role[v]]
           /\ older' = Without(u)
           /\ denied' = denied \ {u} /\ deleted' = deleted \cup {u}
           /\ IF request[s].saw = "host" /\ heir = NoUser THEN Continues(s, "call") ELSE Ends(s)
    /\ UNCHANGED <<guests, over, conn, history, served, lost>>

-----------------------------------------------------------------------------
(* The membership-changed call and the session service.                    *)

Connected == {u \in Users : conn[u].at = "attached"}

\* The call arrives: an abandon runs on the actor, a kick or a role change
\* starts the re-verification of the users connected now.
CallArrives(s) ==
    /\ request[s].at = "call"
    /\ IF request[s].kind \in {"abandon", "delete"}
       THEN over' = TRUE /\ Ends(s)
       ELSE /\ request' = [request EXCEPT ![s] = [@ EXCEPT !.at = "verify", !.todo = Connected]]
            /\ UNCHANGED over
    /\ UNCHANGED <<guests, tables, conn, history, served, lost>>

\* notifyMembership swallows the failure; only abandon's route reports it.
CallFails(s) ==
    /\ request[s].at = "call" /\ lost < MaxLost
    /\ lost' = lost + 1 /\ Ends(s)
    /\ UNCHANGED <<guests, tables, over, conn, history, served>>

\* isDenied and findRole for one of them.  (The reads are two; a change between
\* them gives the verdict of before or of after, as one read does.)
Verify(s) ==
    /\ request[s].at = "verify"
    /\ IF request[s].todo = {} THEN Ends(s)
       ELSE \E u \in request[s].todo :
              request' = [request EXCEPT ![s] = [@ EXCEPT
                  !.at = "apply", !.on = u, !.todo = request[s].todo \ {u},
                  !.saw = IF u \in denied THEN "none" ELSE role[u]]]
    /\ UNCHANGED <<guests, tables, over, conn, history, served, lost>>

\* Mutant: the verdict of the re-verification only refreshes roles.
Applied_NeverDisconnects(c, verdict) ==
    IF c.at # "attached" \/ verdict = "none" THEN c ELSE [c EXCEPT !.role = verdict]

\* disconnectUser or setUserRole, on the sockets the user holds now.
Applied(c, verdict) ==
    IF c.at # "attached" THEN c ELSE IF verdict = "none" THEN NoConn
    ELSE [c EXCEPT !.role = verdict]

Apply(s) ==
    /\ request[s].at = "apply"
    /\ LET u == request[s].on
       IN  conn' = [conn EXCEPT ![u] = Applied(@, request[s].saw)]
    /\ Continues(s, "verify")
    /\ UNCHANGED <<guests, tables, over, history, served, lost>>

\* performHandshake reads the denylist, then the role, then attaches.
Hello(u) ==
    /\ conn[u] = NoConn /\ u \notin denied /\ u \notin deleted
    /\ conn' = [conn EXCEPT ![u].at = "role"]
    /\ UNCHANGED <<guests, tables, over, request, history, served, lost>>

ReadRole(u) ==
    /\ conn[u].at = "role"
    /\ conn' = [conn EXCEPT ![u] = IF role[u] = "none" THEN NoConn
                                   ELSE [at |-> "admitted", role |-> role[u]]]
    /\ UNCHANGED <<guests, tables, over, request, history, served, lost>>

Attach(u) ==
    /\ conn[u].at = "admitted"
    /\ conn' = [conn EXCEPT ![u].at = "attached"]
    /\ UNCHANGED <<guests, tables, over, request, history, served, lost>>

Leave(u) ==
    /\ conn[u].at = "attached"
    /\ conn' = [conn EXCEPT ![u] = NoConn]
    /\ UNCHANGED <<guests, tables, over, request, history, served, lost>>

-----------------------------------------------------------------------------

Asks ==
    \E s \in Slots, u \in Users :
        \/ Join(s, u) \/ Upgrade(s, u) \/ Abandon(s, u) \/ DeleteAccount(s, u)
        \/ \E on \in Users : Kick(s, u, on)

Works ==
    \E s \in Slots :
        \/ Seat(s) \/ WriteUpgrade(s) \/ WriteKick(s) \/ PickHeir(s) \/ WriteDelete(s)
        \/ CallArrives(s) \/ CallFails(s) \/ Verify(s) \/ Apply(s)

Plays == \E u \in Users : Link(u) \/ Hello(u) \/ ReadRole(u) \/ Attach(u) \/ Leave(u)

Next == Asks \/ Works \/ Plays

Spec == Init /\ [][Next]_vars

-----------------------------------------------------------------------------
(* What must hold.                                                         *)

Roles == {"host", "solver", "spectator"}
RequestTypes ==
    [kind : {"none", "join", "upgrade", "kick", "abandon", "delete"},
     by : Users \cup {NoUser}, on : Users \cup {NoUser},
     at : {"idle", "seat", "write", "call", "pick", "verify", "apply"},
     todo : SUBSET Users, saw : Roles \cup {"none"}]

\* The state is well formed: joined_at orders the members, and nobody else.
TypeOK ==
    /\ guests \subseteq Guests
    /\ role \in [Users -> Roles \cup {"none"}]
    /\ older \subseteq Members \X Members
    /\ \A u, v \in Members : u # v => (<<u, v>> \in older <=> <<v, u>> \notin older)
    /\ \A u \in Members : <<u, u>> \notin older
    /\ \A u, v, w \in Members : <<u, v>> \in older /\ <<v, w>> \in older => <<u, w>> \in older
    /\ denied \subseteq Users /\ deleted \subseteq Users /\ over \in BOOLEAN
    /\ request \in [Slots -> RequestTypes]
    /\ conn \in [Users -> [at : {"none", "role", "admitted", "attached"},
                           role : Roles \cup {"none"}]]
    /\ slipped \cup overtaken \subseteq Users /\ crossed \in BOOLEAN
    /\ served \in 0..MaxRequests /\ lost \in 0..MaxLost

Hosts == {u \in Users : role[u] = "host"}

\* DESIGN 7: a game is never left unadministrable.  Through joins, kicks,
\* upgrades and deletions it has one host, with a full account, until it is
\* abandoned, unless a deletion overlaps another change or its call is lost.
OneHost ==
    /\ Hosts \cap guests = {}
    /\ ~ crossed => Cardinality(Hosts) <= 1
    /\ ~ crossed /\ lost = 0 /\ Hosts = {} =>
          over \/ \E s \in Slots : request[s].kind = "delete" /\ request[s].at = "call"

\* routes.ts: a kicked user never lands in a half-state, whatever joins, upgrades,
\* deletions and other kicks run beside the kick: nobody denied has a row.  One race is
\* left out, which the code allows: a join that had passed the denylist when the kick
\* committed seats its user after it.
NoHalfState == \A u \in denied : role[u] = "none" \/ u \in overtaken

Settled == request = [s \in Slots |-> Idle]
MayWrite(r) == r \in {"host", "solver"}

\* INV-8: once every call has been delivered and worked off, each live socket
\* belongs to a member, nobody denied holds one, and it may write exactly if the
\* membership may, whatever the order of kicks, upgrades, handshakes and
\* re-verifications, unless a change slipped in behind a check already made.  Deleted
\* accounts are left out: a deletion notifies nobody of the account it removes.
SocketsFollowMembership ==
    Settled /\ lost = 0 =>
        \A u \in Connected \ (slipped \cup deleted) :
            u \notin denied /\ role[u] # "none" /\ MayWrite(conn[u].role) = MayWrite(role[u])

\* internal.ts: denylist and connect-time re-verification enforce a kick.
KickedIsOut == Settled /\ lost = 0 => Connected \cap denied = {}

=============================================================================
