--------------------------- MODULE MembershipProofs ---------------------------
(***************************************************************************)
(* Proofs about who is in a game, for any number of accounts, requests and *)
(* lost calls: joined_at orders the members; a kick leaves no half-state;  *)
(* a game keeps one host; and the sockets follow the memberships.          *)
(***************************************************************************)
EXTENDS Membership, FiniteSetTheorems, TLAPS

-----------------------------------------------------------------------------
(* Types, and what each step does to the request it works on.              *)

RequestsOK == request \in [Slots -> RequestTypes]

PeopleOK ==
    /\ guests \subseteq Guests
    /\ role \in [Users -> Roles \cup {"none"}]
    /\ denied \subseteq Users /\ deleted \subseteq Users /\ over \in BOOLEAN
    /\ conn \in [Users -> [at : {"none", "role", "admitted", "attached"},
                           role : Roles \cup {"none"}]]
    /\ slipped \cup overtaken \subseteq Users /\ crossed \in BOOLEAN

CountersOK == served \in 0..MaxRequests /\ lost \in 0..MaxLost

\* joined_at orders the members, and nobody else.
Ordered ==
    /\ older \subseteq Members \X Members
    /\ \A u, v \in Members : u # v => (<<u, v>> \in older <=> <<v, u>> \notin older)
    /\ \A u \in Members : <<u, u>> \notin older
    /\ \A u, v, w \in Members : <<u, v>> \in older /\ <<v, w>> \in older => <<u, w>> \in older

LEMMA TypeParts == TypeOK <=> RequestsOK /\ PeopleOK /\ CountersOK /\ Ordered
BY DEF TypeOK, RequestsOK, PeopleOK, CountersOK, Ordered

LEMMA TypePartsNext == RequestsOK' /\ PeopleOK' /\ CountersOK' /\ Ordered' => TypeOK'
BY TypeParts, PTL

\* Only the request in slot s changes, and stays typed.
Turns(s) ==
    /\ request' \in [Slots -> RequestTypes]
    /\ \A t \in Slots : t # s => request'[t] = request[t]

\* The request in slot s goes on as it is, but for where it stands.
GoesOn(s, at) ==
    /\ Turns(s)
    /\ request'[s].kind = request[s].kind /\ request'[s].by = request[s].by
    /\ request'[s].on = request[s].on /\ request'[s].saw = request[s].saw
    /\ request'[s].todo = request[s].todo /\ request'[s].at = at

LEMMA Replaced ==
    ASSUME RequestsOK, NEW s \in Slots, NEW new \in RequestTypes,
           request' = [request EXCEPT ![s] = new]
    PROVE  Turns(s) /\ request'[s] = new
BY DEF RequestsOK, Turns

LEMMA IdleIsTyped == Idle \in RequestTypes
BY DEF Idle, RequestTypes

LEMMA EndsEffect ==
    ASSUME RequestsOK, NEW s \in Slots, Ends(s)
    PROVE  Turns(s) /\ request'[s] = Idle
BY IdleIsTyped, Replaced DEF Ends

LEMMA ContinuesEffect ==
    ASSUME RequestsOK, NEW s \in Slots, NEW at \in {"call", "verify"}, Continues(s, at)
    PROVE  GoesOn(s, at)
<1> DEFINE q == request[s]
           new == [q EXCEPT !.at = at]
<1>1. q \in RequestTypes /\ request' = [request EXCEPT ![s] = new]
  BY DEF RequestsOK, Continues
<1> HIDE DEF q
<1>2. /\ new \in RequestTypes /\ new.kind = q.kind /\ new.by = q.by /\ new.on = q.on
      /\ new.saw = q.saw /\ new.todo = q.todo /\ new.at = at
  BY <1>1 DEF RequestTypes
<1> HIDE DEF new
<1> QED BY <1>1, <1>2, Replaced DEF q, GoesOn

LEMMA BeginsEffect ==
    ASSUME RequestsOK, NEW s \in Slots, NEW u \in Users, NEW on \in Users \cup {NoUser},
           NEW kind \in {"join", "upgrade", "kick", "abandon", "delete"},
           NEW at \in {"seat", "write", "call", "pick"}, NEW saw \in Roles \cup {"none"},
           Begins(s, kind, u, on, at, saw)
    PROVE  /\ Turns(s) /\ request[s] = Idle
           /\ request'[s].kind = kind /\ request'[s].by = u /\ request'[s].on = on
           /\ request'[s].at = at /\ request'[s].saw = saw /\ request'[s].todo = {}
<1> DEFINE new == [kind |-> kind, by |-> u, on |-> on, at |-> at, todo |-> {}, saw |-> saw]
<1>1. /\ request' = [request EXCEPT ![s] = new] /\ request[s] = Idle
  BY DEF Begins
<1>2. /\ new \in RequestTypes /\ new.kind = kind /\ new.by = u /\ new.on = on /\ new.at = at
      /\ new.saw = saw /\ new.todo = {}
  BY DEF RequestTypes
<1> HIDE DEF new
<1> QED BY <1>1, <1>2, Replaced

LEMMA PickHeirEffect ==
    ASSUME RequestsOK, NEW s \in Slots, PickHeir(s)
    PROVE  /\ Turns(s) /\ request'[s].kind = request[s].kind /\ request'[s].by = request[s].by
           /\ request'[s].saw = request[s].saw /\ request'[s].at = "write"
           /\ \/ request'[s].on = NoUser
              \/ request[s].saw = "host" /\ request'[s].on \in Heirs(request[s].by)
<1> DEFINE q == request[s]
           heir == IF q.saw = "host" THEN Earliest(Heirs(q.by)) ELSE {}
<1>1. PICK on \in IF heir = {} THEN {NoUser} ELSE heir :
          request' = [request EXCEPT ![s] = [@ EXCEPT !.at = "write", !.on = on]]
  BY DEF PickHeir
<1>2. on = NoUser \/ (q.saw = "host" /\ on \in Heirs(q.by))
  BY DEF Earliest
<1>3. on \in Users \cup {NoUser}
  BY <1>2 DEF Heirs
<1> DEFINE new == [q EXCEPT !.at = "write", !.on = on]
<1>4. q \in RequestTypes /\ request' = [request EXCEPT ![s] = new]
  BY <1>1 DEF RequestsOK
<1> HIDE DEF q, heir
<1>5. /\ new \in RequestTypes /\ new.kind = q.kind /\ new.by = q.by /\ new.on = on
      /\ new.saw = q.saw /\ new.at = "write"
  BY <1>3, <1>4 DEF RequestTypes
<1> HIDE DEF new
<1> QED BY <1>2, <1>4, <1>5, Replaced DEF q

LEMMA CallArrivesEffect ==
    ASSUME RequestsOK, NEW s \in Slots, CallArrives(s)
    PROVE  /\ Turns(s) /\ request[s].at = "call"
           /\ \/ request[s].kind \in {"abandon", "delete"} /\ over' /\ request'[s] = Idle
              \/ /\ request[s].kind \notin {"abandon", "delete"} /\ UNCHANGED over
                 /\ request'[s].kind = request[s].kind /\ request'[s].by = request[s].by
                 /\ request'[s].at = "verify" /\ request'[s].todo = Connected
<1>1. CASE request[s].kind \in {"abandon", "delete"}
  BY <1>1, EndsEffect DEF CallArrives
<1>2. CASE request[s].kind \notin {"abandon", "delete"}
  <2> DEFINE q == request[s]
             new == [q EXCEPT !.at = "verify", !.todo = Connected]
  <2>1. q \in RequestTypes /\ request' = [request EXCEPT ![s] = new] /\ Connected \in SUBSET Users
        /\ q.at = "call" /\ UNCHANGED over
    BY <1>2 DEF RequestsOK, CallArrives, Connected
  <2> HIDE DEF q
  <2>2. /\ new \in RequestTypes /\ new.kind = q.kind /\ new.by = q.by /\ new.at = "verify"
        /\ new.todo = Connected
    BY <2>1 DEF RequestTypes
  <2> HIDE DEF new
  <2> QED BY <1>2, <2>1, <2>2, Replaced DEF q
<1> QED BY <1>1, <1>2

\* What a re-verification reads of u.
Verdict(u) == IF u \in denied THEN "none" ELSE role[u]

LEMMA VerifyEffect ==
    ASSUME RequestsOK, PeopleOK, NEW s \in Slots, Verify(s)
    PROVE  /\ Turns(s) /\ request[s].at = "verify"
           /\ \/ request[s].todo = {} /\ request'[s] = Idle
              \/ \E u \in request[s].todo :
                    /\ u \in Users
                    /\ request'[s].kind = request[s].kind /\ request'[s].by = request[s].by
                    /\ request'[s].at = "apply" /\ request'[s].on = u
                    /\ request'[s].todo = request[s].todo \ {u} /\ request'[s].saw = Verdict(u)
<1>1. CASE request[s].todo = {}
  BY <1>1, EndsEffect DEF Verify
<1>2. CASE request[s].todo # {}
  <2> DEFINE q == request[s]
  <2>1. PICK u \in q.todo :
              request' = [request EXCEPT ![s] = [@ EXCEPT
                  !.at = "apply", !.on = u, !.todo = q.todo \ {u}, !.saw = Verdict(u)]]
    BY <1>2 DEF Verify, Verdict
  <2>2. q \in RequestTypes /\ q.at = "verify"
    BY DEF RequestsOK, Verify
  <2>3. u \in Users /\ Verdict(u) \in Roles \cup {"none"} /\ q.todo \ {u} \in SUBSET Users
    BY <2>2 DEF RequestTypes, Verdict, PeopleOK
  <2> DEFINE new == [q EXCEPT !.at = "apply", !.on = u, !.todo = q.todo \ {u}, !.saw = Verdict(u)]
  <2>4. request' = [request EXCEPT ![s] = new]
    BY <2>1 DEF RequestsOK
  <2> HIDE DEF q
  <2>5. /\ new \in RequestTypes /\ new.kind = q.kind /\ new.by = q.by /\ new.at = "apply"
        /\ new.on = u /\ new.todo = q.todo \ {u} /\ new.saw = Verdict(u)
    BY <2>2, <2>3 DEF RequestTypes
  <2> HIDE DEF new
  <2> QED BY <2>1, <2>2, <2>3, <2>4, <2>5, Replaced DEF q
<1> QED BY <1>1, <1>2

-----------------------------------------------------------------------------
(* joined_at orders the members.                                           *)

LEMMA OrderSame == ASSUME Ordered, Members' = Members, older' = older PROVE Ordered'
BY DEF Ordered

LEMMA OrderAdds ==
    ASSUME Ordered, NEW u, u \notin Members, Members' = Members \cup {u},
           older' = older \cup (Members \X {u})
    PROVE  Ordered'
<1>1. \A v, w : <<v, w>> \in older' <=> <<v, w>> \in older \/ (v \in Members /\ w = u)
  OBVIOUS
<1>2. \A v, w : <<v, w>> \in older => v \in Members /\ w \in Members
  BY DEF Ordered
<1>3. older' \subseteq Members' \X Members'
  BY DEF Ordered
<1>4. ASSUME NEW v \in Members', NEW w \in Members', v # w
      PROVE  <<v, w>> \in older' <=> <<w, v>> \notin older'
  <2>1. CASE v \in Members /\ w \in Members
    <3>1. <<v, w>> \in older <=> <<w, v>> \notin older
      BY <1>4, <2>1 DEF Ordered
    <3>2. v # u /\ w # u
      BY <2>1
    <3> QED BY <1>1, <3>1, <3>2
  <2>2. CASE v = u
    <3>1. w \in Members /\ <<u, w>> \notin older
      BY <1>2, <1>4, <2>2
    <3> QED BY <1>1, <1>4, <2>2, <3>1
  <2>3. CASE w = u
    <3>1. v \in Members /\ <<u, v>> \notin older
      BY <1>2, <1>4, <2>3
    <3> QED BY <1>1, <1>4, <2>3, <3>1
  <2> QED BY <2>1, <2>2, <2>3
<1>5. \A v \in Members' : <<v, v>> \notin older'
  BY <1>1, <1>2 DEF Ordered
<1>6. \A v, w, x \in Members' : <<v, w>> \in older' /\ <<w, x>> \in older' => <<v, x>> \in older'
  BY <1>1, <1>2 DEF Ordered
<1> QED BY <1>3, <1>4, <1>5, <1>6 DEF Ordered

LEMMA OrderDrops ==
    ASSUME Ordered, NEW u, Members' = Members \ {u}, older' = Without(u)
    PROVE  Ordered'
<1>1. \A v, w : <<v, w>> \in older' <=> <<v, w>> \in older /\ v # u /\ w # u
  BY DEF Without
<1>2. \A v, w : <<v, w>> \in older => v \in Members /\ w \in Members
  BY DEF Ordered
<1>3. older' \subseteq Members' \X Members'
  <2>1. ASSUME NEW pair \in older' PROVE pair \in Members' \X Members'
    <3>1. pair \in older /\ u \notin {pair[1], pair[2]}
      BY DEF Without
    <3>2. pair \in Members \X Members
      BY <3>1 DEF Ordered
    <3> QED BY <3>1, <3>2
  <2> QED BY <2>1
<1>4. \A v, w \in Members' : v # w => (<<v, w>> \in older' <=> <<w, v>> \notin older')
  BY <1>1 DEF Ordered
<1>5. \A v \in Members' : <<v, v>> \notin older'
  BY <1>1 DEF Ordered
<1>6. \A v, w, x \in Members' : <<v, w>> \in older' /\ <<w, x>> \in older' => <<v, x>> \in older'
  BY <1>1 DEF Ordered
<1> QED BY <1>3, <1>4, <1>5, <1>6 DEF Ordered

-----------------------------------------------------------------------------
(* What the requests in flight may rely on.                                *)

\* A request names the accounts its kind needs; a join seats a player, not a host, and only
\* a full account inherits.
IsAimed(q) ==
    /\ q.kind = "join" => q.by \in Users /\ q.saw \in {"solver", "spectator"} /\ q.at = "seat"
    /\ q.kind = "kick" => q.on \in Users
    /\ q.kind = "delete" => q.by \in Users /\ q.at \in {"pick", "write", "call"}
    /\ q.kind = "upgrade" => q.by \in Users /\ (q.at \in {"write", "call"} => q.on = q.by)
    /\ q.at = "apply" => q.on \in Users

Aimed == \A s \in Slots : IsAimed(request[s])

HeirsAreFull ==
    \A s \in Slots : LET q == request[s] IN
        q.kind = "delete" /\ q.at = "write" /\ q.on # NoUser => q.on \in Users \ guests

HostsAreFull == Hosts \cap guests = {}

\* A join that is about to seat its user passed the denylist, and no kick has
\* committed since without being noted.
JoinsPassed ==
    /\ \A s \in Slots : request[s].kind = "join" =>
           (request[s].by \in denied => request[s].by \in overtaken)
    /\ overtaken \subseteq slipped

Base == TypeOK /\ Aimed /\ HeirsAreFull /\ HostsAreFull /\ JoinsPassed /\ NoHalfState

LEMMA InitBase == Init => Base
<1> SUFFICES ASSUME Init PROVE Base
  OBVIOUS
<1>1. \A s \in Slots : request[s] = Idle
  BY DEF Init
<1>2. Idle.kind = "none" /\ Idle.at = "idle"
  BY DEF Idle
<1>3. RequestsOK
  BY IdleIsTyped DEF Init, RequestsOK
<1>4. PeopleOK
  BY DEF Init, PeopleOK, Roles, NoConn
<1>5. CountersOK
  BY MembershipAssumption DEF Init, CountersOK
<1>6. Ordered
  <2>1. older = {} /\ \A u, v \in Members : u = v
    BY DEF Init, Members
  <2> QED BY <2>1 DEF Ordered
<1>7. Aimed /\ HeirsAreFull /\ JoinsPassed
  BY <1>1, <1>2 DEF Init, Aimed, IsAimed, HeirsAreFull, JoinsPassed
<1>8. HostsAreFull /\ NoHalfState
  BY MembershipAssumption DEF Init, HostsAreFull, Hosts, NoHalfState
<1> QED BY <1>3, <1>4, <1>5, <1>6, <1>7, <1>8, TypeParts DEF Base

LEMMA BaseFacts ==
    ASSUME Base
    PROVE  /\ RequestsOK /\ PeopleOK /\ CountersOK /\ Ordered
           /\ \A s \in Slots : /\ request[s] \in RequestTypes /\ IsAimed(request[s])
                               /\ request[s].saw \in Roles \cup {"none"}
                               /\ request[s].todo \subseteq Users
           /\ \A u \in Users : role[u] \in Roles \cup {"none"}
<1>1. RequestsOK /\ PeopleOK /\ CountersOK /\ Ordered
  BY TypeParts DEF Base
<1> QED BY <1>1 DEF Base, RequestsOK, PeopleOK, RequestTypes, Aimed

\* What leaves the rows, the denylist and the accounts alone.
LEMMA BaseAlone ==
    ASSUME Base, UNCHANGED <<role, older, denied, guests, slipped, overtaken>>, NEW s \in Slots, Turns(s),
           IsAimed(request'[s]), PeopleOK', CountersOK',
           request'[s].kind = "join" => request[s].kind = "join" /\ request'[s].by = request[s].by,
           \/ request'[s].kind # "delete" \/ request'[s].at # "write"
           \/ request'[s].on = NoUser \/ request'[s].on \notin guests
    PROVE  Base'
<1>0. RequestsOK /\ Ordered /\ Aimed /\ HeirsAreFull /\ HostsAreFull /\ JoinsPassed /\ NoHalfState
  BY BaseFacts DEF Base
<1>1. RequestsOK' /\ Aimed'
  BY <1>0 DEF Turns, RequestsOK, Aimed
<1>2. Ordered'
  BY <1>0, OrderSame DEF Members
<1>3. HeirsAreFull'
  <2>1. request'[s].on \in Users \cup {NoUser}
    BY <1>1 DEF RequestsOK, RequestTypes
  <2> QED BY <1>0, <2>1 DEF HeirsAreFull, Turns
<1>4. JoinsPassed'
  BY <1>0 DEF JoinsPassed, Turns
<1>5. HostsAreFull' /\ NoHalfState'
  BY <1>0 DEF HostsAreFull, Hosts, NoHalfState
<1> QED BY <1>1, <1>2, <1>3, <1>4, <1>5, TypePartsNext DEF Base

LEMMA BaseBegins ==
    ASSUME Base, NEW s \in Slots, NEW u \in Users, NEW on \in Users \cup {NoUser},
           NEW kind \in {"join", "upgrade", "kick", "abandon", "delete"},
           NEW at \in {"seat", "write", "call", "pick"}, NEW saw \in Roles \cup {"none"},
           Begins(s, kind, u, on, at, saw),
           kind = "join" => u \notin denied /\ saw \in {"solver", "spectator"} /\ at = "seat",
           kind = "kick" => on \in Users, kind = "upgrade" => on = u,
           kind = "delete" => at = "pick"
    PROVE  Base'
<1>0. /\ RequestsOK /\ PeopleOK /\ CountersOK /\ Ordered /\ Aimed /\ HeirsAreFull /\ HostsAreFull
      /\ JoinsPassed /\ NoHalfState
  BY BaseFacts DEF Base
<1>1. /\ Turns(s) /\ request'[s].kind = kind /\ request'[s].by = u /\ request'[s].on = on
      /\ request'[s].at = at /\ request'[s].saw = saw
  BY <1>0, BeginsEffect
<1>2. /\ UNCHANGED <<guests, role, older, denied, deleted, over, conn, slipped, overtaken, lost>>
      /\ served' = served + 1 /\ served < MaxRequests /\ crossed' \in BOOLEAN
  BY <1>0 DEF Begins, tables, PeopleOK
<1>3. PeopleOK'
  BY <1>0, <1>2 DEF PeopleOK
<1>4. CountersOK'
  BY <1>0, <1>2, MembershipAssumption DEF CountersOK
<1>5. RequestsOK' /\ Aimed'
  BY <1>0, <1>1 DEF RequestsOK, Turns, Aimed, IsAimed
<1>6. Ordered'
  BY <1>0, <1>2, OrderSame DEF Members
<1>7. HeirsAreFull' /\ JoinsPassed'
  BY <1>0, <1>1, <1>2 DEF HeirsAreFull, JoinsPassed, Turns
<1>8. HostsAreFull' /\ NoHalfState'
  BY <1>0, <1>2 DEF HostsAreFull, Hosts, NoHalfState
<1> QED BY <1>3, <1>4, <1>5, <1>6, <1>7, <1>8, TypePartsNext DEF Base

-----------------------------------------------------------------------------
(* The writes.                                                             *)

\* Only the row of u changes, and stays typed.
Writes(u) ==
    /\ role' \in [Users -> Roles \cup {"none"}]
    /\ \A v \in Users : v # u => role'[v] = role[v]

\* Notes u if what was read of u is still to be used.
Notes(u) == slipped' = IF Stale(u) THEN slipped \cup {u} ELSE slipped

\* Notes whether a join of u is past the denylist.
Overtakes(u) == overtaken' = IF Joining(u) THEN overtaken \cup {u} ELSE overtaken \ {u}

LEMMA SeatEffect ==
    ASSUME Base, NEW s \in Slots, Seat(s), NEW u, u = request[s].by
    PROVE  /\ u \in Users /\ Turns(s) /\ request'[s] = Idle /\ Writes(u)
           /\ request[s].kind = "join"
           /\ \/ role[u] # "none" /\ role'[u] = role[u] /\ older' = older
              \/ /\ role[u] = "none" /\ role'[u] \in {"solver", "spectator"}
                 /\ older' = older \cup (Members \X {u})
           /\ UNCHANGED <<guests, denied, deleted, over, conn, slipped, overtaken, crossed, served, lost>>
<1>1. /\ request[s].kind = "join" /\ u \in Users /\ request[s].saw \in {"solver", "spectator"}
      /\ RequestsOK /\ PeopleOK
  BY BaseFacts DEF Seat, IsAimed
<1>2. Turns(s) /\ request'[s] = Idle
  BY <1>1, EndsEffect DEF Seat
<1>3. role' = [role EXCEPT ![u] = IF role[u] = "none" THEN request[s].saw ELSE role[u]]
  BY DEF Seat
<1>4. Writes(u) /\ role'[u] = IF role[u] = "none" THEN request[s].saw ELSE role[u]
  BY <1>1, <1>3 DEF PeopleOK, Writes, Roles
<1> QED BY <1>1, <1>2, <1>4 DEF Seat, history

LEMMA WriteUpgradeEffect ==
    ASSUME Base, NEW s \in Slots, WriteUpgrade(s), NEW u, u = request[s].by
    PROVE  /\ u \in Users /\ GoesOn(s, "call") /\ Writes(u) /\ Notes(u)
           /\ request[s].kind = "upgrade" /\ request[s].at = "write" /\ request[s].on = u
           /\ role'[u] = IF role[u] = "none" THEN "none" ELSE "solver"
           /\ UNCHANGED <<guests, older, denied, deleted, over, conn, overtaken, crossed, served, lost>>
<1>1. /\ request[s].kind = "upgrade" /\ request[s].at = "write" /\ request[s].on = u
      /\ u \in Users /\ RequestsOK /\ PeopleOK
  BY BaseFacts DEF WriteUpgrade, IsAimed
<1>2. GoesOn(s, "call")
  BY <1>1, ContinuesEffect DEF WriteUpgrade
<1>3. role' = [role EXCEPT ![u] = IF role[u] = "none" THEN role[u] ELSE "solver"]
  BY DEF WriteUpgrade, Upgraded
<1>4. Writes(u) /\ role'[u] = IF role[u] = "none" THEN "none" ELSE "solver"
  BY <1>1, <1>3 DEF PeopleOK, Writes, Roles
<1> QED BY <1>1, <1>2, <1>4 DEF WriteUpgrade, Notes

LEMMA WriteKickEffect ==
    ASSUME Base, NEW s \in Slots, WriteKick(s), NEW u, u = request[s].on
    PROVE  /\ u \in Users /\ GoesOn(s, "call") /\ Writes(u) /\ Notes(u)
           /\ request[s].kind = "kick" /\ request[s].at = "write"
           /\ role'[u] = "none" /\ older' = Without(u) /\ denied' = denied \cup {u} /\ Overtakes(u)
           /\ UNCHANGED <<guests, deleted, over, conn, crossed, served, lost>>
<1>1. /\ request[s].kind = "kick" /\ request[s].at = "write" /\ u \in Users
      /\ RequestsOK /\ PeopleOK
  BY BaseFacts DEF WriteKick, IsAimed
<1>2. GoesOn(s, "call")
  BY <1>1, ContinuesEffect DEF WriteKick
<1>3. role' = [role EXCEPT ![u] = "none"]
  BY DEF WriteKick
<1>4. Writes(u) /\ role'[u] = "none"
  BY <1>1, <1>3 DEF PeopleOK, Writes
<1> QED BY <1>1, <1>2, <1>4 DEF WriteKick, Notes, Overtakes

LEMMA WriteDeleteEffect ==
    ASSUME Base, NEW s \in Slots, WriteDelete(s), NEW u, u = request[s].by,
           NEW heir, heir = request[s].on
    PROVE  /\ u \in Users /\ Turns(s) /\ role' \in [Users -> Roles \cup {"none"}]
           /\ request[s].kind = "delete" /\ request[s].at = "write"
           /\ role'[u] = "none" /\ older' = Without(u)
           /\ heir \in Users /\ heir # u /\ role[heir] # "none" => role'[heir] = "host"
           /\ \A v \in Users : v # u /\ (v # heir \/ role[v] = "none") => role'[v] = role[v]
           /\ denied' = denied \ {u} /\ deleted' = deleted \cup {u}
           /\ IF request[s].saw = "host" /\ heir = NoUser THEN GoesOn(s, "call")
              ELSE request'[s] = Idle
           /\ UNCHANGED <<guests, over, conn, slipped, overtaken, crossed, served, lost>>
<1>1. /\ request[s].kind = "delete" /\ request[s].at = "write" /\ u \in Users
      /\ RequestsOK /\ PeopleOK
  BY BaseFacts DEF WriteDelete, IsAimed
<1>2. /\ Turns(s)
      /\ IF request[s].saw = "host" /\ heir = NoUser THEN GoesOn(s, "call") ELSE request'[s] = Idle
  <2>1. CASE request[s].saw = "host" /\ heir = NoUser
    <3>1. Continues(s, "call")
      BY <2>1 DEF WriteDelete
    <3> QED BY <1>1, <2>1, <3>1, ContinuesEffect DEF GoesOn
  <2>2. CASE ~ (request[s].saw = "host" /\ heir = NoUser)
    <3>1. Ends(s)
      BY <2>2 DEF WriteDelete
    <3> QED BY <1>1, <2>2, <3>1, EndsEffect
  <2> QED BY <2>1, <2>2
<1>3. role' = [v \in Users |-> IF v = u THEN "none"
                               ELSE IF v = heir /\ role[v] # "none" THEN "host" ELSE role[v]]
  BY DEF WriteDelete
<1>4. /\ role' \in [Users -> Roles \cup {"none"}] /\ role'[u] = "none"
      /\ heir \in Users /\ heir # u /\ role[heir] # "none" => role'[heir] = "host"
      /\ \A v \in Users : v # u /\ (v # heir \/ role[v] = "none") => role'[v] = role[v]
  BY <1>1, <1>3 DEF PeopleOK, Roles
<1> QED BY <1>1, <1>2, <1>4 DEF WriteDelete, history

LEMMA BaseSeat == ASSUME Base, NEW s \in Slots, Seat(s) PROVE Base'
<1>0. PICK u : u = request[s].by
  OBVIOUS
<1>1. /\ RequestsOK /\ PeopleOK /\ CountersOK /\ Ordered /\ Aimed /\ HeirsAreFull /\ HostsAreFull
      /\ JoinsPassed /\ NoHalfState
  BY BaseFacts DEF Base
<1>2. /\ u \in Users /\ Turns(s) /\ request'[s] = Idle /\ Writes(u)
      /\ request[s].kind = "join"
      /\ \/ role[u] # "none" /\ role'[u] = role[u] /\ older' = older
         \/ /\ role[u] = "none" /\ role'[u] \in {"solver", "spectator"}
            /\ older' = older \cup (Members \X {u})
      /\ UNCHANGED <<guests, denied, deleted, over, conn, slipped, overtaken, crossed, served, lost>>
  BY <1>0, SeatEffect
<1>3. Ordered'
  <2>1. CASE role[u] # "none"
    <3>1. Members' = Members
      BY <1>2, <2>1 DEF Members, Writes
    <3> QED BY <1>1, <1>2, <2>1, <3>1, OrderSame
  <2>2. CASE role[u] = "none"
    <3>1. Members' = Members \cup {u} /\ u \notin Members
      BY <1>2, <2>2 DEF Members, Writes
    <3> QED BY <1>1, <1>2, <2>2, <3>1, OrderAdds
  <2> QED BY <2>1, <2>2
<1>4. RequestsOK' /\ Aimed' /\ HeirsAreFull' /\ JoinsPassed'
  BY <1>1, <1>2 DEF RequestsOK, Turns, Aimed, IsAimed, Idle, HeirsAreFull, JoinsPassed
<1>5. PeopleOK' /\ CountersOK'
  BY <1>1, <1>2 DEF PeopleOK, CountersOK, Writes
<1>6. HostsAreFull'
  BY <1>1, <1>2 DEF HostsAreFull, Hosts, Writes
<1>7. NoHalfState'
  BY <1>0, <1>1, <1>2 DEF NoHalfState, JoinsPassed, Writes, PeopleOK
<1> QED BY <1>3, <1>4, <1>5, <1>6, <1>7, TypePartsNext DEF Base

LEMMA BaseWriteUpgrade == ASSUME Base, NEW s \in Slots, WriteUpgrade(s) PROVE Base'
<1>0. PICK u : u = request[s].by
  OBVIOUS
<1>1. /\ RequestsOK /\ PeopleOK /\ CountersOK /\ Ordered /\ Aimed /\ HeirsAreFull /\ HostsAreFull
      /\ JoinsPassed /\ NoHalfState
  BY BaseFacts DEF Base
<1>2. /\ u \in Users /\ GoesOn(s, "call") /\ Writes(u) /\ Notes(u)
      /\ request[s].kind = "upgrade" /\ request[s].at = "write" /\ request[s].on = u
      /\ role'[u] = IF role[u] = "none" THEN "none" ELSE "solver"
      /\ UNCHANGED <<guests, older, denied, deleted, over, conn, overtaken, crossed, served, lost>>
  BY <1>0, WriteUpgradeEffect
<1>3. Ordered'
  <2>1. Members' = Members
    BY <1>2 DEF Members, Writes
  <2> QED BY <1>1, <1>2, <2>1, OrderSame
<1>4. slipped \subseteq slipped' /\ slipped' \subseteq Users
  BY <1>1, <1>2 DEF Notes, PeopleOK
<1>5. RequestsOK' /\ Aimed'
  BY <1>0, <1>1, <1>2 DEF RequestsOK, Turns, GoesOn, Aimed, IsAimed
<1>6. HeirsAreFull'
  BY <1>1, <1>2 DEF HeirsAreFull, Turns, GoesOn
<1>7. JoinsPassed'
  BY <1>1, <1>2, <1>4 DEF JoinsPassed, Turns, GoesOn
<1>8. PeopleOK' /\ CountersOK'
  BY <1>1, <1>2, <1>4 DEF PeopleOK, CountersOK, Writes
<1>9. HostsAreFull'
  BY <1>1, <1>2 DEF HostsAreFull, Hosts, Writes
<1>10. NoHalfState'
  BY <1>1, <1>2, <1>4 DEF NoHalfState, Writes, PeopleOK
<1> QED BY <1>3, <1>5, <1>6, <1>7, <1>8, <1>9, <1>10, TypePartsNext DEF Base

LEMMA BaseWriteKick == ASSUME Base, NEW s \in Slots, WriteKick(s) PROVE Base'
<1>0. PICK u : u = request[s].on
  OBVIOUS
<1>1. /\ RequestsOK /\ PeopleOK /\ CountersOK /\ Ordered /\ Aimed /\ HeirsAreFull /\ HostsAreFull
      /\ JoinsPassed /\ NoHalfState
  BY BaseFacts DEF Base
<1>2. /\ u \in Users /\ GoesOn(s, "call") /\ Writes(u) /\ Notes(u)
      /\ request[s].kind = "kick" /\ request[s].at = "write"
      /\ role'[u] = "none" /\ older' = Without(u) /\ denied' = denied \cup {u} /\ Overtakes(u)
      /\ UNCHANGED <<guests, deleted, over, conn, crossed, served, lost>>
  BY <1>0, WriteKickEffect
<1>3. Ordered'
  <2>1. Members' = Members \ {u}
    BY <1>2 DEF Members, Writes
  <2> QED BY <1>1, <1>2, <2>1, OrderDrops
<1>4. /\ slipped \subseteq slipped' /\ slipped' \subseteq Users
      /\ overtaken \ {u} \subseteq overtaken' /\ overtaken' \subseteq overtaken \cup {u}
      /\ Joining(u) => u \in overtaken'
      /\ u \in overtaken' => u \in slipped'
  BY <1>1, <1>2 DEF Notes, Overtakes, Stale, PeopleOK
<1>5. RequestsOK' /\ Aimed'
  BY <1>0, <1>1, <1>2 DEF RequestsOK, Turns, GoesOn, Aimed, IsAimed
<1>6. HeirsAreFull'
  BY <1>1, <1>2 DEF HeirsAreFull, Turns, GoesOn
<1>7. JoinsPassed'
  <2>1. ASSUME NEW t \in Slots, request'[t].kind = "join", request'[t].by \in denied'
        PROVE  request'[t].by \in overtaken'
    <3>1. t # s /\ request'[t] = request[t]
      BY <1>2, <2>1 DEF Turns, GoesOn
    <3>2. CASE request[t].by = u
      <4>1. Joining(u)
        BY <2>1, <3>1, <3>2 DEF Joining
      <4> QED BY <1>4, <3>1, <3>2, <4>1
    <3>3. CASE request[t].by # u
      BY <1>1, <1>2, <1>4, <2>1, <3>1, <3>3 DEF JoinsPassed
    <3> QED BY <3>2, <3>3
  <2>2. overtaken' \subseteq slipped'
    BY <1>1, <1>4 DEF JoinsPassed
  <2> QED BY <2>1, <2>2 DEF JoinsPassed
<1>8. PeopleOK' /\ CountersOK'
  BY <1>1, <1>2, <1>4 DEF PeopleOK, CountersOK, Writes
<1>9. HostsAreFull'
  BY <1>1, <1>2 DEF HostsAreFull, Hosts, Writes
<1>10. NoHalfState'
  BY <1>1, <1>2, <1>4 DEF NoHalfState, Writes, PeopleOK
<1> QED BY <1>3, <1>5, <1>6, <1>7, <1>8, <1>9, <1>10, TypePartsNext DEF Base

LEMMA BaseWriteDelete == ASSUME Base, NEW s \in Slots, WriteDelete(s) PROVE Base'
<1>0. PICK u, heir : u = request[s].by /\ heir = request[s].on
  OBVIOUS
<1>1. /\ RequestsOK /\ PeopleOK /\ CountersOK /\ Ordered /\ Aimed /\ HeirsAreFull /\ HostsAreFull
      /\ JoinsPassed /\ NoHalfState
  BY BaseFacts DEF Base
<1>2. /\ u \in Users /\ Turns(s) /\ role' \in [Users -> Roles \cup {"none"}]
      /\ request[s].kind = "delete" /\ request[s].at = "write"
      /\ role'[u] = "none" /\ older' = Without(u)
      /\ heir \in Users /\ heir # u /\ role[heir] # "none" => role'[heir] = "host"
      /\ \A v \in Users : v # u /\ (v # heir \/ role[v] = "none") => role'[v] = role[v]
      /\ denied' = denied \ {u} /\ deleted' = deleted \cup {u}
      /\ IF request[s].saw = "host" /\ heir = NoUser THEN GoesOn(s, "call") ELSE request'[s] = Idle
      /\ UNCHANGED <<guests, over, conn, slipped, overtaken, crossed, served, lost>>
  BY <1>0, WriteDeleteEffect
<1>3. Ordered'
  <2>1. Members' = Members \ {u}
    BY <1>2 DEF Members
  <2> QED BY <1>1, <1>2, <2>1, OrderDrops
<1>4. IsAimed(request'[s]) /\ request'[s].at # "write" /\ request'[s].kind # "join"
  BY <1>0, <1>2 DEF GoesOn, IsAimed, Idle
<1>5. RequestsOK' /\ Aimed'
  BY <1>1, <1>2, <1>4 DEF RequestsOK, Turns, Aimed
<1>6. HeirsAreFull'
  BY <1>1, <1>2, <1>4 DEF HeirsAreFull, Turns
<1>7. JoinsPassed'
  BY <1>1, <1>2, <1>4 DEF JoinsPassed, Turns
<1>8. PeopleOK' /\ CountersOK'
  BY <1>1, <1>2 DEF PeopleOK, CountersOK
<1>9. HostsAreFull'
  <2>1. heir \in Users => heir \notin guests
    BY <1>0, <1>1, <1>2, MembershipAssumption DEF HeirsAreFull
  <2> QED BY <1>1, <1>2, <2>1 DEF HostsAreFull, Hosts
<1>10. NoHalfState'
  BY <1>1, <1>2 DEF NoHalfState, PeopleOK
<1> QED BY <1>3, <1>5, <1>6, <1>7, <1>8, <1>9, <1>10, TypePartsNext DEF Base

-----------------------------------------------------------------------------
(* The other steps.                                                        *)

LEMMA BasePickHeir == ASSUME Base, NEW s \in Slots, PickHeir(s) PROVE Base'
<1>1. /\ RequestsOK /\ PeopleOK /\ CountersOK /\ IsAimed(request[s])
      /\ UNCHANGED <<guests, role, older, denied, deleted, over, conn, slipped, overtaken, crossed, served, lost>>
      /\ request[s].kind = "delete"
  BY BaseFacts DEF PickHeir, tables, history
<1>2. /\ Turns(s) /\ request'[s].kind = request[s].kind /\ request'[s].by = request[s].by
      /\ request'[s].at = "write"
      /\ request'[s].on = NoUser \/ request'[s].on \in Heirs(request[s].by)
  BY <1>1, PickHeirEffect
<1>3. IsAimed(request'[s]) /\ (request'[s].on = NoUser \/ request'[s].on \notin guests)
  BY <1>1, <1>2 DEF IsAimed, Heirs
<1>4. PeopleOK' /\ CountersOK'
  BY <1>1 DEF PeopleOK, CountersOK
<1> QED BY <1>1, <1>2, <1>3, <1>4, BaseAlone

LEMMA BaseCallArrives == ASSUME Base, NEW s \in Slots, CallArrives(s) PROVE Base'
<1>1. /\ RequestsOK /\ PeopleOK /\ CountersOK /\ IsAimed(request[s])
      /\ UNCHANGED <<guests, role, older, denied, deleted, conn, slipped, overtaken, crossed, served, lost>>
  BY BaseFacts DEF CallArrives, tables, history
<1>2. /\ Turns(s)
      /\ \/ over' /\ request'[s] = Idle
         \/ /\ UNCHANGED over
            /\ request'[s].kind = request[s].kind /\ request'[s].by = request[s].by
            /\ request'[s].at = "verify" /\ request[s].kind \notin {"abandon", "delete"}
  BY <1>1, CallArrivesEffect
<1>3. over' \in BOOLEAN
  BY <1>1 DEF CallArrives, PeopleOK
<1>4. PeopleOK' /\ CountersOK'
  BY <1>1, <1>3 DEF PeopleOK, CountersOK
<1>5. /\ IsAimed(request'[s]) /\ request'[s].at # "write"
      /\ request'[s].kind = "join" => request[s].kind = "join" /\ request'[s].by = request[s].by
  <2>1. CASE request'[s] = Idle
    BY <2>1 DEF Idle, IsAimed
  <2>2. CASE /\ request'[s].kind = request[s].kind /\ request'[s].by = request[s].by
             /\ request'[s].at = "verify" /\ request[s].kind \notin {"abandon", "delete"}
    <3>1. request[s].at = "call"
      BY DEF CallArrives
    <3>2. request'[s].kind = "kick" => request'[s].on \in Users
      <4>1. request[s].kind = "kick" => request[s].on \in Users
        BY <1>1 DEF IsAimed
      <4>2. request' = [request EXCEPT ![s] = [@ EXCEPT !.at = "verify", !.todo = Connected]]
        BY <2>2 DEF CallArrives
      <4>3. request'[s] = [request[s] EXCEPT !.at = "verify", !.todo = Connected]
        BY <1>1, <4>2 DEF RequestsOK
      <4>4. request'[s].on = request[s].on
        BY <1>1, <4>3 DEF RequestsOK, RequestTypes
      <4> QED BY <2>2, <4>1, <4>4
    <3>3. request'[s].kind # "join"
      BY <1>1, <2>2, <3>1 DEF IsAimed
    <3> QED BY <1>1, <2>2, <3>1, <3>2, <3>3 DEF IsAimed
  <2> QED BY <1>2, <2>1, <2>2
<1> QED BY <1>1, <1>2, <1>4, <1>5, BaseAlone

LEMMA BaseCallFails == ASSUME Base, NEW s \in Slots, CallFails(s) PROVE Base'
<1>1. /\ RequestsOK /\ PeopleOK /\ CountersOK
      /\ UNCHANGED <<guests, role, older, denied, deleted, over, conn, slipped, overtaken, crossed, served>>
      /\ lost' = lost + 1 /\ lost < MaxLost
  BY BaseFacts DEF CallFails, tables, history
<1>2. Turns(s) /\ request'[s] = Idle
  BY <1>1, EndsEffect DEF CallFails
<1>3. PeopleOK' /\ CountersOK'
  BY <1>1, MembershipAssumption DEF PeopleOK, CountersOK
<1>4. IsAimed(request'[s]) /\ request'[s].kind = "none"
  BY <1>2 DEF IsAimed, Idle
<1> QED BY <1>1, <1>2, <1>3, <1>4, BaseAlone

LEMMA BaseVerify == ASSUME Base, NEW s \in Slots, Verify(s) PROVE Base'
<1>1. /\ RequestsOK /\ PeopleOK /\ CountersOK /\ IsAimed(request[s])
      /\ UNCHANGED <<guests, role, older, denied, deleted, over, conn, slipped, overtaken, crossed, served, lost>>
  BY BaseFacts DEF Verify, tables, history
<1>2. Turns(s) /\ request[s].at = "verify"
  BY <1>1, VerifyEffect
<1>3. PeopleOK' /\ CountersOK'
  BY <1>1 DEF PeopleOK, CountersOK
<1>4. CASE request'[s] = Idle
  <2>1. IsAimed(request'[s]) /\ request'[s].kind = "none"
    BY <1>4 DEF IsAimed, Idle
  <2> QED BY <1>1, <1>2, <1>3, <2>1, BaseAlone
<1>5. ASSUME NEW u \in Users,
             request'[s].kind = request[s].kind, request'[s].by = request[s].by,
             request'[s].at = "apply", request'[s].on = u, request[s].kind # "join"
      PROVE  Base'
  <2>1. IsAimed(request'[s]) /\ request'[s].kind # "delete"
    BY <1>1, <1>2, <1>5 DEF IsAimed
  <2> QED BY <1>1, <1>2, <1>3, <1>5, <2>1, BaseAlone
<1>6. request[s].kind # "join"
  BY <1>1, <1>2 DEF IsAimed
<1> QED BY <1>1, <1>4, <1>5, <1>6, VerifyEffect

LEMMA BaseApply == ASSUME Base, NEW s \in Slots, Apply(s) PROVE Base'
<1>1. /\ RequestsOK /\ PeopleOK /\ CountersOK /\ IsAimed(request[s]) /\ request[s].at = "apply"
      /\ UNCHANGED <<guests, role, older, denied, deleted, over, slipped, overtaken, crossed, served, lost>>
      /\ request[s].on \in Users /\ request[s].saw \in Roles \cup {"none"}
  BY BaseFacts DEF Apply, tables, history, IsAimed
<1>2. GoesOn(s, "verify")
  BY <1>1, ContinuesEffect DEF Apply
<1>3. IsAimed(request'[s]) /\ request'[s].at = "verify" /\ request'[s].kind # "join"
  BY <1>1, <1>2 DEF IsAimed, GoesOn
<1>4. PeopleOK'
  <2> DEFINE c == conn[request[s].on]
             d == Applied(c, request[s].saw)
  <2>1. c \in [at : {"none", "role", "admitted", "attached"}, role : Roles \cup {"none"}]
    BY <1>1 DEF PeopleOK
  <2>2. conn' = [conn EXCEPT ![request[s].on] = d]
    BY <1>1 DEF Apply, PeopleOK
  <2> HIDE DEF c
  <2>3. d \in [at : {"none", "role", "admitted", "attached"}, role : Roles \cup {"none"}]
    BY <1>1, <2>1 DEF Applied, NoConn
  <2> HIDE DEF d
  <2> QED BY <1>1, <2>2, <2>3 DEF PeopleOK
<1>5. CountersOK'
  BY <1>1 DEF CountersOK
<1> QED BY <1>1, <1>2, <1>3, <1>4, <1>5, BaseAlone DEF GoesOn

\* An account is linked: fewer guests.
LEMMA BaseLink == ASSUME Base, NEW u \in Users, Link(u) PROVE Base'
<1>0. /\ RequestsOK /\ PeopleOK /\ CountersOK /\ Ordered /\ Aimed /\ HeirsAreFull /\ HostsAreFull
      /\ JoinsPassed /\ NoHalfState
  BY BaseFacts DEF Base
<1>1. /\ guests' \subseteq guests
      /\ UNCHANGED <<request, role, older, denied, deleted, over, conn, slipped, overtaken, crossed, served, lost>>
  BY DEF Link, tables, history
<1>2. RequestsOK' /\ PeopleOK' /\ CountersOK'
  BY <1>0, <1>1 DEF RequestsOK, PeopleOK, CountersOK
<1>3. Ordered'
  BY <1>0, <1>1, OrderSame DEF Members
<1>4. Aimed' /\ HeirsAreFull' /\ JoinsPassed'
  BY <1>0, <1>1 DEF Aimed, IsAimed, HeirsAreFull, JoinsPassed
<1>5. HostsAreFull' /\ NoHalfState'
  BY <1>0, <1>1 DEF HostsAreFull, Hosts, NoHalfState
<1> QED BY <1>2, <1>3, <1>4, <1>5, TypePartsNext DEF Base

\* Only the socket of u changes.
Moves(u) ==
    /\ conn' \in [Users -> [at : {"none", "role", "admitted", "attached"}, role : Roles \cup {"none"}]]
    /\ \A v \in Users : v # u => conn'[v] = conn[v]
    /\ UNCHANGED <<guests, role, older, denied, deleted, over, request, slipped, overtaken, crossed, served, lost>>

LEMMA MovesEffect ==
    ASSUME PeopleOK, NEW u \in Users, Hello(u) \/ ReadRole(u) \/ Attach(u) \/ Leave(u)
    PROVE  /\ Moves(u)
           /\ \/ Hello(u) /\ conn'[u].at = "role"
              \/ ReadRole(u) /\ conn'[u] = IF role[u] = "none" THEN NoConn
                                           ELSE [at |-> "admitted", role |-> role[u]]
              \/ Attach(u) /\ conn'[u].at = "attached" /\ conn'[u].role = conn[u].role
              \/ Leave(u) /\ conn'[u] = NoConn
<1> DEFINE ConnType == [at : {"none", "role", "admitted", "attached"}, role : Roles \cup {"none"}]
           c == conn[u]
<1>1. /\ UNCHANGED <<guests, role, older, denied, deleted, over, request, slipped, overtaken, crossed, served, lost>>
      /\ conn \in [Users -> ConnType] /\ c \in ConnType /\ role[u] \in Roles \cup {"none"}
  BY DEF Hello, ReadRole, Attach, Leave, tables, history, PeopleOK
<1>2. ASSUME NEW new \in ConnType, conn' = [conn EXCEPT ![u] = new] PROVE Moves(u) /\ conn'[u] = new
  BY <1>1, <1>2 DEF Moves
<1>3. CASE Hello(u)
  <2>1. conn' = [conn EXCEPT ![u] = [c EXCEPT !.at = "role"]]
    BY <1>1, <1>3 DEF Hello
  <2>2. [c EXCEPT !.at = "role"] \in ConnType /\ [c EXCEPT !.at = "role"].at = "role"
    BY <1>1
  <2> QED BY <1>2, <1>3, <2>1, <2>2
<1>4. CASE ReadRole(u)
  <2> DEFINE new == IF role[u] = "none" THEN NoConn ELSE [at |-> "admitted", role |-> role[u]]
  <2>1. conn' = [conn EXCEPT ![u] = new]
    BY <1>4 DEF ReadRole
  <2>2. new \in ConnType
    BY <1>1 DEF NoConn
  <2> QED BY <1>2, <1>4, <2>1, <2>2
<1>5. CASE Attach(u)
  <2> DEFINE new == [c EXCEPT !.at = "attached"]
  <2>1. conn' = [conn EXCEPT ![u] = new]
    BY <1>1, <1>5 DEF Attach
  <2>2. new \in ConnType /\ new.at = "attached" /\ new.role = c.role
    BY <1>1
  <2> HIDE DEF new
  <2> QED BY <1>2, <1>5, <2>1, <2>2
<1>6. CASE Leave(u)
  <2>1. NoConn \in ConnType
    BY DEF NoConn
  <2> QED BY <1>2, <1>6, <2>1 DEF Leave
<1> QED BY <1>3, <1>4, <1>5, <1>6

LEMMA BaseMoves == ASSUME Base, NEW u \in Users, Moves(u) PROVE Base'
<1>0. /\ RequestsOK /\ PeopleOK /\ CountersOK /\ Ordered /\ Aimed /\ HeirsAreFull /\ HostsAreFull
      /\ JoinsPassed /\ NoHalfState
  BY BaseFacts DEF Base
<1>2. RequestsOK' /\ PeopleOK' /\ CountersOK'
  BY <1>0 DEF RequestsOK, PeopleOK, CountersOK, Moves
<1>3. Ordered'
  BY <1>0, OrderSame DEF Members, Moves
<1>4. Aimed' /\ HeirsAreFull' /\ JoinsPassed'
  BY <1>0 DEF Aimed, IsAimed, HeirsAreFull, JoinsPassed, Moves
<1>5. HostsAreFull' /\ NoHalfState'
  BY <1>0 DEF HostsAreFull, Hosts, NoHalfState, Moves
<1> QED BY <1>2, <1>3, <1>4, <1>5, TypePartsNext DEF Base

\* Each request begins with what its handler read.
LEMMA AskedOne ==
    ASSUME Base, NEW s \in Slots, NEW u \in Users,
           \/ Join(s, u) \/ Upgrade(s, u) \/ Abandon(s, u) \/ DeleteAccount(s, u)
           \/ \E on \in Users : Kick(s, u, on)
    PROVE  \E kind \in {"join", "upgrade", "kick", "abandon", "delete"} :
           \E at \in {"seat", "write", "call", "pick"}, on \in Users \cup {NoUser},
              saw \in Roles \cup {"none"} :
               /\ Begins(s, kind, u, on, at, saw)
               /\ kind = "join" => u \notin denied /\ saw \in {"solver", "spectator"} /\ at = "seat"
               /\ kind = "upgrade" => on = u /\ at = "write" /\ role[u] = "spectator"
               /\ kind = "kick" => on \in Users /\ at = "write" /\ on # u /\ role[u] = "host"
               /\ kind = "delete" => at = "pick" /\ saw = role[u]
<1>1. role[u] \in Roles \cup {"none"}
  BY BaseFacts
<1>2. SeatRole(u) \in {"solver", "spectator"} /\ {"solver", "spectator"} \subseteq Roles
  BY DEF SeatRole, Roles
<1>3. CASE Join(s, u)
  BY <1>2, <1>3 DEF Join, MayJoin
<1>4. CASE Upgrade(s, u)
  BY <1>1, <1>4 DEF Upgrade
<1>5. CASE Abandon(s, u)
  BY <1>1, <1>5 DEF Abandon
<1>6. CASE DeleteAccount(s, u)
  BY <1>1, <1>6 DEF DeleteAccount
<1>7. CASE \E on \in Users : Kick(s, u, on)
  BY <1>1, <1>7 DEF Kick
<1> QED BY <1>3, <1>4, <1>5, <1>6, <1>7

LEMMA NextBase == Base /\ [Next]_vars => Base'
<1> SUFFICES ASSUME Base, [Next]_vars PROVE Base'
  OBVIOUS
<1>1. CASE Asks
  <2>1. PICK s \in Slots, u \in Users :
           \/ Join(s, u) \/ Upgrade(s, u) \/ Abandon(s, u) \/ DeleteAccount(s, u)
           \/ \E on \in Users : Kick(s, u, on)
    BY <1>1 DEF Asks
  <2> QED BY <2>1, AskedOne, BaseBegins
<1>2. CASE Works
  BY <1>2, BaseSeat, BaseWriteUpgrade, BaseWriteKick, BasePickHeir, BaseWriteDelete,
     BaseCallArrives, BaseCallFails, BaseVerify, BaseApply DEF Works
<1>3. CASE Plays
  BY <1>3, BaseLink, MovesEffect, BaseMoves, BaseFacts DEF Plays
<1>4. CASE UNCHANGED vars
  <2>0. /\ RequestsOK /\ PeopleOK /\ CountersOK /\ Ordered /\ Aimed /\ HeirsAreFull /\ HostsAreFull
        /\ JoinsPassed /\ NoHalfState
    BY BaseFacts DEF Base
  <2>1. UNCHANGED <<guests, role, older, denied, deleted, over, request, conn, slipped, overtaken, crossed,
                    served, lost>>
    BY <1>4 DEF vars, tables, history
  <2>2. RequestsOK' /\ PeopleOK' /\ CountersOK'
    BY <2>0, <2>1 DEF RequestsOK, PeopleOK, CountersOK
  <2>3. Ordered'
    BY <2>0, <2>1, OrderSame DEF Members
  <2>4. Aimed' /\ HeirsAreFull' /\ JoinsPassed'
    BY <2>0, <2>1 DEF Aimed, IsAimed, HeirsAreFull, JoinsPassed
  <2>5. HostsAreFull' /\ NoHalfState'
    BY <2>0, <2>1 DEF HostsAreFull, Hosts, NoHalfState
  <2> QED BY <2>2, <2>3, <2>4, <2>5, TypePartsNext DEF Base
<1> QED BY <1>1, <1>2, <1>3, <1>4 DEF Next

LEMMA BaseAlways == Spec => []Base
BY InitBase, NextBase, PTL DEF Spec

\* The types of the tables, the requests and the sockets; joined_at orders the members of the
\* game and nobody else.
THEOREM TypeCorrect == Spec => []TypeOK
<1>1. Base => TypeOK
  BY DEF Base
<1> QED BY <1>1, BaseAlways, PTL

\* For any number of users and requests, whatever joins, upgrades, deletions and other
\* kicks run beside a kick: who is denied has a row only if the kick that denied them
\* committed while a join of theirs was past the denylist.  That race the code allows.
THEOREM KickLeavesNoHalfState == Spec => []NoHalfState
<1>1. Base => NoHalfState
  BY DEF Base
<1> QED BY <1>1, BaseAlways, PTL

-----------------------------------------------------------------------------
(* One host: what holds while no deletion has overlapped another change.   *)

\* A deletion runs with no kick, upgrade or other deletion beside it.
Apart ==
    \A s, t \in Slots : s # t /\ request[s].kind = "delete" =>
        request[t].kind \notin {"delete", "kick", "upgrade"}

SoleHost == \A u, v \in Hosts : u = v

\* What a request is about to write is still right: neither a kick nor an upgrade
\* takes the host's row, and a deletion knows whether its user hosts and who inherits.
IsSafe(q) ==
    /\ q.kind = "kick" /\ q.at = "write" => role[q.on] # "host"
    /\ q.kind = "upgrade" /\ q.at = "write" => role[q.by] # "host"
    /\ q.kind = "delete" /\ q.at \in {"pick", "write"} => (q.saw = "host" <=> role[q.by] = "host")
    /\ q.kind = "delete" /\ q.at = "write" /\ q.on # NoUser =>
          q.saw = "host" /\ role[q.on] = "solver" /\ q.on # q.by

Safe == \A s \in Slots : IsSafe(request[s])

Alone == ~ crossed => Apart /\ SoleHost /\ Safe

\* Without a host the game is over, or the deletion that took the host is about to say so.
Administered ==
    ~ crossed /\ lost = 0 /\ Hosts = {} =>
        over \/ \E s \in Slots : request[s].kind = "delete" /\ request[s].at = "call"

LEMMA InitHosted == Init => Alone /\ Administered
<1> SUFFICES ASSUME Init PROVE Alone /\ Administered
  OBVIOUS
<1>1. \A s \in Slots : request[s].kind = "none"
  BY DEF Init, Idle
<1>2. Hosts = {Creator}
  BY MembershipAssumption DEF Init, Hosts
<1> QED BY <1>1, <1>2 DEF Alone, Apart, SoleHost, Safe, IsSafe, Administered

\* A step of one request that leaves the rows alone.
LEMMA AloneTurns ==
    ASSUME Alone, NEW s \in Slots, Turns(s), crossed' = crossed, role' = role,
           request'[s].kind \in {request[s].kind, "none"},
           ~ crossed => IsSafe(request'[s])
    PROVE  Alone'
<1> SUFFICES ASSUME ~ crossed PROVE Apart' /\ SoleHost' /\ Safe'
  BY DEF Alone
<1>0. Apart /\ SoleHost /\ Safe
  BY DEF Alone
<1>1. Apart'
  <2> SUFFICES ASSUME NEW a \in Slots, NEW b \in Slots, a # b, request'[a].kind = "delete"
               PROVE  request'[b].kind \notin {"delete", "kick", "upgrade"}
    BY DEF Apart
  <2>1. request[a].kind = "delete"
    BY DEF Turns
  <2>2. request[b].kind \notin {"delete", "kick", "upgrade"}
    BY <1>0, <2>1 DEF Apart
  <2> QED BY <2>2 DEF Turns
<1>2. SoleHost'
  BY <1>0 DEF SoleHost, Hosts
<1>3. ASSUME NEW t \in Slots PROVE IsSafe(request[t])'
  <2>1. CASE t = s
    BY <2>1 DEF IsSafe
  <2>2. CASE t # s
    BY <1>0, <2>2 DEF Turns, IsSafe, Safe
  <2> QED BY <2>1, <2>2
<1> QED BY <1>1, <1>2, <1>3 DEF Safe

LEMMA AdministeredTurns ==
    ASSUME Administered, NEW s \in Slots, Turns(s),
           ~ crossed' => ~ crossed, lost' = lost, Hosts' = Hosts, over => over',
           request[s].kind # "delete" \/ request[s].at # "call" \/ over'
    PROVE  Administered'
<1> SUFFICES ASSUME ~ crossed', lost' = 0, Hosts' = {}, ~ over'
             PROVE  \E t \in Slots : request'[t].kind = "delete" /\ request'[t].at = "call"
  BY DEF Administered
<1>1. PICK t \in Slots : request[t].kind = "delete" /\ request[t].at = "call"
  BY DEF Administered
<1> QED BY <1>1 DEF Turns

LEMMA HostedBegins ==
    ASSUME Base, Alone, Administered, NEW s \in Slots, NEW u \in Users,
           NEW on \in Users \cup {NoUser},
           NEW kind \in {"join", "upgrade", "kick", "abandon", "delete"},
           NEW at \in {"seat", "write", "call", "pick"}, NEW saw \in Roles \cup {"none"},
           Begins(s, kind, u, on, at, saw),
           kind = "upgrade" => role[u] = "spectator",
           kind = "kick" => on \in Users /\ on # u /\ role[u] = "host",
           kind = "delete" => at = "pick" /\ saw = role[u]
    PROVE  Alone' /\ Administered'
<1>1. /\ Turns(s) /\ request[s] = Idle
      /\ request'[s].kind = kind /\ request'[s].by = u /\ request'[s].on = on
      /\ request'[s].at = at /\ request'[s].saw = saw
  BY BaseFacts, BeginsEffect
<1>2. /\ UNCHANGED <<role, over, lost>>
      /\ ~ crossed' => /\ ~ crossed
                       /\ kind = "delete" => ~ InFlight({"delete", "kick", "upgrade"})
                       /\ kind \in {"kick", "upgrade"} => ~ InFlight({"delete"})
  BY DEF Begins, tables
<1>3. Administered'
  <2>1. request[s].kind # "delete" /\ Hosts' = Hosts
    BY <1>1, <1>2 DEF Idle, Hosts
  <2> QED BY <1>1, <1>2, <2>1, AdministeredTurns
<1>4. Alone'
  <2> SUFFICES ASSUME ~ crossed' PROVE Apart' /\ SoleHost' /\ Safe'
    BY DEF Alone
  <2>0. Apart /\ SoleHost /\ Safe
    BY <1>2 DEF Alone
  <2>1. Apart'
    <3> SUFFICES ASSUME NEW a \in Slots, NEW b \in Slots, a # b, request'[a].kind = "delete"
                 PROVE  request'[b].kind \notin {"delete", "kick", "upgrade"}
      BY DEF Apart
    <3>1. CASE a = s
      <4>1. request'[b] = request[b] /\ kind = "delete"
        BY <1>1, <3>1 DEF Turns
      <4> QED BY <1>2, <4>1 DEF InFlight
    <3>2. CASE b = s
      <4>1. request[a].kind = "delete"
        BY <1>1, <3>2 DEF Turns
      <4>2. InFlight({"delete"})
        BY <4>1 DEF InFlight
      <4>3. InFlight({"delete", "kick", "upgrade"})
        BY <4>1 DEF InFlight
      <4> QED BY <1>1, <1>2, <3>2, <4>2, <4>3
    <3>3. CASE a # s /\ b # s
      BY <1>1, <2>0, <3>3 DEF Turns, Apart
    <3> QED BY <3>1, <3>2, <3>3
  <2>2. SoleHost'
    BY <1>2, <2>0 DEF SoleHost, Hosts
  <2>3. ASSUME NEW t \in Slots PROVE IsSafe(request[t])'
    <3>1. CASE t = s
      BY <1>1, <1>2, <2>0, <3>1 DEF IsSafe, SoleHost, Hosts
    <3>2. CASE t # s
      BY <1>1, <1>2, <2>0, <3>2 DEF Turns, IsSafe, Safe
    <3> QED BY <3>1, <3>2
  <2> QED BY <2>1, <2>2, <2>3 DEF Safe
<1> QED BY <1>3, <1>4

LEMMA HostedSeat ==
    ASSUME Base, Alone, Administered, NEW s \in Slots, Seat(s) PROVE Alone' /\ Administered'
<1>0. PICK u : u = request[s].by
  OBVIOUS
<1>1. /\ u \in Users /\ Turns(s) /\ request'[s] = Idle /\ Writes(u)
      /\ request[s].kind = "join"
      /\ \/ role[u] # "none" /\ role'[u] = role[u]
         \/ role[u] = "none" /\ role'[u] \in {"solver", "spectator"}
      /\ UNCHANGED <<over, crossed, lost>>
  BY <1>0, SeatEffect
<1>2. \A v \in Users : role[v] # "none" => role'[v] = role[v]
  BY <1>1 DEF Writes
<1>3. \A v \in Users : role'[v] = "host" <=> role[v] = "host"
  BY <1>1 DEF Writes
<1>4. Hosts' = Hosts
  BY <1>3 DEF Hosts
<1>5. Administered'
  BY <1>1, <1>4, AdministeredTurns
<1>6. Alone'
  <2> SUFFICES ASSUME ~ crossed PROVE Apart' /\ SoleHost' /\ Safe'
    BY <1>1 DEF Alone
  <2>0. Apart /\ SoleHost /\ Safe
    BY DEF Alone
  <2>1. Apart'
    BY <1>1, <2>0 DEF Turns, Apart, Idle
  <2>2. SoleHost'
    BY <1>4, <2>0 DEF SoleHost
  <2>3. ASSUME NEW t \in Slots PROVE IsSafe(request[t])'
    <3>1. CASE t = s
      BY <1>1, <3>1 DEF IsSafe, Idle
    <3>2. CASE t # s
      <4>1. request'[t] = request[t] /\ IsSafe(request[t]) /\ IsAimed(request[t])
        BY <1>1, <2>0, <3>2, BaseFacts DEF Turns, Safe
      <4>2. request[t] \in RequestTypes
        BY BaseFacts
      <4>3. request[t].on \in Users \cup {NoUser}
        BY <4>2 DEF RequestTypes
      <4> QED BY <1>2, <1>3, <4>1, <4>3 DEF IsSafe, IsAimed
    <3> QED BY <3>1, <3>2
  <2> QED BY <2>1, <2>2, <2>3 DEF Safe
<1> QED BY <1>5, <1>6

\* A kick or an upgrade writes the row of u, who does not host.
LEMMA HostedWrites ==
    ASSUME Base, Alone, Administered, NEW s \in Slots, NEW u \in Users, GoesOn(s, "call"),
           Writes(u), request[s].kind \in {"kick", "upgrade"}, UNCHANGED <<over, crossed, lost>>,
           role'[u] # "host", ~ crossed => role[u] # "host"
    PROVE  Alone' /\ Administered'
<1>1. Turns(s) /\ request'[s].kind = request[s].kind /\ request'[s].at = "call"
  BY DEF GoesOn
<1>2. ASSUME ~ crossed PROVE \A v \in Users : role'[v] = "host" <=> role[v] = "host"
  BY <1>2 DEF Writes
<1>3. ASSUME ~ crossed PROVE Hosts' = Hosts
  BY <1>2, <1>3 DEF Hosts
<1>4. Administered'
  <2>1. CASE crossed
    BY <2>1 DEF Administered
  <2>2. CASE ~ crossed
    BY <1>1, <1>3, <2>2, AdministeredTurns
  <2> QED BY <2>1, <2>2
<1>5. Alone'
  <2> SUFFICES ASSUME ~ crossed PROVE Apart' /\ SoleHost' /\ Safe'
    BY DEF Alone
  <2>0. Apart /\ SoleHost /\ Safe
    BY DEF Alone
  <2>1. Apart'
    BY <1>1, <2>0 DEF Turns, Apart
  <2>2. SoleHost'
    BY <1>3, <2>0 DEF SoleHost
  <2>3. ASSUME NEW t \in Slots PROVE IsSafe(request[t])'
    <3>1. CASE t = s
      BY <1>1, <3>1 DEF IsSafe
    <3>2. CASE t # s
      <4>1. request'[t] = request[t] /\ IsSafe(request[t]) /\ IsAimed(request[t])
        BY <1>1, <2>0, <3>2, BaseFacts DEF Turns, Safe
      <4>2. request[t].kind # "delete"
        BY <1>1, <2>0, <3>2 DEF Apart
      <4> QED BY <1>2, <4>1, <4>2 DEF IsSafe, IsAimed
    <3> QED BY <3>1, <3>2
  <2> QED BY <2>1, <2>2, <2>3 DEF Safe
<1> QED BY <1>4, <1>5

\* The deletion takes the only host's row and promotes the heir, or leaves the hosts alone.
LEMMA HostedWriteDelete ==
    ASSUME Base, Alone, Administered, NEW s \in Slots, WriteDelete(s) PROVE Alone' /\ Administered'
<1>0. PICK u, heir : u = request[s].by /\ heir = request[s].on
  OBVIOUS
<1>1. /\ u \in Users /\ Turns(s)
      /\ request[s].kind = "delete" /\ request[s].at = "write"
      /\ role'[u] = "none"
      /\ heir \in Users /\ heir # u /\ role[heir] # "none" => role'[heir] = "host"
      /\ \A v \in Users : v # u /\ (v # heir \/ role[v] = "none") => role'[v] = role[v]
      /\ IF request[s].saw = "host" /\ heir = NoUser THEN GoesOn(s, "call")
         ELSE request'[s] = Idle
      /\ UNCHANGED <<over, crossed, lost>>
  BY <1>0, WriteDeleteEffect
<1> SUFFICES ASSUME ~ crossed PROVE Apart' /\ SoleHost' /\ Safe' /\ Administered'
  BY <1>1 DEF Alone, Administered
<1>2. Apart /\ SoleHost /\ Safe /\ IsSafe(request[s])
  BY DEF Alone, Safe
<1>3. \A t \in Slots : t # s => request'[t] = request[t] /\ request[t].kind \notin {"delete", "kick", "upgrade"}
  BY <1>1, <1>2 DEF Turns, Apart
<1>4. request'[s].kind \in {"delete", "none"} /\ request'[s].at \in {"call", "idle"}
  BY <1>1 DEF GoesOn, Idle
<1>5. Apart'
  BY <1>3, <1>4 DEF Apart
<1>6. Safe'
  BY <1>3, <1>4 DEF Safe, IsSafe
<1>7. heir \in Users \cup {NoUser} /\ NoUser \notin Users
  BY <1>0, BaseFacts, MembershipAssumption DEF RequestTypes
<1>8. CASE request[s].saw # "host"
  <2>1. heir = NoUser /\ role[u] # "host"
    BY <1>0, <1>1, <1>2, <1>8 DEF IsSafe
  <2>2. \A v \in Users : role'[v] = "host" <=> role[v] = "host"
    BY <1>1, <1>7, <2>1
  <2>3. Hosts' = Hosts
    BY <2>2 DEF Hosts
  <2>4. SoleHost'
    BY <1>2, <2>3 DEF SoleHost
  <2>5. Administered'
    BY <1>1, <2>3, AdministeredTurns
  <2> QED BY <1>5, <1>6, <2>4, <2>5
<1>9. CASE request[s].saw = "host" /\ heir = NoUser
  <2>1. Hosts' = {}
    BY <1>0, <1>1, <1>2, <1>7, <1>9 DEF IsSafe, SoleHost, Hosts
  <2>2. request'[s].kind = "delete" /\ request'[s].at = "call"
    BY <1>1, <1>9 DEF GoesOn
  <2> QED BY <1>5, <1>6, <2>1, <2>2 DEF SoleHost, Administered
<1>10. CASE request[s].saw = "host" /\ heir # NoUser
  <2>1. heir \in Users /\ heir # u /\ role[heir] = "solver" /\ role[u] = "host"
    BY <1>0, <1>1, <1>2, <1>7, <1>10 DEF IsSafe
  <2>2. role'[heir] = "host"
    BY <1>1, <2>1
  <2>3. \A v \in Users : role'[v] = "host" => v = heir
    BY <1>1, <1>2, <2>1 DEF SoleHost, Hosts
  <2> QED BY <1>5, <1>6, <2>1, <2>2, <2>3 DEF SoleHost, Administered, Hosts
<1> QED BY <1>8, <1>9, <1>10

\* The other steps of a request.
LEMMA HostedWorks ==
    ASSUME Base, Alone, Administered, NEW s \in Slots,
           \/ PickHeir(s) \/ CallArrives(s) \/ CallFails(s) \/ Verify(s) \/ Apply(s)
    PROVE  Alone' /\ Administered'
<1>0. RequestsOK /\ PeopleOK /\ CountersOK /\ IsAimed(request[s])
  BY BaseFacts
<1>1. CASE PickHeir(s)
  <2>1. /\ UNCHANGED <<role, over, crossed, lost>>
        /\ request[s].kind = "delete" /\ request[s].at = "pick"
    BY <1>1 DEF PickHeir, tables, history
  <2>2. /\ Turns(s) /\ request'[s].kind = request[s].kind /\ request'[s].by = request[s].by
        /\ request'[s].saw = request[s].saw /\ request'[s].at = "write"
        /\ \/ request'[s].on = NoUser
           \/ request[s].saw = "host" /\ request'[s].on \in Heirs(request[s].by)
    BY <1>0, <1>1, PickHeirEffect
  <2>3. ~ crossed => IsSafe(request'[s])
    BY <2>1, <2>2 DEF Alone, Safe, IsSafe, Heirs
  <2>4. Hosts' = Hosts
    BY <2>1 DEF Hosts
  <2> QED BY <2>1, <2>2, <2>3, <2>4, AloneTurns, AdministeredTurns
<1>2. CASE CallArrives(s)
  <2>1. UNCHANGED <<role, crossed, lost>>
    BY <1>2 DEF CallArrives, tables, history
  <2>2. /\ Turns(s)
        /\ \/ over' /\ request'[s] = Idle
           \/ /\ request[s].kind \notin {"abandon", "delete"} /\ UNCHANGED over
              /\ request'[s].kind = request[s].kind /\ request'[s].at = "verify"
    BY <1>0, <1>2, CallArrivesEffect
  <2>3. request'[s].kind \in {request[s].kind, "none"} /\ IsSafe(request'[s])
    BY <2>2 DEF Idle, IsSafe
  <2>4. Hosts' = Hosts
    BY <2>1 DEF Hosts
  <2> QED BY <2>1, <2>2, <2>3, <2>4, AloneTurns, AdministeredTurns
<1>3. CASE CallFails(s)
  <2>1. UNCHANGED <<role, crossed>> /\ lost' = lost + 1
    BY <1>3 DEF CallFails, tables, history
  <2>2. Turns(s) /\ request'[s] = Idle
    BY <1>0, <1>3, EndsEffect DEF CallFails
  <2>3. request'[s].kind \in {request[s].kind, "none"} /\ IsSafe(request'[s])
    BY <2>2 DEF Idle, IsSafe
  <2>4. lost' # 0
    BY <1>0, <2>1, MembershipAssumption DEF CountersOK
  <2> QED BY <2>1, <2>2, <2>3, <2>4, AloneTurns DEF Administered
<1>4. CASE Verify(s)
  <2>1. UNCHANGED <<role, over, crossed, lost>>
    BY <1>4 DEF Verify, tables, history
  <2>2. /\ Turns(s) /\ request[s].at = "verify"
        /\ \/ request'[s] = Idle
           \/ request'[s].kind = request[s].kind /\ request'[s].at = "apply"
    BY <1>0, <1>4, VerifyEffect
  <2>3. request'[s].kind \in {request[s].kind, "none"} /\ IsSafe(request'[s])
    BY <2>2 DEF Idle, IsSafe
  <2>4. Hosts' = Hosts
    BY <2>1 DEF Hosts
  <2> QED BY <2>1, <2>2, <2>3, <2>4, AloneTurns, AdministeredTurns
<1>5. CASE Apply(s)
  <2>1. UNCHANGED <<role, over, crossed, lost>> /\ request[s].at = "apply"
    BY <1>5 DEF Apply, tables, history
  <2>2. GoesOn(s, "verify")
    BY <1>0, <1>5, ContinuesEffect DEF Apply
  <2>3. /\ Turns(s) /\ request'[s].kind \in {request[s].kind, "none"} /\ IsSafe(request'[s])
    BY <2>2 DEF GoesOn, IsSafe
  <2>4. Hosts' = Hosts
    BY <2>1 DEF Hosts
  <2> QED BY <2>1, <2>3, <2>4, AloneTurns, AdministeredTurns
<1> QED BY <1>1, <1>2, <1>3, <1>4, <1>5

LEMMA NextHosted ==
    Base /\ Alone /\ Administered /\ [Next]_vars => Alone' /\ Administered'
<1> SUFFICES ASSUME Base, Alone, Administered, [Next]_vars PROVE Alone' /\ Administered'
  OBVIOUS
<1>1. CASE Asks
  <2>1. PICK s \in Slots, u \in Users :
           \/ Join(s, u) \/ Upgrade(s, u) \/ Abandon(s, u) \/ DeleteAccount(s, u)
           \/ \E on \in Users : Kick(s, u, on)
    BY <1>1 DEF Asks
  <2> QED BY <2>1, AskedOne, HostedBegins
<1>2. ASSUME NEW s \in Slots, WriteUpgrade(s) PROVE Alone' /\ Administered'
  <2>0. PICK u : u = request[s].by
    OBVIOUS
  <2>1. /\ u \in Users /\ GoesOn(s, "call") /\ Writes(u)
        /\ request[s].kind = "upgrade" /\ request[s].at = "write"
        /\ role'[u] = IF role[u] = "none" THEN "none" ELSE "solver"
        /\ UNCHANGED <<over, crossed, lost>>
    BY <1>2, <2>0, WriteUpgradeEffect
  <2>2. ~ crossed => role[u] # "host"
    BY <2>0, <2>1 DEF Alone, Safe, IsSafe
  <2> QED BY <2>1, <2>2, HostedWrites
<1>3. ASSUME NEW s \in Slots, WriteKick(s) PROVE Alone' /\ Administered'
  <2>0. PICK u : u = request[s].on
    OBVIOUS
  <2>1. /\ u \in Users /\ GoesOn(s, "call") /\ Writes(u)
        /\ request[s].kind = "kick" /\ request[s].at = "write"
        /\ role'[u] = "none" /\ UNCHANGED <<over, crossed, lost>>
    BY <1>3, <2>0, WriteKickEffect
  <2>2. ~ crossed => role[u] # "host"
    BY <2>0, <2>1 DEF Alone, Safe, IsSafe
  <2> QED BY <2>1, <2>2, HostedWrites
<1>4. CASE Works
  BY <1>2, <1>3, <1>4, HostedSeat, HostedWriteDelete, HostedWorks DEF Works
<1>5. ASSUME UNCHANGED <<request, role, over, crossed, lost>> PROVE Alone' /\ Administered'
  <2>1. Hosts' = Hosts
    BY <1>5 DEF Hosts
  <2> QED BY <1>5, <2>1 DEF Alone, Apart, SoleHost, Safe, IsSafe, Administered
<1>6. CASE Plays
  <2>1. UNCHANGED <<request, role, over, crossed, lost>>
    BY <1>6 DEF Plays, Link, Hello, ReadRole, Attach, Leave, tables, history
  <2> QED BY <1>5, <2>1
<1>7. CASE UNCHANGED vars
  <2>1. UNCHANGED <<request, role, over, crossed, lost>>
    BY <1>7 DEF vars, tables, history
  <2> QED BY <1>5, <2>1
<1> QED BY <1>1, <1>4, <1>6, <1>7 DEF Next

LEMMA HostedAlways == Spec => [](Base /\ Alone /\ Administered)
<1>1. Init => Base /\ Alone /\ Administered
  BY InitBase, InitHosted
<1>2. Base /\ Alone /\ Administered /\ [Next]_vars => (Base /\ Alone /\ Administered)'
  BY NextBase, NextHosted
<1> QED BY <1>1, <1>2, PTL DEF Spec

\* A game is never left unadministrable: through joins, upgrades, kicks, abandons, links
\* and account deletions it has one host, with a full account, until it is abandoned, as
\* long as no deletion overlaps a kick, an upgrade or a deletion and no call is lost.
THEOREM GameKeepsOneHost == Spec => []OneHost
<1>1. Base /\ Alone /\ Administered => OneHost
  <2> SUFFICES ASSUME Base, Alone, Administered PROVE OneHost
    OBVIOUS
  <2>1. Hosts \cap guests = {}
    BY DEF Base, HostsAreFull
  <2>2. ASSUME ~ crossed PROVE Cardinality(Hosts) <= 1
    <3>1. CASE Hosts = {}
      BY <3>1, FS_EmptySet
    <3>2. CASE Hosts # {}
      <4>1. PICK u : Hosts = {u}
        BY <2>2, <3>2 DEF Alone, SoleHost
      <4>2. Cardinality({u}) = 1
        BY FS_Singleton
      <4> QED BY <4>1, <4>2
    <3> QED BY <3>1, <3>2
  <2> QED BY <2>1, <2>2 DEF OneHost, Administered
<1> QED BY <1>1, HostedAlways, PTL

-----------------------------------------------------------------------------
(* The sockets follow the memberships.                                     *)

\* A change of u slipped in behind a check already made, or the account is gone.
Noted(u) == u \in slipped \cup deleted

\* A socket of u with role r is what the membership of u allows.
Fits(u, r) == u \notin denied /\ role[u] # "none" /\ (MayWrite(r) <=> MayWrite(role[u]))

\* The service is about to look at u.
Due(q, u) ==
    \/ q.kind \in {"kick", "upgrade"} /\ q.at = "call" /\ q.on = u
    \/ q.at \in {"verify", "apply"} /\ u \in q.todo
    \/ q.at = "apply" /\ q.on = u

\* A promotion leaves what u may do as it is: u writes already, or was kicked.
MayInherit(u) == role[u] \in {"solver", "host"} \/ (role[u] = "none" /\ u \in denied)

AdmittedFit ==
    \A u \in Users : conn[u].at = "admitted" /\ ~ Noted(u) => Fits(u, conn[u].role)

VerdictsFit ==
    \A s \in Slots, u \in Users, r \in Roles : LET q == request[s] IN
        q.at = "apply" /\ q.on = u /\ q.saw = r /\ ~ Noted(u) => Fits(u, r)

HeirsWrite ==
    \A s \in Slots, u \in Users : LET q == request[s] IN
        q.kind = "delete" /\ q.at = "write" /\ q.on = u /\ ~ Noted(u) => MayInherit(u)

AttachedFit ==
    lost = 0 =>
        \A u \in Connected : Noted(u) \/ Fits(u, conn[u].role) \/ \E s \in Slots : Due(request[s], u)

Follow == AdmittedFit /\ VerdictsFit /\ HeirsWrite /\ AttachedFit

LEMMA InitFollow == Init => Follow
<1> SUFFICES ASSUME Init PROVE Follow
  OBVIOUS
<1>1. \A s \in Slots : request[s].at = "idle"
  BY DEF Init, Idle
<1>2. \A u \in Users : conn[u].at = "none"
  BY DEF Init, NoConn
<1> QED BY <1>1, <1>2 DEF Follow, AdmittedFit, VerdictsFit, HeirsWrite, AttachedFit, Connected

\* A step of one request that leaves the rows and the sockets alone.
LEMMA FollowTurns ==
    ASSUME Base, Follow, UNCHANGED <<role, denied, deleted, slipped, conn>>,
           NEW s \in Slots, Turns(s),
           \A u \in Users, r \in Roles :
               request'[s].at = "apply" /\ request'[s].on = u /\ request'[s].saw = r => Fits(u, r),
           \A u \in Users :
               request'[s].kind = "delete" /\ request'[s].at = "write" /\ request'[s].on = u =>
                   MayInherit(u),
           lost' = lost \/ lost' # 0,
           \A u \in Connected : Due(request[s], u) => Due(request'[s], u)
    PROVE  Follow'
<1>0. AdmittedFit /\ VerdictsFit /\ HeirsWrite /\ AttachedFit
  BY DEF Follow
<1>1. \A u, r : (Fits(u, r)' <=> Fits(u, r)) /\ (Noted(u)' <=> Noted(u)) /\ (MayInherit(u)' <=> MayInherit(u))
  BY DEF Fits, Noted, MayInherit
<1>2. AdmittedFit'
  BY <1>0, <1>1 DEF AdmittedFit
<1>3. VerdictsFit'
  <2> SUFFICES ASSUME NEW t \in Slots, NEW u \in Users, NEW r \in Roles, request'[t].at = "apply",
                      request'[t].on = u, request'[t].saw = r, ~ Noted(u)'
               PROVE  Fits(u, r)'
    BY DEF VerdictsFit
  <2>1. CASE t = s
    BY <1>1, <2>1
  <2>2. CASE t # s
    BY <1>0, <1>1, <2>2 DEF VerdictsFit, Turns
  <2> QED BY <2>1, <2>2
<1>4. HeirsWrite'
  <2> SUFFICES ASSUME NEW t \in Slots, NEW u \in Users, request'[t].kind = "delete",
                      request'[t].at = "write", request'[t].on = u, ~ Noted(u)'
               PROVE  MayInherit(u)'
    BY DEF HeirsWrite
  <2>1. CASE t = s
    BY <1>1, <2>1
  <2>2. CASE t # s
    BY <1>0, <1>1, <2>2 DEF HeirsWrite, Turns
  <2> QED BY <2>1, <2>2
<1>5. AttachedFit'
  <2> SUFFICES ASSUME lost' = 0, NEW u \in Connected', ~ Noted(u)', ~ Fits(u, conn[u].role)'
               PROVE  \E t \in Slots : Due(request'[t], u)
    BY DEF AttachedFit, Due
  <2>1. u \in Connected /\ ~ Noted(u) /\ ~ Fits(u, conn[u].role)
    BY <1>1 DEF Connected
  <2>2. PICK t \in Slots : Due(request[t], u)
    BY <1>0, <2>1 DEF AttachedFit
  <2>3. Due(request'[t], u)
    BY <2>1, <2>2 DEF Turns
  <2> QED BY <2>3
<1> QED BY <1>2, <1>3, <1>4, <1>5 DEF Follow

\* A step of one request that writes rows: each user is noted, or what fitted still
\* fits, or nobody has read the row and the service is about to look.
LEMMA FollowWrites ==
    ASSUME Base, Follow, UNCHANGED <<conn, lost>>, NEW s \in Slots, Turns(s),
           request'[s].at # "apply", request'[s].kind = "delete" => request'[s].at # "write",
           \A u \in Connected : ~ Due(request[s], u),
           slipped \subseteq slipped', deleted \subseteq deleted',
           \A u \in Users : Noted(u)' \/ (MayInherit(u) => MayInherit(u)'),
           \A u \in Users : \/ Noted(u)' \/ (\A r : Fits(u, r) => Fits(u, r)')
                            \/ ~ Stale(u) /\ Due(request'[s], u)
    PROVE  Follow'
<1>0. AdmittedFit /\ VerdictsFit /\ HeirsWrite /\ AttachedFit
  BY DEF Follow
<1>1. \A u : Noted(u) => Noted(u)'
  BY DEF Noted
<1>2. AdmittedFit'
  <2> SUFFICES ASSUME NEW u \in Users, conn[u].at = "admitted", ~ Noted(u)'
               PROVE  Fits(u, conn[u].role)'
    BY DEF AdmittedFit
  <2>1. Stale(u) /\ Fits(u, conn[u].role)
    BY <1>0, <1>1 DEF AdmittedFit, Stale
  <2> QED BY <2>1
<1>3. VerdictsFit'
  <2> SUFFICES ASSUME NEW t \in Slots, NEW u \in Users, NEW r \in Roles, request'[t].at = "apply",
                      request'[t].on = u, request'[t].saw = r, ~ Noted(u)'
               PROVE  Fits(u, r)'
    BY DEF VerdictsFit
  <2>1. t # s /\ request'[t] = request[t]
    BY DEF Turns
  <2>2. Stale(u) /\ Fits(u, r)
    BY <1>0, <1>1, <2>1 DEF VerdictsFit, Stale
  <2> QED BY <2>1, <2>2
<1>4. HeirsWrite'
  <2> SUFFICES ASSUME NEW t \in Slots, NEW u \in Users, request'[t].kind = "delete",
                      request'[t].at = "write", request'[t].on = u, ~ Noted(u)'
               PROVE  MayInherit(u)'
    BY DEF HeirsWrite
  <2>1. t # s /\ request'[t] = request[t]
    BY DEF Turns
  <2>2. MayInherit(u)
    BY <1>0, <1>1, <2>1 DEF HeirsWrite
  <2> QED BY <2>1, <2>2
<1>5. AttachedFit'
  <2> SUFFICES ASSUME lost' = 0, NEW u \in Connected', ~ Noted(u)', ~ Fits(u, conn[u].role)'
               PROVE  \E t \in Slots : Due(request'[t], u)
    BY DEF AttachedFit, Due
  <2>1. u \in Connected /\ u \in Users /\ ~ Noted(u)
    BY <1>1 DEF Connected
  <2>2. CASE Fits(u, conn[u].role)
    BY <2>1, <2>2
  <2>3. CASE ~ Fits(u, conn[u].role)
    <3>1. PICK t \in Slots : Due(request[t], u)
      BY <1>0, <2>1, <2>3 DEF AttachedFit
    <3>2. request'[t] = request[t]
      BY <2>1, <3>1 DEF Turns
    <3> QED BY <3>1, <3>2
  <2> QED BY <2>2, <2>3
<1> QED BY <1>2, <1>3, <1>4, <1>5 DEF Follow

LEMMA FollowBegins ==
    ASSUME Base, Follow, NEW s \in Slots, NEW u \in Users, NEW on \in Users \cup {NoUser},
           NEW kind \in {"join", "upgrade", "kick", "abandon", "delete"},
           NEW at \in {"seat", "write", "call", "pick"}, NEW saw \in Roles \cup {"none"},
           Begins(s, kind, u, on, at, saw), kind = "delete" => at = "pick"
    PROVE  Follow'
<1>1. /\ Turns(s) /\ request[s] = Idle /\ request'[s].kind = kind /\ request'[s].at = at
  BY BaseFacts, BeginsEffect
<1>2. UNCHANGED <<role, denied, deleted, slipped, conn, lost>>
  BY DEF Begins, tables
<1>3. \A v \in Connected : ~ Due(request[s], v)
  BY <1>1 DEF Due, Idle
<1> QED BY <1>1, <1>2, <1>3, FollowTurns

\* The join passed the denylist: nobody it seats is denied, but for who is noted.
LEMMA FollowSeat == ASSUME Base, Follow, NEW s \in Slots, Seat(s) PROVE Follow'
<1>0. PICK u : u = request[s].by
  OBVIOUS
<1>1. /\ u \in Users /\ Turns(s) /\ request'[s] = Idle /\ Writes(u)
      /\ request[s].kind = "join" /\ request[s].at = "seat"
      /\ \/ role[u] # "none" /\ role'[u] = role[u]
         \/ role[u] = "none" /\ role'[u] \in {"solver", "spectator"}
      /\ UNCHANGED <<denied, deleted, conn, slipped, lost>>
  BY <1>0, SeatEffect DEF Seat
<1>2. \A v \in Users : role[v] # "none" => role'[v] = role[v]
  BY <1>1 DEF Writes
<1>3. \A v \in Users : \A r : Fits(v, r) => Fits(v, r)'
  BY <1>1, <1>2 DEF Fits
<1>4. ASSUME NEW v \in Users, ~ Noted(v)', MayInherit(v) PROVE MayInherit(v)'
  <2>1. CASE role[v] # "none"
    BY <1>2, <1>4, <2>1 DEF MayInherit
  <2>2. CASE role[v] = "none"
    <3>1. v \in denied /\ v \notin slipped
      BY <1>1, <1>4, <2>2 DEF MayInherit, Noted
    <3>2. v # u
      BY <1>0, <1>1, <3>1 DEF Base, JoinsPassed
    <3> QED BY <1>1, <2>2, <3>1, <3>2 DEF MayInherit, Writes
  <2> QED BY <2>1, <2>2
<1>5. \A v \in Connected : ~ Due(request[s], v)
  BY <1>1 DEF Due
<1>6. request'[s].at = "idle"
  BY <1>1 DEF Idle
<1> QED BY <1>1, <1>3, <1>4, <1>5, <1>6, FollowWrites

\* The two writes a call follows: the row of u alone changes, and u is noted if anyone
\* has read it.
LEMMA FollowNotes ==
    ASSUME Base, Follow, NEW s \in Slots, NEW u \in Users, GoesOn(s, "call"), Writes(u), Notes(u),
           request[s].kind \in {"kick", "upgrade"}, request[s].at = "write", request[s].on = u,
           UNCHANGED <<deleted, conn, lost>>,
           \A v \in Users : v # u => (v \in denied' <=> v \in denied),
           MayInherit(u) => MayInherit(u)'
    PROVE  Follow'
<1>1. /\ Turns(s) /\ request'[s].at = "call" /\ request'[s].kind \in {"kick", "upgrade"}
      /\ request'[s].on = u
  BY DEF GoesOn
<1>2. slipped \subseteq slipped' /\ (Stale(u) => Noted(u)')
  BY DEF Notes, Noted
<1>3. \A v \in Connected : ~ Due(request[s], v)
  BY DEF Due
<1>4. Due(request'[s], u)
  BY <1>1 DEF Due
<1>5. \A v \in Users : v # u => \A r : Fits(v, r) => Fits(v, r)'
  BY DEF Fits, Writes
<1>6. \A v \in Users : MayInherit(v) => MayInherit(v)'
  BY DEF MayInherit, Writes
<1>7. \A v \in Users : \/ Noted(v)' \/ (\A r : Fits(v, r) => Fits(v, r)')
                       \/ ~ Stale(v) /\ Due(request'[s], v)
  BY <1>2, <1>4, <1>5
<1>8. request'[s].at # "apply" /\ request'[s].kind # "delete"
  BY <1>1
<1> QED BY <1>1, <1>2, <1>3, <1>6, <1>7, <1>8, FollowWrites

\* The promoted user could write already.
LEMMA FollowWriteDelete == ASSUME Base, Follow, NEW s \in Slots, WriteDelete(s) PROVE Follow'
<1>0. PICK u, heir : u = request[s].by /\ heir = request[s].on
  OBVIOUS
<1>1. /\ u \in Users /\ Turns(s)
      /\ request[s].kind = "delete" /\ request[s].at = "write"
      /\ heir \in Users /\ heir # u /\ role[heir] # "none" => role'[heir] = "host"
      /\ \A v \in Users : v # u /\ (v # heir \/ role[v] = "none") => role'[v] = role[v]
      /\ denied' = denied \ {u} /\ deleted' = deleted \cup {u}
      /\ IF request[s].saw = "host" /\ heir = NoUser THEN GoesOn(s, "call")
         ELSE request'[s] = Idle
      /\ UNCHANGED <<conn, slipped, lost>>
  BY <1>0, WriteDeleteEffect
<1>2. request'[s].at \in {"call", "idle"}
  BY <1>1 DEF GoesOn, Idle
<1>3. \A v \in Connected : ~ Due(request[s], v)
  BY <1>1 DEF Due
<1>4. Noted(u)' /\ (\A v : Noted(v) => Noted(v)')
  BY <1>1 DEF Noted
<1>5. ASSUME NEW v \in Users, v # u, ~ Noted(v)
      PROVE  (MayInherit(v) => MayInherit(v)') /\ (\A r : Fits(v, r) => Fits(v, r)')
  <2>1. CASE v # heir \/ role[v] = "none"
    <3>1. role'[v] = role[v] /\ (v \in denied' <=> v \in denied)
      BY <1>1, <1>5, <2>1
    <3> QED BY <3>1 DEF MayInherit, Fits
  <2>2. CASE v = heir /\ role[v] # "none"
    <3>1. role'[v] = "host" /\ (v \in denied' <=> v \in denied)
      BY <1>1, <1>5, <2>2
    <3>2. role[v] \in {"solver", "host"}
      <4>1. MayInherit(v)
        BY <1>0, <1>1, <1>5, <2>2 DEF Follow, HeirsWrite
      <4> QED BY <2>2, <4>1 DEF MayInherit
    <3> QED BY <3>1, <3>2 DEF MayInherit, Fits, MayWrite
  <2> QED BY <2>1, <2>2
<1>6. \A v \in Users : Noted(v)' \/ (MayInherit(v) => MayInherit(v)')
  BY <1>4, <1>5
<1>7. \A v \in Users : Noted(v)' \/ (\A r : Fits(v, r) => Fits(v, r)')
  BY <1>4, <1>5
<1>8. slipped \subseteq slipped' /\ deleted \subseteq deleted'
  BY <1>1
<1> QED BY <1>1, <1>2, <1>3, <1>6, <1>7, <1>8, FollowWrites

LEMMA FollowWorks ==
    ASSUME Base, Follow, NEW s \in Slots,
           PickHeir(s) \/ CallArrives(s) \/ CallFails(s) \/ Verify(s)
    PROVE  Follow'
<1>0. RequestsOK /\ PeopleOK /\ CountersOK /\ IsAimed(request[s])
  BY BaseFacts
<1>1. CASE PickHeir(s)
  <2>1. /\ UNCHANGED <<role, denied, deleted, slipped, conn, lost>>
        /\ request[s].kind = "delete" /\ request[s].at = "pick"
    BY <1>1 DEF PickHeir, tables, history
  <2>2. /\ Turns(s) /\ request'[s].at = "write"
        /\ \/ request'[s].on = NoUser
           \/ request[s].saw = "host" /\ request'[s].on \in Heirs(request[s].by)
    BY <1>0, <1>1, PickHeirEffect
  <2>3. \A u \in Users : request'[s].on = u => MayInherit(u)
    BY <2>2, MembershipAssumption DEF Heirs, MayInherit
  <2>4. \A u \in Connected : ~ Due(request[s], u)
    BY <2>1 DEF Due
  <2> QED BY <2>1, <2>2, <2>3, <2>4, FollowTurns
<1>2. CASE CallArrives(s)
  <2>1. UNCHANGED <<role, denied, deleted, slipped, conn, lost>>
    BY <1>2 DEF CallArrives, tables, history
  <2>2. /\ Turns(s) /\ request[s].at = "call"
        /\ \/ request[s].kind \in {"abandon", "delete"} /\ request'[s] = Idle
           \/ request'[s].at = "verify" /\ request'[s].todo = Connected
    BY <1>0, <1>2, CallArrivesEffect
  <2>3. request'[s].at \in {"idle", "verify"}
    BY <2>2 DEF Idle
  <2>4. \A u \in Connected : Due(request[s], u) => Due(request'[s], u)
    BY <2>2 DEF Due
  <2> QED BY <2>1, <2>2, <2>3, <2>4, FollowTurns
<1>3. CASE CallFails(s)
  <2>1. UNCHANGED <<role, denied, deleted, slipped, conn>> /\ lost' = lost + 1
    BY <1>3 DEF CallFails, tables, history
  <2>2. Turns(s) /\ request'[s] = Idle
    BY <1>0, <1>3, EndsEffect DEF CallFails
  <2>3. lost' # 0
    BY <1>0, <2>1, MembershipAssumption DEF CountersOK
  <2>4. AdmittedFit' /\ HeirsWrite' /\ VerdictsFit'
    <3>1. request'[s].at = "idle"
      BY <2>2 DEF Idle
    <3>2. AdmittedFit /\ HeirsWrite /\ VerdictsFit
      BY DEF Follow
    <3>3. AdmittedFit'
      BY <2>1, <3>2 DEF AdmittedFit, Noted, Fits
    <3>4. HeirsWrite'
      BY <2>1, <2>2, <3>1, <3>2 DEF HeirsWrite, Turns, Noted, MayInherit
    <3>5. VerdictsFit'
      BY <2>1, <2>2, <3>1, <3>2 DEF VerdictsFit, Turns, Noted, Fits
    <3> QED BY <3>3, <3>4, <3>5
  <2> QED BY <2>3, <2>4 DEF Follow, AttachedFit
<1>4. CASE Verify(s)
  <2>1. UNCHANGED <<role, denied, deleted, slipped, conn, lost>>
    BY <1>4 DEF Verify, tables, history
  <2>2. Turns(s) /\ request[s].at = "verify"
    BY <1>0, <1>4, VerifyEffect
  <2>3. CASE request[s].todo = {} /\ request'[s] = Idle
    <3>1. request'[s].at = "idle"
      BY <2>3 DEF Idle
    <3>2. \A u \in Connected : ~ Due(request[s], u)
      BY <2>2, <2>3 DEF Due
    <3> QED BY <2>1, <2>2, <3>1, <3>2, FollowTurns
  <2>4. ASSUME NEW u \in Users, u \in request[s].todo,
               request'[s].at = "apply", request'[s].on = u,
               request'[s].todo = request[s].todo \ {u}, request'[s].saw = Verdict(u)
        PROVE  Follow'
    <3>1. \A r \in Roles : Verdict(u) = r => Fits(u, r)
      BY DEF Verdict, Fits, Roles
    <3>2. \A v \in Connected : Due(request[s], v) => Due(request'[s], v)
      BY <2>2, <2>4 DEF Due
    <3> QED BY <2>1, <2>2, <2>4, <3>1, <3>2, FollowTurns
  <2> QED BY <1>0, <1>4, <2>3, <2>4, VerifyEffect
<1> QED BY <1>1, <1>2, <1>3, <1>4

\* The verdict is applied to whatever socket the user holds by now.
LEMMA FollowApply == ASSUME Base, Follow, NEW s \in Slots, Apply(s) PROVE Follow'
<1>0. PICK u, r : u = request[s].on /\ r = request[s].saw
  OBVIOUS
<1>1. /\ RequestsOK /\ PeopleOK /\ u \in Users /\ r \in Roles \cup {"none"}
      /\ request[s].at = "apply"
      /\ UNCHANGED <<role, denied, deleted, slipped, lost>>
  BY <1>0, BaseFacts DEF Apply, tables, history, IsAimed
<1>2. GoesOn(s, "verify")
  BY <1>1, ContinuesEffect DEF Apply
<1>3. Turns(s) /\ request'[s].at = "verify" /\ request'[s].todo = request[s].todo
  BY <1>2 DEF GoesOn
<1>4. /\ \A v \in Users : v # u => conn'[v] = conn[v]
      /\ conn[u].at # "attached" => conn'[u] = conn[u]
      /\ conn[u].at = "attached" /\ r = "none" => conn'[u] = NoConn
      /\ conn[u].at = "attached" /\ r # "none" => conn'[u].at = "attached" /\ conn'[u].role = r
  <2> DEFINE c == conn[u]
             d == Applied(c, r)
  <2>1. c \in [at : {"none", "role", "admitted", "attached"}, role : Roles \cup {"none"}]
    BY <1>1 DEF PeopleOK
  <2>2. conn' = [conn EXCEPT ![u] = d]
    BY <1>0, <1>1 DEF Apply, PeopleOK
  <2>3. conn'[u] = d /\ \A v \in Users : v # u => conn'[v] = conn[v]
    BY <1>1, <2>2 DEF PeopleOK
  <2> HIDE DEF c
  <2>4. /\ c.at # "attached" => d = c
        /\ c.at = "attached" /\ r = "none" => d = NoConn
        /\ c.at = "attached" /\ r # "none" => d.at = "attached" /\ d.role = r
    BY <2>1 DEF Applied
  <2> QED BY <2>3, <2>4 DEF c
<1>5. AdmittedFit /\ VerdictsFit /\ HeirsWrite /\ AttachedFit
  BY DEF Follow
<1>6. \A v, x : (Fits(v, x)' <=> Fits(v, x)) /\ (Noted(v)' <=> Noted(v)) /\ (MayInherit(v)' <=> MayInherit(v))
  BY <1>1 DEF Fits, Noted, MayInherit
<1>7. AdmittedFit'
  <2> SUFFICES ASSUME NEW v \in Users, conn'[v].at = "admitted", ~ Noted(v)'
               PROVE  Fits(v, conn[v].role)'
    BY DEF AdmittedFit
  <2>1. conn'[v] = conn[v]
    BY <1>1, <1>4 DEF NoConn
  <2>2. Fits(v, conn[v].role)
    BY <1>5, <1>6, <2>1 DEF AdmittedFit
  <2> QED BY <1>1, <2>1, <2>2 DEF Fits
<1>8. VerdictsFit'
  BY <1>3, <1>5, <1>6 DEF VerdictsFit, Turns
<1>9. HeirsWrite'
  BY <1>3, <1>5, <1>6 DEF HeirsWrite, Turns
<1>10. AttachedFit'
  <2> SUFFICES ASSUME lost' = 0, NEW v \in Users, conn'[v].at = "attached", ~ Noted(v)',
                      ~ Fits(v, conn[v].role)'
               PROVE  \E t \in Slots : Due(request'[t], v)
    BY DEF AttachedFit, Due, Connected
  <2>1. v # u
    <3>1. ASSUME v = u PROVE FALSE
      <4>1. r \in Roles /\ conn'[u].role = r
        BY <1>1, <1>4, <3>1 DEF NoConn
      <4>2. Fits(u, r)
        BY <1>0, <1>1, <1>5, <1>6, <3>1, <4>1 DEF VerdictsFit
      <4> QED BY <1>1, <3>1, <4>1, <4>2 DEF Fits
    <3> QED BY <3>1
  <2>2. conn'[v] = conn[v]
    BY <1>4, <2>1
  <2>3. v \in Connected /\ ~ Noted(v) /\ ~ Fits(v, conn[v].role)
    BY <1>1, <1>6, <2>2 DEF Connected, Fits
  <2>4. PICK t \in Slots : Due(request[t], v)
    BY <1>1, <1>5, <2>3 DEF AttachedFit
  <2>5. Due(request'[t], v)
    <3>1. CASE t = s
      BY <1>0, <1>1, <1>3, <2>1, <2>4, <3>1 DEF Due
    <3>2. CASE t # s
      BY <1>3, <2>4, <3>2 DEF Turns
    <3> QED BY <3>1, <3>2
  <2> QED BY <2>5
<1> QED BY <1>7, <1>8, <1>9, <1>10 DEF Follow

\* A handshake reads the role the membership has, and attaches with it.
LEMMA FollowMoves ==
    ASSUME Base, Follow, NEW u \in Users, Hello(u) \/ ReadRole(u) \/ Attach(u) \/ Leave(u)
    PROVE  Follow'
<1>0. /\ AdmittedFit /\ VerdictsFit /\ HeirsWrite /\ AttachedFit /\ PeopleOK /\ NoHalfState
      /\ overtaken \subseteq slipped
  BY BaseFacts DEF Follow, Base, JoinsPassed
<1>1. /\ Moves(u)
      /\ \/ Hello(u) /\ conn'[u].at = "role"
         \/ ReadRole(u) /\ conn'[u] = IF role[u] = "none" THEN NoConn
                                      ELSE [at |-> "admitted", role |-> role[u]]
         \/ Attach(u) /\ conn'[u].at = "attached" /\ conn'[u].role = conn[u].role
         \/ Leave(u) /\ conn'[u] = NoConn
  BY <1>0, MovesEffect
<1>2. /\ \A v \in Users : v # u => conn'[v] = conn[v]
      /\ UNCHANGED <<role, denied, deleted, request, slipped, lost>>
  BY <1>1 DEF Moves
<1>3. \A v, r : (Fits(v, r)' <=> Fits(v, r)) /\ (Noted(v)' <=> Noted(v)) /\ (MayInherit(v)' <=> MayInherit(v))
  BY <1>2 DEF Fits, Noted, MayInherit
<1>4. conn'[u].at = "admitted" /\ ~ Noted(u) => Fits(u, conn'[u].role)
  <2> SUFFICES ASSUME conn'[u].at = "admitted", ~ Noted(u) PROVE Fits(u, conn'[u].role)
    OBVIOUS
  <2>1. role[u] # "none" /\ conn'[u].role = role[u]
    BY <1>1 DEF NoConn
  <2>2. u \notin denied
    BY <1>0, <2>1 DEF NoHalfState, Noted
  <2> QED BY <2>1, <2>2 DEF Fits
<1>5. conn'[u].at = "attached" /\ ~ Noted(u) => Fits(u, conn'[u].role)
  <2> SUFFICES ASSUME conn'[u].at = "attached", ~ Noted(u) PROVE Fits(u, conn'[u].role)
    OBVIOUS
  <2>1. conn[u].at = "admitted" /\ conn'[u].role = conn[u].role
    BY <1>1 DEF NoConn, Attach
  <2> QED BY <1>0, <2>1 DEF AdmittedFit
<1>6. AdmittedFit'
  <2> SUFFICES ASSUME NEW v \in Users, conn'[v].at = "admitted", ~ Noted(v)'
               PROVE  Fits(v, conn[v].role)'
    BY DEF AdmittedFit
  <2>1. Fits(v, conn'[v].role)
    BY <1>0, <1>2, <1>3, <1>4 DEF AdmittedFit
  <2> QED BY <1>2, <2>1 DEF Fits
<1>7. VerdictsFit'
  BY <1>0, <1>2, <1>3 DEF VerdictsFit
<1>8. HeirsWrite'
  BY <1>0, <1>2, <1>3 DEF HeirsWrite
<1>9. AttachedFit'
  <2> SUFFICES ASSUME lost' = 0, NEW v \in Users, conn'[v].at = "attached", ~ Noted(v)',
                      ~ Fits(v, conn[v].role)'
               PROVE  \E t \in Slots : Due(request'[t], v)
    BY DEF AttachedFit, Due, Connected
  <2>1. ~ Fits(v, conn'[v].role)
    BY <1>2 DEF Fits
  <2>2. v # u /\ conn'[v] = conn[v]
    BY <1>2, <1>3, <1>5, <2>1
  <2> QED BY <1>0, <1>2, <1>3, <2>1, <2>2 DEF AttachedFit, Connected
<1> QED BY <1>6, <1>7, <1>8, <1>9 DEF Follow

LEMMA NextFollow == Base /\ Follow /\ [Next]_vars => Follow'
<1> SUFFICES ASSUME Base, Follow, [Next]_vars PROVE Follow'
  OBVIOUS
<1>1. CASE Asks
  <2>1. PICK s \in Slots, u \in Users :
           \/ Join(s, u) \/ Upgrade(s, u) \/ Abandon(s, u) \/ DeleteAccount(s, u)
           \/ \E on \in Users : Kick(s, u, on)
    BY <1>1 DEF Asks
  <2> QED BY <2>1, AskedOne, FollowBegins
<1>2. ASSUME NEW s \in Slots, WriteUpgrade(s) PROVE Follow'
  <2>0. PICK u : u = request[s].by
    OBVIOUS
  <2>1. /\ u \in Users /\ GoesOn(s, "call") /\ Writes(u) /\ Notes(u)
        /\ request[s].kind = "upgrade" /\ request[s].at = "write" /\ request[s].on = u
        /\ role'[u] = IF role[u] = "none" THEN "none" ELSE "solver"
        /\ UNCHANGED <<denied, deleted, conn, lost>>
    BY <1>2, <2>0, WriteUpgradeEffect
  <2>2. MayInherit(u) => MayInherit(u)'
    BY <2>1 DEF MayInherit
  <2> QED BY <2>1, <2>2, FollowNotes
<1>3. ASSUME NEW s \in Slots, WriteKick(s) PROVE Follow'
  <2>0. PICK u : u = request[s].on
    OBVIOUS
  <2>1. /\ u \in Users /\ GoesOn(s, "call") /\ Writes(u) /\ Notes(u)
        /\ request[s].kind = "kick" /\ request[s].at = "write" /\ request[s].on = u
        /\ role'[u] = "none" /\ denied' = denied \cup {u}
        /\ UNCHANGED <<deleted, conn, lost>>
    BY <1>3, <2>0, WriteKickEffect
  <2>2. MayInherit(u)'
    BY <2>1 DEF MayInherit
  <2> QED BY <2>1, <2>2, FollowNotes
<1>4. CASE Works
  BY <1>2, <1>3, <1>4, FollowSeat, FollowWriteDelete, FollowWorks, FollowApply DEF Works
<1>5. ASSUME UNCHANGED <<request, role, denied, deleted, conn, slipped, lost>> PROVE Follow'
  <2>1. AdmittedFit /\ VerdictsFit /\ HeirsWrite /\ AttachedFit
    BY DEF Follow
  <2>2. AdmittedFit' /\ VerdictsFit'
    BY <1>5, <2>1 DEF AdmittedFit, VerdictsFit, Noted, Fits
  <2>3. HeirsWrite'
    BY <1>5, <2>1 DEF HeirsWrite, Noted, MayInherit
  <2>4. AttachedFit'
    BY <1>5, <2>1 DEF AttachedFit, Connected, Noted, Fits
  <2> QED BY <2>2, <2>3, <2>4 DEF Follow
<1>6. CASE Plays
  <2>1. ASSUME NEW u \in Users, Link(u) PROVE Follow'
    BY <1>5, <2>1 DEF Link, tables, history
  <2> QED BY <1>6, <2>1, FollowMoves DEF Plays
<1>7. CASE UNCHANGED vars
  BY <1>5, <1>7 DEF vars, tables, history
<1> QED BY <1>1, <1>4, <1>6, <1>7 DEF Next

LEMMA FollowAlways == Spec => [](Base /\ Follow)
<1>1. Init => Base /\ Follow
  BY InitBase, InitFollow
<1>2. Base /\ Follow /\ [Next]_vars => (Base /\ Follow)'
  BY NextBase, NextFollow
<1> QED BY <1>1, <1>2, PTL DEF Spec

\* INV-8: once every call has been delivered and worked off, each live socket belongs
\* to a member nobody has denied, and may write exactly if the membership may; for any
\* number of kicks, upgrades, deletions, handshakes and re-verifications in any order,
\* but for the users whose membership changed behind a check already made.
THEOREM SocketsFollow == Spec => []SocketsFollowMembership
<1>1. Base /\ Follow => SocketsFollowMembership
  <2> SUFFICES ASSUME Base, Follow, Settled, lost = 0,
                      NEW u \in Connected \ (slipped \cup deleted)
               PROVE  u \notin denied /\ role[u] # "none" /\ MayWrite(conn[u].role) = MayWrite(role[u])
    BY DEF SocketsFollowMembership
  <2>1. \A s \in Slots : request[s].kind = "none" /\ request[s].at = "idle"
    BY DEF Settled, Idle
  <2>2. \A s \in Slots : ~ Due(request[s], u)
    BY <2>1 DEF Due
  <2>3. Fits(u, conn[u].role)
    BY <2>2 DEF Follow, AttachedFit, Noted
  <2>4. MayWrite(conn[u].role) \in BOOLEAN /\ MayWrite(role[u]) \in BOOLEAN
    BY DEF MayWrite
  <2> QED BY <2>3, <2>4 DEF Fits
<1> QED BY <1>1, FollowAlways, PTL

=============================================================================
