---------------------------- MODULE AccountsProofs ----------------------------
(***************************************************************************)
(* Proofs that a client shows no account the name of another, and that     *)
(* what its callers are told of a write is true, for any number of         *)
(* accounts, requests, keys, key fetches and failures.                     *)
(***************************************************************************)
EXTENDS Accounts, TLAPS

\* The names an account may show: those it chose, those its tokens carried, and those
\* a replay stored for it.
Theirs == [u \in Users |-> chosen[u] \cup carried[u] \cup strayed[u]]

\* What an account is called is one of them.
NamesAreTheirs == \A u \in Users : names[u] # None => names[u] \in Theirs[u]

\* A rename has a name to store; a request on its way carries a token, and an answered
\* one an account's profile, with a name of that account.
AnswersAreTheirs ==
    \A s \in Slots :
        /\ request[s].kind = "rename" => request[s].name \in Names
        /\ request[s].at \in {"sent", "replayed", "admitted"} => request[s].token \in Tokens
        /\ request[s].at = "answered" =>
               LET p == request[s].profile
               IN  p \in Profiles /\ (p.name # None => p.name \in Theirs[p.user])

\* Nothing is written before an answer, and a rename's answer is its one write.
WritesAreAnswered ==
    \A s \in Slots :
        /\ request[s].at \in {"sent", "replayed", "refused", "admitted", "failed"} => request[s].wrote = 0
        /\ request[s].at = "answered" /\ request[s].kind = "rename" => request[s].wrote = 1

IInv ==
    /\ TypeOK /\ NamesAreTheirs /\ AnswersAreTheirs /\ WritesAreAnswered
    /\ ShownNameIsTheirs /\ ChosenNameStays

-----------------------------------------------------------------------------
(* The parts of the state.                                                 *)

\* The client's requests and names, which the issuer and the key sets leave alone.
person == <<stores, client, request>>

LEMMA IdleIsRequest == Idle \in Requests /\ None \notin Users \cup Names \cup Provided
BY AccountsAssumption DEF Idle, Requests

LEMMA InitIInv == Init => IInv
<1> SUFFICES ASSUME Init PROVE IInv
  OBVIOUS
<1>1. TypeOK
  <2>1. signer \in Keys /\ published \subseteq Keys /\ resolver \subseteq Keys
    <3>1. 1 \in Keys
      BY AccountsAssumption DEF Keys
    <3> QED BY <3>1 DEF Init
  <2>2. fetches \in [Fetchers -> [at : {"none", "asked", "answered"}, keys : SUBSET Keys]]
    BY DEF Init, NoFetch
  <2>3. request \in [Slots -> Requests]
    BY IdleIsRequest DEF Init
  <2>4. /\ names \in [Users -> AnyName] /\ carried \in [Users -> SUBSET Provided]
        /\ chosen \in [Users -> SUBSET Names] /\ strayed \in [Users -> SUBSET Names]
        /\ debounce \in BOOLEAN /\ session = None /\ current = None
    BY DEF Init, AnyName
  <2>5. {begun, signIns, faults} \subseteq Nat
    BY DEF Init
  <2> QED BY <2>1, <2>2, <2>3, <2>4, <2>5 DEF TypeOK
<1>2. NamesAreTheirs /\ ShownNameIsTheirs /\ ChosenNameStays
  BY DEF Init, NamesAreTheirs, ShownNameIsTheirs, ChosenNameStays
<1>3. AnswersAreTheirs /\ WritesAreAnswered
  BY DEF Init, AnswersAreTheirs, WritesAreAnswered, Idle
<1> QED BY <1>1, <1>2, <1>3 DEF IInv

\* A step that leaves the person's state alone and the rest well formed keeps it all.
LEMMA PersonUntouched ==
    ASSUME IInv, UNCHANGED person, TypeOK' PROVE IInv'
<1>1. UNCHANGED <<names, carried, chosen, strayed, current, request>>
  BY DEF person, client, stores
<1> QED BY <1>1 DEF IInv, NamesAreTheirs, AnswersAreTheirs, Theirs, WritesAreAnswered,
                    ShownNameIsTheirs, ChosenNameStays

-----------------------------------------------------------------------------
(* The issuer and the key sets.                                            *)

LEMMA KeySetStep ==
    ASSUME IInv,
           Rotate \/ Withdraw \/ IntervalFires \/ DebounceFires \/ IssuerAnswers
               \/ FetchArrives \/ FetchFails
    PROVE  IInv'
<1> USE AccountsAssumption DEF Keys
<1>0. TypeOK
  BY DEF IInv
<1>1. CASE Rotate
  <2>1. UNCHANGED person /\ TypeOK'
    BY <1>0, <1>1 DEF Rotate, TypeOK, person, stores, client, service, Tokens, Requests
  <2> QED BY <2>1, PersonUntouched
<1>2. CASE Withdraw
  <2>1. UNCHANGED person /\ TypeOK'
    BY <1>0, <1>2 DEF Withdraw, TypeOK, person, stores, client, service, Tokens, Requests
  <2> QED BY <2>1, PersonUntouched
<1>3. ASSUME NEW f \in Fetchers, Ask(f)
      PROVE  fetches' \in [Fetchers -> [at : {"none", "asked", "answered"}, keys : SUBSET Keys]]
  BY <1>0, <1>3 DEF Ask, TypeOK
<1>4. CASE IntervalFires
  <2>1. UNCHANGED person /\ TypeOK'
    BY <1>0, <1>3, <1>4 DEF IntervalFires, TypeOK, person, stores, client, issuer, Tokens, Requests
  <2> QED BY <2>1, PersonUntouched
<1>5. CASE DebounceFires
  <2>1. UNCHANGED person /\ TypeOK'
    BY <1>0, <1>3, <1>5 DEF DebounceFires, TypeOK, person, stores, client, issuer, Tokens, Requests
  <2> QED BY <2>1, PersonUntouched
<1>6. CASE IssuerAnswers
  <2>1. UNCHANGED person /\ TypeOK'
    BY <1>0, <1>6 DEF IssuerAnswers, TypeOK, person, stores, client, issuer, Tokens, Requests
  <2> QED BY <2>1, PersonUntouched
<1>7. CASE FetchArrives
  <2>1. UNCHANGED person /\ TypeOK'
    BY <1>0, <1>7 DEF FetchArrives, Loaded, NoFetch, TypeOK, person, stores, client, issuer, Tokens,
                      Requests
  <2> QED BY <2>1, PersonUntouched
<1>8. CASE FetchFails
  <2>1. UNCHANGED person /\ TypeOK'
    BY <1>0, <1>8 DEF FetchFails, NoFetch, TypeOK, person, stores, client, issuer, Tokens, Requests
  <2> QED BY <2>1, PersonUntouched
<1> QED BY <1>1, <1>2, <1>4, <1>5, <1>6, <1>7, <1>8

-----------------------------------------------------------------------------
(* The session.                                                            *)

\* A session mapped anew shows no name.
LEMMA Mapped ==
    ASSUME TypeOK, NEW u \in Users
    PROVE  Token(u) \in Tokens /\ ToSession(u) \in Profiles /\ ToSession(u).name = None
BY DEF TypeOK, Token, ToSession, Tokens, Profiles, AnyName

\* A step of the session alone: it is gone, its token is no longer fresh, or it is
\* mapped anew.
LEMMA SessionMoves ==
    ASSUME IInv, session' \in Tokens \cup {None}, current' \in Profiles \cup {None},
           current' = current \/ current' = None \/ current'.name = None,
           UNCHANGED <<issuer, service, stores, request>>,
           {begun, signIns, faults}' \subseteq Nat
    PROVE  IInv'
<1>1. TypeOK'
  BY DEF IInv, TypeOK, issuer, service, stores, Tokens, Keys, Profiles, Requests
<1>2. (NamesAreTheirs /\ AnswersAreTheirs /\ WritesAreAnswered /\ ChosenNameStays)'
  BY DEF IInv, NamesAreTheirs, AnswersAreTheirs, WritesAreAnswered, ChosenNameStays, Theirs, stores
<1>3. ShownNameIsTheirs'
  BY DEF IInv, ShownNameIsTheirs, stores
<1> QED BY <1>1, <1>2, <1>3 DEF IInv

LEMMA SessionStep ==
    ASSUME IInv, (\E u \in Users : SignIn(u)) \/ SignOut \/ Expire \/ LibraryRefreshes
    PROVE  IInv'
<1>0. TypeOK
  BY DEF IInv
<1>1. ASSUME NEW u \in Users, SignIn(u) PROVE IInv'
  <2>1. session' \in Tokens /\ current' \in Profiles /\ current'.name = None
    BY <1>0, <1>1, Mapped DEF SignIn
  <2>2. UNCHANGED <<issuer, service, stores, request>> /\ {begun, signIns, faults}' \subseteq Nat
    BY <1>0, <1>1 DEF SignIn, TypeOK
  <2> QED BY <2>1, <2>2, SessionMoves
<1>2. CASE SignOut
  <2>1. UNCHANGED <<issuer, service, stores, request>> /\ {begun, signIns, faults}' \subseteq Nat
    BY <1>0, <1>2 DEF SignOut, TypeOK
  <2> QED BY <1>2, <2>1, SessionMoves DEF SignOut
<1>3. CASE Expire
  <2>1. session' \in Tokens /\ current' = current /\ current \in Profiles \cup {None}
    BY <1>0, <1>3 DEF Expire, TypeOK, Tokens
  <2>2. UNCHANGED <<issuer, service, stores, request>> /\ {begun, signIns, faults}' \subseteq Nat
    BY <1>0, <1>3 DEF Expire, TypeOK
  <2> QED BY <2>1, <2>2, SessionMoves
<1>4. CASE LibraryRefreshes
  <2>1. session.user \in Users
    BY <1>0, <1>4 DEF LibraryRefreshes, TypeOK, Tokens
  <2>2. session' \in Tokens /\ current' \in Profiles /\ current'.name = None
    BY <1>0, <1>4, <2>1, Mapped DEF LibraryRefreshes, Refreshed
  <2>3. UNCHANGED <<issuer, service, stores, request>> /\ {begun, signIns, faults}' \subseteq Nat
    BY <1>0, <1>4 DEF LibraryRefreshes, TypeOK
  <2> QED BY <2>2, <2>3, SessionMoves
<1> QED BY <1>1, <1>2, <1>3, <1>4

-----------------------------------------------------------------------------
(* The requests.                                                           *)

StoresTyped ==
    /\ names \in [Users -> AnyName] /\ carried \in [Users -> SUBSET Provided]
    /\ chosen \in [Users -> SUBSET Names] /\ strayed \in [Users -> SUBSET Names]

\* What one request must be: what IInv says of it.
Honest(r, log) ==
    /\ r \in Requests /\ (r.kind = "rename" => r.name \in Names)
    /\ r.at \in {"sent", "replayed", "admitted"} => r.token \in Tokens
    /\ r.at = "answered" =>
           r.profile \in Profiles /\ (r.profile.name # None => r.profile.name \in log[r.profile.user])
    /\ r.at \in {"sent", "replayed", "refused", "admitted", "failed"} => r.wrote = 0
    /\ r.at = "answered" /\ r.kind = "rename" => r.wrote = 1

LEMMA AllHonest == ASSUME IInv, NEW s \in Slots PROVE Honest(request[s], Theirs)
BY DEF IInv, TypeOK, AnswersAreTheirs, WritesAreAnswered, Honest

\* A step of request s that leaves it honest, together with the names and a session
\* that stays as it is or is mapped anew.
LEMMA RequestMoves ==
    ASSUME IInv, NEW s \in Slots, NEW r, request' = [request EXCEPT ![s] = r],
           Honest(r, Theirs'), StoresTyped', \A u \in Users : Theirs[u] \subseteq Theirs'[u],
           NamesAreTheirs', ChosenNameStays',
           session' \in Tokens \cup {None}, current' \in Profiles \cup {None},
           ShownNameIsTheirs',
           UNCHANGED <<signer, published, resolver, fetches>>, debounce' \in BOOLEAN,
           {begun, signIns, faults}' \subseteq Nat
    PROVE  IInv'
<1>1. request' \in [Slots -> Requests] /\ \A t \in Slots : request'[t] = IF t = s THEN r ELSE request[t]
  BY DEF IInv, TypeOK, Honest
<1>2. \A t \in Slots : Honest(request'[t], Theirs')
  <2>1. SUFFICES ASSUME NEW t \in Slots, t # s PROVE Honest(request[t], Theirs')
    BY <1>1
  <2>2. Honest(request[t], Theirs)
    BY AllHonest
  <2>3. request[t].at = "answered" => request[t].profile.user \in Users
    BY <2>2 DEF Honest, Requests, Profiles
  <2> QED BY <2>2, <2>3 DEF Honest
<1>3. TypeOK'
  <2>1. TypeOK
    BY DEF IInv
  <2> QED BY <1>1, <2>1 DEF TypeOK, StoresTyped, Keys
<1>4. (AnswersAreTheirs /\ WritesAreAnswered)'
  BY <1>2 DEF AnswersAreTheirs, WritesAreAnswered, Honest
<1> QED BY <1>3, <1>4 DEF IInv

\* The same for a step that saves no name.
LEMMA RequestSettles ==
    ASSUME IInv, NEW s \in Slots, NEW r, request' = [request EXCEPT ![s] = r],
           Honest(r, Theirs), UNCHANGED <<stores, signer, published, resolver, fetches>>,
           session' \in Tokens \cup {None}, current' \in Profiles \cup {None},
           ShownNameIsTheirs', debounce' \in BOOLEAN, {begun, signIns, faults}' \subseteq Nat
    PROVE  IInv'
<1>1. TypeOK /\ NamesAreTheirs /\ ChosenNameStays
  BY DEF IInv
<1>2. UNCHANGED <<names, carried, chosen, strayed>> /\ Theirs' = Theirs
  BY DEF stores, Theirs
<1>3. NamesAreTheirs' /\ ChosenNameStays' /\ \A u \in Users : Theirs[u] \subseteq Theirs'[u]
  BY <1>1, <1>2 DEF NamesAreTheirs, ChosenNameStays
<1>4. StoresTyped' /\ Honest(r, Theirs')
  BY <1>1, <1>2 DEF TypeOK, StoresTyped
<1> QED BY <1>3, <1>4, RequestMoves

\* A refresh leaves a session of the same account that shows no name.
LEMMA RefreshedIsMapped ==
    ASSUME TypeOK, session # None, Refreshed
    PROVE  session' \in Tokens /\ current' \in Profiles /\ ShownNameIsTheirs'
<1>1. session.user \in Users
  BY DEF TypeOK, Tokens
<1>2. session' \in Tokens /\ current' \in Profiles /\ current'.name = None
  BY <1>1, Mapped DEF Refreshed
<1> QED BY <1>2 DEF ShownNameIsTheirs

LEMMA ClientStays ==
    ASSUME IInv, UNCHANGED <<client, stores>>
    PROVE  session' \in Tokens \cup {None} /\ current' \in Profiles \cup {None} /\ ShownNameIsTheirs'
BY DEF IInv, TypeOK, client, stores, ShownNameIsTheirs, Tokens, Keys, Profiles

LEMMA BeginStep ==
    ASSUME IInv, NEW s \in Slots, NEW kind \in {"load", "rename"}, NEW name \in Names \cup {None},
           kind = "rename" => name \in Names, Begin(s, kind, name)
    PROVE  IInv'
<1> DEFINE r == [Idle EXCEPT !.kind = kind, !.name = name, !.by = session.user,
                            !.token = session', !.at = "sent"]
<1>0. TypeOK
  BY DEF IInv
<1>1. session' \in Tokens /\ current' \in Profiles \cup {None} /\ ShownNameIsTheirs'
  <2>1. session \in Tokens /\ UNCHANGED stores
    BY <1>0 DEF Begin, TypeOK
  <2>2. CASE Refreshed
    BY <1>0, <2>2, RefreshedIsMapped DEF Begin
  <2>3. CASE UNCHANGED client
    <3>1. session' = session
      BY <2>3 DEF client
    <3> QED BY <2>1, <2>3, <3>1, ClientStays
  <2> QED BY <2>2, <2>3 DEF Begin
<1>2. Honest(r, Theirs)
  <2>1. session.user \in Users
    BY <1>0 DEF Begin, TypeOK, Tokens
  <2>2. r \in Requests
    BY <1>1, <2>1 DEF Requests, Idle
  <2> QED BY <1>1, <2>2 DEF Honest, Idle
<1>3. /\ request' = [request EXCEPT ![s] = r]
      /\ UNCHANGED <<stores, signer, published, resolver, fetches, debounce>>
  BY DEF Begin, issuer, service
<1>4. {begun, signIns, faults}' \subseteq Nat /\ debounce' \in BOOLEAN
  BY <1>0, <1>3 DEF Begin, TypeOK
<1> HIDE DEF r
<1> QED BY <1>1, <1>2, <1>3, <1>4, RequestSettles

\* The token is refused, or the request is lost, or its error has been seen.
LEMMA RefusalStep ==
    ASSUME IInv, NEW s \in Slots, Refuse(s) \/ Lose(s) \/ Report(s) PROVE IInv'
<1> DEFINE old == request[s]
           r == request'[s]
<1>0. TypeOK /\ old \in Requests /\ Honest(old, Theirs)
  BY AllHonest DEF IInv, TypeOK
<1>1. /\ request' = [request EXCEPT ![s] = r] /\ Honest(r, Theirs)
  <2>1. CASE Refuse(s)
    <3>1. /\ r = [old EXCEPT !.token = None,
                             !.at = IF old.at = "sent" THEN "refused" ELSE "failed"]
          /\ request' = [request EXCEPT ![s] = r] /\ old.at \in {"sent", "replayed"}
      BY <1>0, <2>1 DEF Refuse, TypeOK
    <3>2. /\ r \in Requests /\ r.at \in {"refused", "failed"} /\ r.wrote = old.wrote
          /\ r.kind = old.kind /\ r.name = old.name
      BY <1>0, <3>1 DEF Requests
    <3> HIDE DEF r, old
    <3> QED BY <1>0, <3>1, <3>2 DEF Honest
  <2>2. CASE Lose(s)
    <3>1. /\ r = [old EXCEPT !.token = None, !.at = "lost", !.profile = None]
          /\ request' = [request EXCEPT ![s] = r]
      BY <1>0, <2>2 DEF Lose, TypeOK
    <3>2. r \in Requests /\ r.at = "lost" /\ r.kind = old.kind /\ r.name = old.name
      BY <1>0, <3>1 DEF Requests
    <3> HIDE DEF r, old
    <3> QED BY <1>0, <3>1, <3>2 DEF Honest
  <2>3. CASE Report(s)
    <3>1. r = Idle /\ request' = [request EXCEPT ![s] = r]
      BY <1>0, <2>3 DEF Report, TypeOK
    <3>2. Honest(Idle, Theirs)
      BY IdleIsRequest DEF Honest, Idle
    <3> QED BY <3>1, <3>2
  <2> QED BY <2>1, <2>2, <2>3
<1>2. UNCHANGED <<stores, client, signer, published, resolver, fetches>>
  BY DEF Refuse, Lose, Report, service, issuer
<1>3. {begun, signIns, faults}' \subseteq Nat /\ debounce' \in BOOLEAN
  <2>1. debounce' \in BOOLEAN
    BY <1>0 DEF Refuse, Lose, Report, service, TypeOK
  <2>2. begun' = begun /\ signIns' = signIns /\ faults' \in {faults, faults + 1}
    BY DEF Refuse, Lose, Report
  <2> QED BY <1>0, <2>1, <2>2 DEF TypeOK
<1>4. session' \in Tokens \cup {None} /\ current' \in Profiles \cup {None} /\ ShownNameIsTheirs'
  BY <1>2, ClientStays
<1> HIDE DEF r, old
<1> QED BY <1>1, <1>2, <1>3, <1>4, RequestSettles

\* A step that writes names and leaves the client alone.
LEMMA StoreMoves ==
    ASSUME IInv, NEW s \in Slots, NEW r, request' = [request EXCEPT ![s] = r],
           Honest(r, Theirs'), StoresTyped', \A u \in Users : Theirs[u] \subseteq Theirs'[u],
           NamesAreTheirs', ChosenNameStays',
           UNCHANGED <<issuer, service, client, begun, signIns, faults>>
    PROVE  IInv'
<1>0. TypeOK /\ ShownNameIsTheirs
  BY DEF IInv
<1>1. UNCHANGED <<session, current, signer, published, resolver, fetches, debounce>>
  BY DEF issuer, service, client
<1>2. /\ session' \in Tokens \cup {None} /\ current' \in Profiles \cup {None}
      /\ debounce' \in BOOLEAN /\ {begun, signIns, faults}' \subseteq Nat
  <2>1. session' \in Tokens \cup {None} /\ current' \in Profiles \cup {None}
    BY <1>0, <1>1 DEF TypeOK, Tokens, Keys, Profiles
  <2> QED BY <1>0, <1>1, <2>1 DEF TypeOK
<1>3. ShownNameIsTheirs'
  <2>1. current # None => current.user \in Users
    BY <1>0 DEF TypeOK, Profiles
  <2> QED BY <1>0, <1>1, <2>1 DEF ShownNameIsTheirs, Theirs
<1>4. UNCHANGED <<signer, published, resolver, fetches>>
  BY <1>1
<1> QED BY <1>2, <1>3, <1>4, RequestMoves

\* A token's name fills an empty one only.
LEMMA AdmitStep == ASSUME IInv, NEW s \in Slots, Admit(s) PROVE IInv'
<1> DEFINE old == request[s]
           u == old.token.user
           r == [old EXCEPT !.at = "admitted"]
<1>0. TypeOK /\ NamesAreTheirs /\ ChosenNameStays
  BY DEF IInv
<1>1. /\ old \in Requests /\ Honest(old, Theirs) /\ old.at \in {"sent", "replayed"}
      /\ request' = [request EXCEPT ![s] = r] /\ UNCHANGED <<chosen, strayed>>
  BY <1>0, AllHonest DEF Admit, TypeOK
<1>2. old.token \in Tokens /\ old.wrote = 0 /\ u \in Users
  <2>1. old.token \in Tokens /\ old.wrote = 0
    BY <1>1 DEF Honest
  <2> QED BY <2>1 DEF Tokens
<1>3. PICK name \in Provided \cup {None} :
          /\ names' = [names EXCEPT ![u] = Seeded(@, name)]
          /\ carried' = [carried EXCEPT ![u] = @ \cup ({name} \ {None})]
  BY DEF Admit
<1>4. /\ names' = [names EXCEPT ![u] = IF names[u] = None THEN name ELSE names[u]]
      /\ carried' = [carried EXCEPT ![u] = @ \cup ({name} \ {None})]
  BY <1>3 DEF Seeded
<1>5. StoresTyped'
  <2>1. names' \in [Users -> AnyName]
    BY <1>0, <1>2, <1>4 DEF TypeOK, AnyName
  <2>2. carried' \in [Users -> SUBSET Provided]
    BY <1>0, <1>2, <1>4 DEF TypeOK
  <2> QED BY <1>0, <1>1, <2>1, <2>2 DEF TypeOK, StoresTyped
<1> HIDE DEF u, r, old
<1>6. \A v \in Users : Theirs[v] \subseteq Theirs'[v] /\ (v = u /\ name # None => name \in Theirs'[v])
  BY <1>0, <1>1, <1>2, <1>4 DEF TypeOK, Theirs
<1>7. NamesAreTheirs'
  BY <1>0, <1>2, <1>4, <1>6 DEF TypeOK, NamesAreTheirs
<1>8. ChosenNameStays'
  <2>1. SUFFICES ASSUME NEW v \in Users, chosen[v] \cup strayed[v] # {}
                 PROVE  names'[v] \in chosen[v] \cup strayed[v]
    BY <1>1 DEF ChosenNameStays
  <2>2. names[v] \in chosen[v] \cup strayed[v]
    BY <1>0, <2>1 DEF ChosenNameStays
  <2>3. names[v] \in Names
    BY <1>0, <2>2 DEF TypeOK
  <2>4. names[v] # None
    BY <2>3, AccountsAssumption
  <2>5. names'[v] = names[v]
    BY <1>0, <1>2, <1>4, <2>4 DEF TypeOK
  <2> QED BY <2>2, <2>5
<1>9. Honest(r, Theirs')
  <2>1. /\ r \in Requests /\ r.at = "admitted" /\ r.wrote = old.wrote /\ r.token = old.token
        /\ r.kind = old.kind /\ r.name = old.name
    BY <1>1 DEF Requests, r
  <2> QED BY <1>1, <1>2, <2>1 DEF Honest
<1>10. UNCHANGED <<issuer, service, client, begun, signIns, faults>>
  BY DEF Admit
<1> QED BY <1>1, <1>5, <1>6, <1>7, <1>8, <1>9, <1>10, StoreMoves

\* A rename stores its name, and is answered with it.
LEMMA ServeStep == ASSUME IInv, NEW s \in Slots, Serve(s) PROVE IInv'
<1> DEFINE old == request[s]
           u == old.token.user
           new == IF old.kind = "rename" THEN {old.name} ELSE {}
           profile == [user |-> u, name |-> names'[u]]
           wrote == IF old.kind = "rename" THEN old.wrote + 1 ELSE old.wrote
           r == [old EXCEPT !.token = None, !.at = "answered", !.wrote = wrote, !.profile = profile]
<1>0. TypeOK /\ NamesAreTheirs /\ ChosenNameStays
  BY DEF IInv
<1>1. /\ old \in Requests /\ Honest(old, Theirs) /\ old.at = "admitted"
      /\ names' = IF old.kind = "rename" THEN [names EXCEPT ![u] = old.name] ELSE names
      /\ chosen' = IF old.by = u THEN [chosen EXCEPT ![u] = @ \cup new] ELSE chosen
      /\ strayed' = IF old.by = u THEN strayed ELSE [strayed EXCEPT ![u] = @ \cup new]
      /\ request' = [request EXCEPT ![s] = r]
      /\ UNCHANGED <<issuer, service, carried, client, begun, signIns, faults>>
  BY <1>0, AllHonest DEF Serve, TypeOK
<1>2. old.token \in Tokens /\ old.wrote = 0 /\ u \in Users
  <2>1. old.token \in Tokens /\ old.wrote = 0
    BY <1>1 DEF Honest
  <2> QED BY <2>1 DEF Tokens
<1>3. old.name \in Names \cup {None} /\ (old.kind = "rename" => old.name \in Names)
  BY <1>1 DEF Requests, Honest
<1>4. /\ names' \in [Users -> AnyName]
      /\ \A v \in Users :
             names'[v] = IF v = u /\ old.kind = "rename" THEN old.name ELSE names[v]
  BY <1>0, <1>1, <1>2, <1>3 DEF TypeOK, AnyName
<1> HIDE DEF u, old, r
<1>5. /\ chosen' \in [Users -> SUBSET Names] /\ strayed' \in [Users -> SUBSET Names]
      /\ \A v \in Users :
             /\ chosen[v] \subseteq chosen'[v] /\ strayed[v] \subseteq strayed'[v]
             /\ chosen'[v] \cup strayed'[v] = (chosen[v] \cup strayed[v]) \cup (IF v = u THEN new ELSE {})
  <2>1. new \in SUBSET Names
    BY <1>3
  <2> HIDE DEF new
  <2>2. CASE old.by = u
    BY <1>0, <1>1, <1>2, <2>1, <2>2 DEF TypeOK
  <2>3. CASE old.by # u
    BY <1>0, <1>1, <1>2, <2>1, <2>3 DEF TypeOK
  <2> QED BY <2>2, <2>3
<1>6. StoresTyped'
  BY <1>0, <1>1, <1>4, <1>5 DEF TypeOK, StoresTyped
<1>7. \A v \in Users : Theirs[v] \subseteq Theirs'[v] /\ (v = u => new \subseteq Theirs'[v])
  BY <1>1, <1>5 DEF Theirs
<1>8. NamesAreTheirs'
  BY <1>0, <1>4, <1>7 DEF NamesAreTheirs
<1>9. ChosenNameStays'
  BY <1>0, <1>4, <1>5 DEF ChosenNameStays
<1>10. Honest(r, Theirs')
  <2>1. profile \in Profiles /\ (profile.name # None => profile.name \in Theirs'[u]) /\ profile.user = u
    BY <1>2, <1>4, <1>8 DEF Profiles, NamesAreTheirs
  <2>2. wrote \in Nat /\ (old.kind = "rename" => wrote = 1)
    BY <1>2
  <2> HIDE DEF profile, wrote
  <2>3. /\ r \in Requests /\ r.at = "answered" /\ r.profile = profile /\ r.wrote = wrote
        /\ r.kind = old.kind /\ r.name = old.name
    BY <1>1, <2>1, <2>2 DEF Requests, r
  <2> QED BY <1>1, <2>1, <2>2, <2>3 DEF Honest
<1> QED BY <1>1, <1>6, <1>7, <1>8, <1>9, <1>10, StoreMoves

\* A refused request is sent once more, under whatever account is in, or fails.
LEMMA ReplayStep == ASSUME IInv, NEW s \in Slots, Replay(s) PROVE IInv'
<1> DEFINE old == request[s]
           r == request'[s]
<1>0. /\ TypeOK /\ old \in Requests /\ Honest(old, Theirs) /\ old.at = "refused"
      /\ old.wrote = 0
  <2>1. TypeOK /\ old \in Requests /\ Honest(old, Theirs) /\ old.at = "refused"
    BY AllHonest DEF IInv, TypeOK, Replay, MayReplay
  <2> QED BY <2>1 DEF Honest
<1>1. session' \in Tokens \cup {None} /\ current' \in Profiles \cup {None} /\ ShownNameIsTheirs'
  <2>1. CASE session # None /\ Refreshed
    BY <1>0, <2>1, RefreshedIsMapped
  <2>2. CASE UNCHANGED client
    BY <2>2, ClientStays DEF Replay
  <2> QED BY <2>1, <2>2 DEF Replay
<1>2. request' = [request EXCEPT ![s] = r] /\ Honest(r, Theirs)
  <2>1. CASE /\ session # None /\ Refreshed
             /\ request' = [request EXCEPT ![s].token = session', ![s].at = "replayed"]
    <3>1. session' \in Tokens
      BY <1>0, <2>1, RefreshedIsMapped
    <3>2. /\ r = [old EXCEPT !.token = session', !.at = "replayed"]
          /\ request' = [request EXCEPT ![s] = r]
      BY <1>0, <2>1 DEF TypeOK
    <3>3. /\ r \in Requests /\ r.at = "replayed" /\ r.wrote = 0 /\ r.token = session'
          /\ r.kind = old.kind /\ r.name = old.name
      BY <1>0, <3>1, <3>2 DEF Requests
    <3> HIDE DEF r, old
    <3> QED BY <1>0, <3>1, <3>2, <3>3 DEF Honest
  <2>2. CASE request' = [request EXCEPT ![s].at = "failed"]
    <3>1. r = [old EXCEPT !.at = "failed"] /\ request' = [request EXCEPT ![s] = r]
      BY <1>0, <2>2 DEF TypeOK
    <3>2. r \in Requests /\ r.at = "failed" /\ r.wrote = 0 /\ r.kind = old.kind /\ r.name = old.name
      BY <1>0, <3>1 DEF Requests
    <3> HIDE DEF r, old
    <3> QED BY <1>0, <3>1, <3>2 DEF Honest
  <2> QED BY <2>1, <2>2 DEF Replay
<1>3. UNCHANGED <<stores, signer, published, resolver, fetches>>
  BY DEF Replay, service, issuer
<1>4. {begun, signIns, faults}' \subseteq Nat /\ debounce' \in BOOLEAN
  BY <1>0 DEF Replay, service, TypeOK
<1> HIDE DEF r, old
<1> QED BY <1>1, <1>2, <1>3, <1>4, RequestSettles

\* The name of a profile is shown to its own account only.
LEMMA AdoptStep == ASSUME IInv, NEW s \in Slots, Adopt(s) PROVE IInv'
<1> DEFINE p == request[s].profile
<1>0. TypeOK /\ ShownNameIsTheirs /\ Honest(request[s], Theirs) /\ request[s].at = "answered"
  BY AllHonest DEF IInv, Adopt
<1>1. p \in Profiles /\ (p.name # None => p.name \in Theirs[p.user])
  BY <1>0 DEF Honest
<1>2. /\ current' = IF Ours(p) /\ p.name # None THEN [current EXCEPT !.name = p.name] ELSE current
      /\ UNCHANGED <<stores, session>>
  BY DEF Adopt
<1> HIDE DEF p
<1>3. current' \in Profiles \cup {None} /\ ShownNameIsTheirs'
  <2>1. CASE Ours(p) /\ p.name # None
    <3>1. current \in Profiles /\ current.user = p.user
      BY <1>0, <2>1 DEF Ours, TypeOK
    <3>2. current' \in Profiles /\ current'.user = p.user /\ current'.name = p.name
      BY <1>1, <1>2, <2>1, <3>1 DEF Profiles
    <3>3. p.name \in chosen[p.user] \cup carried[p.user] \cup strayed[p.user]
      BY <1>1, <2>1 DEF Theirs, Profiles
    <3> QED BY <1>2, <3>2, <3>3 DEF ShownNameIsTheirs, stores
  <2>2. CASE ~ (Ours(p) /\ p.name # None)
    <3>1. current' = current
      BY <1>2, <2>2
    <3>2. current \in Profiles \cup {None}
      BY <1>0 DEF TypeOK
    <3> QED BY <1>0, <1>2, <3>1, <3>2 DEF ShownNameIsTheirs, stores
  <2> QED BY <2>1, <2>2
<1>4. /\ request' = [request EXCEPT ![s] = Idle] /\ Honest(Idle, Theirs)
  BY IdleIsRequest DEF Adopt, Honest, Idle
<1>5. UNCHANGED <<stores, signer, published, resolver, fetches>>
  BY DEF Adopt, service, issuer
<1>6. /\ {begun, signIns, faults}' \subseteq Nat /\ debounce' \in BOOLEAN
      /\ session' \in Tokens \cup {None}
  <2>1. session \in Tokens \cup {None}
    BY <1>0 DEF TypeOK
  <2> QED BY <1>0, <1>2, <2>1 DEF Adopt, service, TypeOK
<1> QED BY <1>3, <1>4, <1>5, <1>6, RequestSettles

-----------------------------------------------------------------------------

LEMMA NextIInv == IInv /\ [Next]_vars => IInv'
<1> SUFFICES ASSUME IInv, [Next]_vars PROVE IInv'
  OBVIOUS
<1>1. CASE UNCHANGED vars
  <2>1. TypeOK' /\ UNCHANGED person
    BY <1>1 DEF IInv, TypeOK, vars, person, issuer, service, stores, client, Keys, Tokens, Profiles, Requests
  <2> QED BY <2>1, PersonUntouched
<1>2. ASSUME NEW s \in Slots,
             \/ Begin(s, "load", None) \/ \E n \in Names : Begin(s, "rename", n)
             \/ Refuse(s) \/ Admit(s) \/ Serve(s) \/ Replay(s) \/ Lose(s) \/ Adopt(s) \/ Report(s)
      PROVE  IInv'
  BY <1>2, BeginStep, RefusalStep, AdmitStep, ServeStep, ReplayStep, AdoptStep
<1> QED BY <1>1, <1>2, KeySetStep, SessionStep DEF Next

LEMMA Invariance == Spec => []IInv
<1> QED BY InitIInv, NextIInv, PTL DEF Spec

\* The state is well formed for every number of accounts, requests, keys and fetches.
THEOREM TypeCorrect == Spec => []TypeOK
<1>1. IInv => TypeOK
  BY DEF IInv
<1> QED BY <1>1, Invariance, PTL

\* Whatever accounts come and go while requests are on their way, refused, replayed
\* or lost, the name on screen is one its own account chose, its provider gave it, or a
\* replayed rename stored for it.
THEOREM NamesStayTheirOwn == Spec => []ShownNameIsTheirs
<1>1. IInv => ShownNameIsTheirs
  BY DEF IInv
<1> QED BY <1>1, Invariance, PTL

\* INV-7, for every order of requests and tokens of every age: a stored name never
\* gives way to the provider's.
THEOREM ChosenNamesStay == Spec => []ChosenNameStays
<1>1. IInv => ChosenNameStays
  BY DEF IInv
<1> QED BY <1>1, Invariance, PTL

\* However often a request was sent, a caller told of a refusal wrote nothing and one
\* told of success wrote once.
THEOREM ReportsStayTrue == Spec => []ReportsAreTrue
<1>1. IInv => ReportsAreTrue
  BY DEF IInv, WritesAreAnswered, ReportsAreTrue
<1> QED BY <1>1, Invariance, PTL

=============================================================================
