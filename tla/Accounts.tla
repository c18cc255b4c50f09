------------------------------- MODULE Accounts -------------------------------
(***************************************************************************)
(* Who a web client is, and what the services believe of it: the client's  *)
(* identity adapter (apps/web/src/identity/supabaseAdapter.ts) with the    *)
(* requests that ride its bearer (net/authedFetch.ts, profile/api.ts), the *)
(* API's /me routes (identity/me.ts) behind their token check and the mirror*)
(* of the token's identity (apps/api/src/auth), and the key set a service  *)
(* checks tokens with, refreshed beside the requests                       *)
(* (packages/auth/src/jwks.ts).                                            *)
(*                                                                         *)
(* The token issuer and its browser library are external: a session holds  *)
(* a token signed by the issuer's current key, which expires, and which     *)
(* the library replaces with an event the adapter hears.  It carries a name *)
(* that the account's provider gave it, or none.                            *)
(***************************************************************************)
EXTENDS Naturals, FiniteSets

CONSTANTS
    Users, Names,  \* accounts that are not guests, and names they may save
    Provided,      \* names the providers may give
    None,          \* no session, no name, nothing in flight
    Slots,         \* the client's requests at once
    Fetchers,      \* a service's key fetches at once
    MaxKeys, MaxRequests, MaxSignIns, MaxFaults  \* bounds

ASSUME AccountsAssumption ==
    /\ None \notin Users \cup Names \cup Provided
    /\ MaxKeys \in Nat \ {0} /\ MaxRequests \in Nat /\ MaxSignIns \in Nat /\ MaxFaults \in Nat

VARIABLES
    signer,     \* the issuer's current key; keys are numbered as they come
    published,  \* the keys of its JWK set
    resolver,   \* the key set the service checks with
    fetches,    \* its fetches: not asked, asked, or the set that was answered
    debounce,   \* the unknown-key refresh is armed
    names,      \* users.display_name
    carried,    \* the names an account's tokens carried, from its provider (history)
    chosen,     \* the names stored for an account by its own renames (history)
    strayed,    \* those stored by a rename begun under another account (history)
    session,    \* the library's stored session: whose, its key, not expired
    current,    \* the adapter's session, with the name the surfaces show
    request,    \* the client's requests
    begun, signIns, faults  \* counters for the bounds

issuer == <<signer, published>>
service == <<resolver, fetches, debounce>>
client == <<session, current>>
stores == <<names, carried, chosen, strayed>>
vars == <<issuer, service, stores, client, request, begun, signIns, faults>>

Keys == 1 .. MaxKeys
Idle == [kind |-> "none", name |-> None, by |-> None, token |-> None, at |-> "idle",
         wrote |-> 0, profile |-> None]
NoFetch == [at |-> "none", keys |-> {}]

\* Both services fetch the set before they verify anything.
Init ==
    /\ signer = 1 /\ published = {1} /\ resolver = {1}
    /\ fetches = [f \in Fetchers |-> NoFetch] /\ debounce = FALSE
    /\ names = [u \in Users |-> None] /\ carried = [u \in Users |-> {}]
    /\ chosen = [u \in Users |-> {}] /\ strayed = [u \in Users |-> {}]
    /\ session = None /\ current = None
    /\ request = [s \in Slots |-> Idle]
    /\ begun = 0 /\ signIns = 0 /\ faults = 0

(***************************************************************************)
(* The issuer: a new key signs from now on; an old one is withdrawn later.  *)
(***************************************************************************)
Rotate ==
    /\ signer < MaxKeys
    /\ signer' = signer + 1 /\ published' = published \cup {signer + 1}
    /\ UNCHANGED <<service, stores, client, request, begun, signIns, faults>>

Withdraw ==
    \E k \in published \ {signer} :
        /\ published' = published \ {k}
        /\ UNCHANGED <<signer, service, stores, client, request, begun, signIns, faults>>

(***************************************************************************)
(* The service's key set. Nothing orders two fetches, and an answer that    *)
(* arrives replaces the set as a whole.                                     *)
(***************************************************************************)
Ask(f) ==
    /\ fetches[f] = NoFetch
    /\ fetches' = [fetches EXCEPT ![f] = [at |-> "asked", keys |-> {}]]

IntervalFires ==
    /\ \E f \in Fetchers : Ask(f)
    /\ UNCHANGED <<issuer, resolver, debounce, stores, client, request, begun, signIns, faults>>

DebounceFires ==
    /\ debounce /\ debounce' = FALSE
    /\ \E f \in Fetchers : Ask(f)
    /\ UNCHANGED <<issuer, resolver, stores, client, request, begun, signIns, faults>>

IssuerAnswers ==
    /\ \E f \in Fetchers :
        /\ fetches[f].at = "asked"
        /\ fetches' = [fetches EXCEPT ![f] = [at |-> "answered", keys |-> published]]
    /\ UNCHANGED <<issuer, resolver, debounce, stores, client, request, begun, signIns, faults>>

\* Mutant: the keys of an answer are added, and none ever leaves.
Loaded_Merges(keys) == resolver \cup keys

Loaded(keys) == keys

FetchArrives ==
    /\ \E f \in Fetchers :
        /\ fetches[f].at = "answered"
        /\ resolver' = Loaded(fetches[f].keys)
        /\ fetches' = [fetches EXCEPT ![f] = NoFetch]
    /\ UNCHANGED <<issuer, debounce, stores, client, request, begun, signIns, faults>>

\* The last good set stays.
FetchFails ==
    /\ faults < MaxFaults /\ faults' = faults + 1
    /\ \E f \in Fetchers : fetches[f] # NoFetch /\ fetches' = [fetches EXCEPT ![f] = NoFetch]
    /\ UNCHANGED <<issuer, resolver, debounce, stores, client, request, begun, signIns>>

(***************************************************************************)
(* The session. Every event the library raises maps the session anew, with  *)
(* the name it had before /me was read.                                     *)
(***************************************************************************)
Token(u) == [user |-> u, key |-> signer, fresh |-> TRUE]
ToSession(u) == [user |-> u, name |-> None]

\* verifyOtp or a return from a provider, also while another account is in.
SignIn(u) ==
    /\ signIns < MaxSignIns /\ signIns' = signIns + 1
    /\ session' = Token(u) /\ current' = ToSession(u)
    /\ UNCHANGED <<issuer, service, stores, request, begun, faults>>

SignOut ==
    /\ session # None
    /\ session' = None /\ current' = None
    /\ UNCHANGED <<issuer, service, stores, request, begun, signIns, faults>>

Expire ==
    /\ session # None /\ session.fresh
    /\ session' = [session EXCEPT !.fresh = FALSE]
    /\ UNCHANGED <<issuer, service, stores, current, request, begun, signIns, faults>>

\* A token replaced: the library's own timer, another tab, or a call below.
Refreshed == session' = Token(session.user) /\ current' = ToSession(session.user)

LibraryRefreshes ==
    /\ session # None /\ Refreshed
    /\ UNCHANGED <<issuer, service, stores, request, begun, signIns, faults>>

(***************************************************************************)
(* A request to /me: loadProfile or setDisplayName over authedFetch.        *)
(***************************************************************************)

\* The bearer's token: one about to expire is replaced first, and stands if
\* that fails. Without a session authedFetch throws before it sends.
Begin(s, kind, name) ==
    /\ begun < MaxRequests /\ begun' = begun + 1
    /\ request[s] = Idle /\ session # None
    /\ \/ session.fresh /\ UNCHANGED <<client, faults>>
       \/ ~session.fresh /\ Refreshed /\ UNCHANGED faults
       \/ ~session.fresh /\ faults < MaxFaults /\ faults' = faults + 1 /\ UNCHANGED client
    /\ request' = [request EXCEPT ![s] =
           [Idle EXCEPT !.kind = kind, !.name = name, !.by = session.user,
                         !.token = session', !.at = "sent"]]
    /\ UNCHANGED <<issuer, service, stores, signIns>>

\* verify looks the key up before it looks at the expiry, and arms one refresh
\* for a key it does not know.
Refuse(s) ==
    LET t == request[s].token IN
    /\ request[s].at \in {"sent", "replayed"}
    /\ t.key \notin resolver \/ ~t.fresh
    /\ debounce' = (debounce \/ t.key \notin resolver)
    /\ request' = [request EXCEPT ![s].token = None,
                                  ![s].at = IF @ = "sent" THEN "refused" ELSE "failed"]
    /\ UNCHANGED <<issuer, resolver, fetches, stores, client, begun, signIns, faults>>

\* Mutant: the provider's name replaces the one the account has.
Seeded_Mirrors(name, new) == IF new # None THEN new ELSE name

\* A token's name fills an empty one, and never takes the place of another.
Seeded(name, new) == IF name = None THEN new ELSE name

\* authMiddleware: the identity of an accepted token is mirrored in users before any
\* handler runs.  Its name is whatever the provider called the account when the token
\* was issued, or none.
Admit(s) ==
    LET t == request[s].token IN
    /\ request[s].at \in {"sent", "replayed"}
    /\ t.key \in resolver /\ t.fresh
    /\ \E name \in Provided \cup {None} :
           /\ names' = [names EXCEPT ![t.user] = Seeded(@, name)]
           /\ carried' = [carried EXCEPT ![t.user] = @ \cup ({name} \ {None})]
    /\ request' = [request EXCEPT ![s].at = "admitted"]
    /\ UNCHANGED <<issuer, service, chosen, strayed, client, begun, signIns, faults>>

\* GET and PATCH /me act on the account of the token, which a replay may have changed.
Serve(s) ==
    LET r == request[s]
        u == r.token.user
        stored == IF r.kind = "rename" THEN {r.name} ELSE {}
    IN /\ r.at = "admitted"
       /\ names' = IF r.kind = "rename" THEN [names EXCEPT ![u] = r.name] ELSE names
       /\ chosen' = IF r.by = u THEN [chosen EXCEPT ![u] = @ \cup stored] ELSE chosen
       /\ strayed' = IF r.by = u THEN strayed ELSE [strayed EXCEPT ![u] = @ \cup stored]
       /\ request' = [request EXCEPT ![s].token = None, ![s].at = "answered",
              ![s].wrote = IF r.kind = "rename" THEN @ + 1 ELSE @,
              ![s].profile = [user |-> u, name |-> names'[u]]]
       /\ UNCHANGED <<issuer, service, carried, client, begun, signIns, faults>>

\* Mutant: a lost answer is replayed like a refusal.
MayReplay_Lost(r) == r.at \in {"refused", "lost"}

MayReplay(r) == r.at = "refused"

\* The one forced refresh and replay after a 401, with whatever account the
\* session is by then; no session, or no new token, and the 401 stands.
Replay(s) ==
    /\ MayReplay(request[s])
    /\ \/ /\ session # None /\ Refreshed
          /\ request' = [request EXCEPT ![s].token = session', ![s].at = "replayed"]
          /\ UNCHANGED faults
       \/ /\ session = None \/ faults < MaxFaults
          /\ faults' = IF session = None THEN faults ELSE faults + 1
          /\ request' = [request EXCEPT ![s].at = "failed"]
          /\ UNCHANGED client
    /\ UNCHANGED <<issuer, service, stores, begun, signIns>>

\* The transport fails, before or after the server acted.
Lose(s) ==
    /\ request[s].at \in {"sent", "replayed", "admitted", "answered"}
    /\ faults < MaxFaults /\ faults' = faults + 1
    /\ request' = [request EXCEPT ![s].token = None, ![s].at = "lost", ![s].profile = None]
    /\ UNCHANGED <<issuer, service, stores, client, begun, signIns>>

\* Mutant: the answer is adopted by whoever is signed in.
Ours_Anyone(profile) == current # None

Ours(profile) == current # None /\ current.user = profile.user

\* adoptProfile: the name is the server's, unless it has none.
Adopt(s) ==
    LET p == request[s].profile IN
    /\ request[s].at = "answered"
    /\ current' = IF Ours(p) /\ p.name # None THEN [current EXCEPT !.name = p.name] ELSE current
    /\ request' = [request EXCEPT ![s] = Idle]
    /\ UNCHANGED <<issuer, service, stores, session, begun, signIns, faults>>

\* The caller has seen the error; the surfaces retry with a new request.
Report(s) ==
    /\ request[s].at \in {"failed", "lost"}
    /\ request' = [request EXCEPT ![s] = Idle]
    /\ UNCHANGED <<issuer, service, stores, client, begun, signIns, faults>>

Next ==
    \/ Rotate \/ Withdraw
    \/ IntervalFires \/ DebounceFires \/ IssuerAnswers \/ FetchArrives \/ FetchFails
    \/ (\E u \in Users : SignIn(u)) \/ SignOut \/ Expire \/ LibraryRefreshes
    \/ \E s \in Slots :
           \/ Begin(s, "load", None) \/ \E n \in Names : Begin(s, "rename", n)
           \/ Refuse(s) \/ Admit(s) \/ Serve(s) \/ Replay(s) \/ Lose(s) \/ Adopt(s) \/ Report(s)

Spec == Init /\ [][Next]_vars

\* The interval timer keeps firing and a fetch ends, one way or the other.
Fairness ==
    /\ WF_vars(IntervalFires) /\ WF_vars(DebounceFires)
    /\ WF_vars(IssuerAnswers) /\ WF_vars(FetchArrives)

FairSpec == Spec /\ Fairness

-------------------------------------------------------------------------------
AnyName == Names \cup Provided \cup {None}
Tokens == [user : Users, key : Keys, fresh : BOOLEAN]
Profiles == [user : Users, name : AnyName]
Requests ==
    [kind : {"none", "load", "rename"}, name : Names \cup {None}, by : Users \cup {None},
     token : Tokens \cup {None},
     at : {"idle", "sent", "refused", "replayed", "admitted", "answered", "failed", "lost"},
     wrote : Nat, profile : Profiles \cup {None}]

\* The state is well formed.
TypeOK ==
    /\ signer \in Keys /\ published \subseteq Keys /\ resolver \subseteq Keys
    /\ fetches \in [Fetchers -> [at : {"none", "asked", "answered"}, keys : SUBSET Keys]]
    /\ debounce \in BOOLEAN
    /\ names \in [Users -> AnyName] /\ carried \in [Users -> SUBSET Provided]
    /\ chosen \in [Users -> SUBSET Names] /\ strayed \in [Users -> SUBSET Names]
    /\ session \in Tokens \cup {None} /\ current \in Profiles \cup {None}
    /\ request \in [Slots -> Requests]
    /\ {begun, signIns, faults} \subseteq Nat

\* The name on screen is one its own account chose or was given by its provider,
\* whoever was signed in when the request behind it was sent (adoptProfile's check of
\* the user).  A rename that authedFetch replayed after another account came in is
\* stored for that account and shown to it.
ShownNameIsTheirs ==
    current # None /\ current.name # None
        => current.name \in chosen[current.user] \cup carried[current.user] \cup strayed[current.user]

\* INV-7, the user owns the name (jit-upsert.ts): once an account has stored a name, no
\* token of whatever age and no later request puts the provider's in its place.
ChosenNameStays ==
    \A u \in Users :
        LET stored == chosen[u] \cup strayed[u] IN stored # {} => names[u] \in stored

\* A caller told 401 is told the truth: nothing was written; and an accepted
\* write was made once, however often the request was sent (authedFetch.ts:
\* "Only 401 retries, at most once").
ReportsAreTrue ==
    \A s \in Slots :
        /\ request[s].at \in {"refused", "failed"} => request[s].wrote = 0
        /\ request[s].at = "answered" /\ request[s].kind = "rename" => request[s].wrote = 1

\* The service ends up with the issuer's keys: it learns a new one and forgets
\* a withdrawn one, whatever fetches failed or overtook each other.
KeysCatchUp == <>[](resolver = published)

(***************************************************************************)
(* What comments say and the code does not do: TLC finds each one broken.   *)
(***************************************************************************)

\* supabaseAdapter.ts 98-104: the empty bootstrap is replaced "the moment
\* loadProfile() resolves" and the name shown is "always the app-DB value".
\* The next token refresh maps the session anew and the name is gone.
NameStaysAdopted ==
    [][current # None /\ current' # None /\ current.user = current'.user
           => current.name = None \/ current'.name # None]_vars

\* A load answered before a rename and adopted after it shows the old name.
NewestNameShows ==
    current # None /\ current.name # None /\ (\A s \in Slots : request[s] = Idle)
        => current.name = names[current.user]

\* jwks.ts: a fetch "is never a reason to reject tokens". One that was answered
\* before a rotation and arrives last takes the new key away again.
KnownKeyStays ==
    [][\A k \in resolver : k \in published => k \in resolver']_vars

=============================================================================
