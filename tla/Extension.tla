------------------------------ MODULE Extension ------------------------------
(***************************************************************************)
(* The auth worker of the browser extension (apps/extension/src): sign-in  *)
(* attempts of three kinds that end by storing a session, the refresh that *)
(* all contexts share, sign-out, the alarm that keeps a session fresh, and *)
(* the teardown that takes the worker's memory but neither the storage nor *)
(* the alarm.                                                              *)
(*                                                                         *)
(* The token issuer is external: each sign-in starts a family of refresh   *)
(* tokens, of which only the last is good, each grant rotates it, and a    *)
(* token that is spent or revoked is refused.  Storage answers at once but *)
(* the worker goes on later, so what it has written and what it does next  *)
(* are two steps.  Whose account a session is plays no part here.          *)
(***************************************************************************)
EXTENDS Naturals, FiniteSets

CONSTANTS
    None,
    Silent,       \* the silent attempt: at most one, SilentSignIn.inflight
    Interactive,  \* the interactive attempts
    Flights,      \* room for refreshes at once, more than the worker makes
    Wrap,         \* the tokens of a family are told apart modulo Wrap
    MaxSignIns, MaxSignOuts, MaxFaults, MaxKills  \* bounds

Families == 1 .. MaxSignIns
Sessions == [of : Families, token : 1 .. Wrap, fresh : BOOLEAN]

ASSUME ExtensionAssumption ==
    /\ None \notin Sessions
    /\ Silent \notin Interactive /\ Flights # {} /\ Wrap \in Nat \ {0, 1}
    /\ {MaxSignIns, MaxSignOuts, MaxFaults, MaxKills} \subseteq Nat

VARIABLES
    family,    \* the issuer's families: the good token, 0 while not begun; revoked
    stored,    \* chrome.storage: the session, its token, not inside its margin
    alarm,     \* REFRESH_ALARM is set
    flight,    \* the refreshes under way, and who waits for them
    attempt,   \* the sign-in attempts under way
    interactiveInFlight,
    leaving,   \* the sign-out under way and the session it read
    lost,      \* the sessions whose rotated token was lost on its way (history)
    crossed,   \* those that were stored behind the back of another call (history)
    unarmed,   \* a stored session's alarm was lost (history)
    asked,     \* the sessions a sign-out was begun for (history)
    signOuts, faults, kills  \* counters for the bounds

memory == <<flight, attempt, interactiveInFlight, leaving>>
history == <<lost, crossed, unarmed, asked>>
bounds == <<signOuts, faults, kills>>
vars == <<family, stored, alarm, memory, history, bounds>>

Attempts == Interactive \cup {Silent}

NoFlight == [at |-> "idle", of |-> 0, token |-> 0, answer |-> "none", alarmed |-> FALSE]
NoAttempt == [at |-> "idle", of |-> 0]
Staying == [at |-> "idle", of |-> 0]

Init ==
    /\ family = [f \in Families |-> [good |-> 0, revoked |-> FALSE]]
    /\ stored = None /\ alarm = FALSE
    /\ flight = [r \in Flights |-> NoFlight]
    /\ attempt = [a \in Attempts |-> NoAttempt]
    /\ interactiveInFlight = FALSE /\ leaving = Staying
    /\ lost = {} /\ crossed = {} /\ unarmed = FALSE /\ asked = {}
    /\ signOuts = 0 /\ faults = 0 /\ kills = 0

Flying == {r \in Flights : flight[r].at # "idle"}
Fault == faults < MaxFaults /\ faults' = faults + 1

(***************************************************************************)
(* The refresh.                                                            *)
(***************************************************************************)

\* Mutant: every caller refreshes for itself.
Shared_Never == {}

\* inflightRefresh, which every caller shares.
Shared == Flying

\* singleFlightRefresh; alarmed: runScheduledRefresh is among those who wait.
JoinRefresh(alarmed) ==
    \/ /\ Shared # {}
       /\ \E r \in Shared : flight' = [flight EXCEPT ![r].alarmed = @ \/ alarmed]
    \/ /\ Shared = {} /\ Flying # Flights
       /\ LET r == CHOOSE r \in Flights \ Flying : TRUE IN
              flight' = [flight EXCEPT ![r] = [NoFlight EXCEPT !.at = "begun", !.alarmed = alarmed]]

\* An alarm is set for ALARM_FLOOR_SEC from then at the earliest: it does not fire into
\* the clearing of a session that was refused before it was set.
Scheduled ==
    /\ alarm /\ alarm' = FALSE
    /\ \A r \in Flights : flight[r].at = "over" => flight[r].answer # "refused"
    /\ JoinRefresh(TRUE)
    /\ UNCHANGED <<family, stored, attempt, interactiveInFlight, leaving, history, bounds>>

\* freshAccessToken, for the popup or the pill, on a session inside its margin.
FreshAccessToken ==
    /\ stored # None /\ ~ stored.fresh
    /\ JoinRefresh(FALSE)
    /\ UNCHANGED <<family, stored, alarm, attempt, interactiveInFlight, leaving, history, bounds>>

\* refreshStoredSession reads the session and asks for the grant; without a session
\* there is nothing to do, for its callers either.
Ask(r) ==
    /\ flight[r].at = "begun"
    /\ flight' = [flight EXCEPT ![r] =
           IF stored = None THEN NoFlight
           ELSE [@ EXCEPT !.at = "asked", !.of = stored.of, !.token = stored.token]]
    /\ UNCHANGED <<family, stored, alarm, attempt, interactiveInFlight, leaving, history, bounds>>

\* The issuer rotates a good token and refuses any other.
Good(f, token) == ~ family[f].revoked /\ family[f].good = token
Rotated(token) == (token % Wrap) + 1

Grant(r) ==
    LET f == flight[r].of
        good == Good(f, flight[r].token)
    IN /\ flight[r].at = "asked"
       /\ family' = IF good THEN [family EXCEPT ![f].good = Rotated(@)] ELSE family
       /\ flight' = [flight EXCEPT ![r] = [@ EXCEPT !.at = "answered",
                                   !.answer = IF good THEN "granted" ELSE "refused"]]
       /\ UNCHANGED <<stored, alarm, attempt, interactiveInFlight, leaving, history, bounds>>

\* No answer, or one that says nothing of the token, before or after the rotation.
GrantFails(r) ==
    /\ flight[r].at \in {"asked", "answered"} /\ flight[r].answer # "unknown" /\ Fault
    /\ lost' = IF flight[r].answer = "granted" THEN lost \cup {flight[r].of} ELSE lost
    /\ flight' = [flight EXCEPT ![r] = [@ EXCEPT !.at = "answered", !.answer = "unknown"]]
    /\ UNCHANGED <<family, stored, alarm, attempt, interactiveInFlight, leaving, crossed, unarmed,
                   asked, signOuts, kills>>

\* Mutant: whatever is no success is a verdict on the credential.
SignedOut_Any(answer) == TRUE

\* classifyRefreshFailure.
SignedOut(answer) == answer = "refused"

\* The rotated pair is stored, the session is cleared, or neither.
Settle(r) ==
    LET new == [of |-> flight[r].of, token |-> Rotated(flight[r].token), fresh |-> TRUE]
        granted == flight[r].answer = "granted"
    IN /\ flight[r].at = "answered"
       /\ stored' = IF granted THEN new
                    ELSE IF SignedOut(flight[r].answer) THEN None ELSE stored
       /\ crossed' = IF granted /\ (leaving.at # "idle" \/ stored = None)
                     THEN crossed \cup {new.of} ELSE crossed
       /\ flight' = [flight EXCEPT ![r] = [@ EXCEPT !.at = "over", !.of = 0, !.token = 0]]
       /\ UNCHANGED <<family, alarm, attempt, interactiveInFlight, leaving, lost, unarmed, asked, bounds>>

\* Mutant: a scheduled refresh that failed is not tried again.
Rearms_OnSuccess(r) == flight[r].answer = "granted"

\* Every caller arms the alarm on success, the scheduled one after a failure too.
Rearms(r) ==
    \/ flight[r].answer = "granted"
    \/ flight[r].alarmed /\ ~ SignedOut(flight[r].answer)

Resume(r) ==
    /\ flight[r].at = "over"
    /\ alarm' = (alarm \/ Rearms(r))
    /\ flight' = [flight EXCEPT ![r] = NoFlight]
    /\ UNCHANGED <<family, stored, attempt, interactiveInFlight, leaving, history, bounds>>

(***************************************************************************)
(* The attempts.                                                           *)
(***************************************************************************)

\* signIn: a click starts one whatever else is under way.
SignIn(a) ==
    /\ a \in Interactive /\ attempt[a].at = "idle"
    /\ attempt' = [attempt EXCEPT ![a].at = "launched"] /\ interactiveInFlight' = TRUE
    /\ UNCHANGED <<family, stored, alarm, flight, leaving, history, bounds>>

\* SilentSignIn.run: the popup opens or the web app reports an account.
RunSilent ==
    /\ attempt[Silent].at = "idle" /\ ~ interactiveInFlight
    /\ attempt' = [attempt EXCEPT ![Silent].at = "guard"]
    /\ UNCHANGED <<family, stored, alarm, flight, interactiveInFlight, leaving, history, bounds>>

\* alreadySignedIn has answered.
PassGuard ==
    /\ attempt[Silent].at = "guard"
    /\ attempt' = [attempt EXCEPT ![Silent].at = IF stored = None THEN "launched" ELSE "idle"]
    /\ UNCHANGED <<family, stored, alarm, flight, interactiveInFlight, leaving, history, bounds>>

\* The redirect is captured and its code traded for a new family's first token.
Exchange(a) ==
    /\ attempt[a].at = "launched"
    /\ \E f \in Families :
           /\ family[f].good = 0 /\ \A g \in Families : g < f => family[g].good # 0
           /\ family' = [family EXCEPT ![f].good = 1]
           /\ attempt' = [attempt EXCEPT ![a] = [at |-> "granted", of |-> f]]
    /\ UNCHANGED <<stored, alarm, flight, interactiveInFlight, leaving, history, bounds>>

\* saveSession.
Save(a) ==
    /\ attempt[a].at = "granted"
    /\ stored' = [of |-> attempt[a].of, token |-> 1, fresh |-> TRUE]
    /\ attempt' = [attempt EXCEPT ![a] = [at |-> "saved", of |-> 0]]
    /\ crossed' = IF Flying # {} \/ leaving.at # "idle" THEN crossed \cup {attempt[a].of} ELSE crossed
    /\ UNCHANGED <<family, alarm, flight, interactiveInFlight, leaving, lost, unarmed, asked, bounds>>

\* The attempt arms the alarm and is over, or has been cancelled or refused.
AttemptEnds(a) ==
    /\ attempt[a].at \in {"saved", "launched"}
    /\ alarm' = (alarm \/ attempt[a].at = "saved")
    /\ attempt' = [attempt EXCEPT ![a] = NoAttempt]
    /\ interactiveInFlight' = (interactiveInFlight /\ a \notin Interactive)
    /\ UNCHANGED <<family, stored, flight, leaving, history, bounds>>

(***************************************************************************)
(* Sign-out: best-effort revocation, then the session, then the alarm.     *)
(***************************************************************************)
SignOut ==
    /\ leaving.at = "idle" /\ signOuts < MaxSignOuts /\ signOuts' = signOuts + 1
    /\ leaving' = IF stored = None THEN [at |-> "clear", of |-> 0]
                  ELSE [at |-> "revoke", of |-> stored.of]
    /\ asked' = IF stored = None THEN asked ELSE asked \cup {stored.of}
    /\ UNCHANGED <<family, stored, alarm, flight, attempt, interactiveInFlight, lost, crossed,
                   unarmed, faults, kills>>

Revoke ==
    /\ leaving.at = "revoke" /\ leaving' = [at |-> "clear", of |-> 0]
    /\ family' = [family EXCEPT ![leaving.of].revoked = TRUE]
    /\ UNCHANGED <<stored, alarm, flight, attempt, interactiveInFlight, history, bounds>>

RevokeFails ==
    /\ leaving.at = "revoke" /\ leaving' = [at |-> "clear", of |-> 0] /\ Fault
    /\ UNCHANGED <<family, stored, alarm, flight, attempt, interactiveInFlight, history,
                   signOuts, kills>>

ClearSession ==
    /\ leaving.at = "clear" /\ leaving' = [leaving EXCEPT !.at = "alarm"]
    /\ stored' = None
    /\ UNCHANGED <<family, alarm, flight, attempt, interactiveInFlight, history, bounds>>

ClearAlarm ==
    /\ leaving.at = "alarm" /\ leaving' = Staying
    /\ alarm' = FALSE /\ unarmed' = (unarmed \/ stored # None)
    /\ UNCHANGED <<family, stored, flight, attempt, interactiveInFlight, lost, crossed, asked, bounds>>

(***************************************************************************)
(* The browser.                                                            *)
(***************************************************************************)

\* The access token gets inside its margin.
Expire ==
    /\ stored # None /\ stored.fresh /\ stored' = [stored EXCEPT !.fresh = FALSE]
    /\ UNCHANGED <<family, alarm, memory, history, bounds>>

\* The worker is torn down.  (What it had asked the issuer for and is served after
\* that might as well have been served before.)
Kill ==
    /\ kills < MaxKills /\ kills' = kills + 1
    /\ flight' = [r \in Flights |-> NoFlight] /\ attempt' = [a \in Attempts |-> NoAttempt]
    /\ interactiveInFlight' = FALSE /\ leaving' = Staying
    /\ lost' = lost \cup {flight[r].of : r \in {q \in Flights :
                                 flight[q].at = "answered" /\ flight[q].answer = "granted"}}
    /\ unarmed' = (unarmed \/ (stored # None /\ ~ alarm))
    /\ UNCHANGED <<family, stored, alarm, crossed, asked, signOuts, faults>>

\* onStartup, onInstalled: rearm, in a worker that has done nothing yet.
Startup ==
    /\ kills > 0 /\ Flying = {} /\ leaving = Staying /\ \A a \in Attempts : attempt[a] = NoAttempt
    /\ stored # None
    /\ IF stored.fresh THEN alarm' = TRUE /\ UNCHANGED flight
       ELSE JoinRefresh(TRUE) /\ UNCHANGED alarm
    /\ UNCHANGED <<family, stored, attempt, interactiveInFlight, leaving, history, bounds>>

Worker ==
    \/ \E r \in Flights : Ask(r) \/ Grant(r) \/ Settle(r) \/ Resume(r)
    \/ PassGuard \/ \E a \in Attempts : Save(a) \/ (attempt[a].at = "saved" /\ AttemptEnds(a))
    \/ Revoke \/ ClearSession \/ ClearAlarm

Others ==
    \/ FreshAccessToken \/ SignOut \/ RunSilent \/ Expire \/ Kill \/ Startup \/ RevokeFails
    \/ \E r \in Flights : GrantFails(r)
    \/ \E a \in Attempts : SignIn(a) \/ Exchange(a) \/ AttemptEnds(a)

Next == Scheduled \/ Worker \/ Others

Spec == Init /\ [][Next]_vars

\* The worker goes on with what storage and the issuer answered, and an alarm that
\* is set fires.  Nothing is assumed of the user, the pages and the network.
Fairness ==
    /\ WF_vars(Scheduled)
    /\ \A r \in Flights : WF_vars(Ask(r)) /\ WF_vars(Grant(r)) /\ WF_vars(Settle(r)) /\ WF_vars(Resume(r))
    /\ \A a \in Attempts : WF_vars(Save(a)) /\ WF_vars(attempt[a].at = "saved" /\ AttemptEnds(a))
    /\ WF_vars(Revoke) /\ WF_vars(ClearSession) /\ WF_vars(ClearAlarm)

FairSpec == Spec /\ Fairness

(***************************************************************************)
(* What must hold.                                                         *)
(***************************************************************************)

FlightStates ==
    [at : {"idle", "begun", "asked", "answered", "over"}, of : Families \cup {0},
     token : 0 .. Wrap, answer : {"none", "granted", "refused", "unknown"},
     alarmed : BOOLEAN]
AttemptStates ==
    [at : {"idle", "guard", "launched", "granted", "saved"}, of : Families \cup {0}]

\* The state is well formed.
TypeOK ==
    /\ family \in [Families -> [good : 0 .. Wrap, revoked : BOOLEAN]]
    /\ stored \in Sessions \cup {None} /\ alarm \in BOOLEAN
    /\ flight \in [Flights -> FlightStates] /\ attempt \in [Attempts -> AttemptStates]
    /\ leaving \in [at : {"idle", "revoke", "clear", "alarm"}, of : Families \cup {0}]
    /\ {interactiveInFlight, unarmed} \subseteq BOOLEAN
    /\ lost \cup crossed \cup asked \subseteq Families
    /\ {signOuts, faults, kills} \subseteq Nat

\* INV-11: the user is signed out only when they ask.  A session leaves the storage
\* only if a sign-out was begun for it, whatever refreshes, failures, teardowns and
\* attempts come between.  Two kinds of session the code does not keep are left out: one
\* whose rotated token was lost on the network or with the worker (lost), and one that
\* was stored while another call was half-way (crossed).
NeverSignedOutUnasked ==
    [][stored # None /\ stored' = None /\ stored.of \notin lost \cup crossed
           => stored.of \in asked]_vars

\* background.ts 3: the worker keeps the session fresh across teardowns.  A session
\* inside its margin is refreshed or gone in the end, whatever failed, raced or was torn
\* down before, unless a teardown came while it was stored and no alarm was set, or a
\* sign-out that was under way when it was stored cleared its alarm.
SessionIsRefreshed ==
    (stored # None /\ ~ stored.fresh) ~> (stored = None \/ stored.fresh \/ unarmed)

(***************************************************************************)
(* What comments say and the code does not do: TLC finds each one broken.   *)
(***************************************************************************)

\* background.ts: "two OAuth flows racing to persist a session would clobber each
\* other".  An attempt begun before a click goes on beside the interactive one.
OneFlow == Cardinality({a \in Attempts : attempt[a].at \in {"launched", "granted"}}) <= 1

\* A refresh that was under way when the user signed out puts the session back.
SignedOutStaysOut == [][stored = None /\ stored' # None => stored'.of \notin asked]_vars
=============================================================================
