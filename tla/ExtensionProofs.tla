--------------------------- MODULE ExtensionProofs ---------------------------
(***************************************************************************)
(* A proof that the auth worker ends no session unasked whose rotated      *)
(* token arrived and that crossed no other call, for any number of         *)
(* attempts, refreshes, failures and teardowns.                            *)
(***************************************************************************)
EXTENDS Extension, TLAPS

\* The worker has at most one refresh under way.
OneRefresh == \A r, s \in Flying : r = s

\* Families are revoked for a sign-out only.
RevokedIsAsked ==
    /\ \A f \in Families : family[f].revoked => f \in asked
    /\ leaving.at = "revoke" => leaving.of \in asked

\* What anyone holds a token of has begun.
HeldIsBegun ==
    /\ stored # None => family[stored.of].good # 0
    /\ \A r \in Flights : flight[r].at \in {"asked", "answered"} =>
           flight[r].of \in Families /\ family[flight[r].of].good # 0
    /\ \A f \in asked : family[f].good # 0

\* The session an attempt is about to store is known to nobody else.
GrantIsNew ==
    \A a \in Attempts : attempt[a].at = "granted" =>
        LET f == attempt[a].of
        IN  /\ f \in Families /\ family[f].good = 1 /\ f \notin asked
            /\ stored # None => stored.of # f
            /\ \A r \in Flights : flight[r].at \in {"asked", "answered"} => flight[r].of # f
            /\ \A b \in Attempts : attempt[b].at = "granted" /\ attempt[b].of = f => b = a

\* The answer to r has the rotated token.
Brings(r) == flight[r].at = "answered" /\ flight[r].answer = "granted"

\* The sessions that may end: a sign-out was begun for them, or the property leaves
\* them out.
Doubted == lost \cup crossed \cup asked

\* The stored session is good, may end, or has its next token on the way.
StoredIsGood ==
    stored # None =>
        \/ Good(stored.of, stored.token)
        \/ stored.of \in Doubted
        \/ \E r \in Flights : Brings(r) /\ flight[r].of = stored.of

\* A refresh speaks of the stored session, unless that one may end.
Refreshes(r) ==
    /\ flight[r].at = "asked" /\ stored # None /\ stored.of \notin Doubted =>
           stored.of = flight[r].of /\ stored.token = flight[r].token
    /\ Brings(r) => family[flight[r].of].good = Rotated(flight[r].token)
    /\ Brings(r) /\ stored # None /\ stored.of \notin Doubted => stored.of = flight[r].of
    /\ flight[r].at = "answered" /\ flight[r].answer = "refused" /\ stored # None =>
           stored.of \in Doubted

\* Past its first step a sign-out finds nothing, or a session that may end.
LeavesAsked ==
    leaving.at \in {"revoke", "clear"} /\ stored # None => stored.of \in Doubted

Agreed == StoredIsGood /\ LeavesAsked /\ \A r \in Flights : Refreshes(r)

IInv == TypeOK /\ OneRefresh /\ RevokedIsAsked /\ HeldIsBegun /\ GrantIsNew /\ Agreed

\* A rotation yields a token.
LEMMA RotatedType == ASSUME NEW t \in 0 .. Wrap PROVE Rotated(t) \in 1 .. Wrap
BY ExtensionAssumption DEF Rotated

LEMMA InitIInv == Init => IInv
<1> SUFFICES ASSUME Init PROVE IInv
  OBVIOUS
<1>1. TypeOK
  <2>1. family \in [Families -> [good : 0 .. Wrap, revoked : BOOLEAN]]
    BY ExtensionAssumption DEF Init
  <2>2. flight \in [Flights -> FlightStates] /\ attempt \in [Attempts -> AttemptStates]
    BY ExtensionAssumption DEF Init, FlightStates, NoFlight, AttemptStates, NoAttempt
  <2>3. leaving \in [at : {"idle", "revoke", "clear", "alarm"}, of : Families \cup {0}]
    BY DEF Init, Staying
  <2>4. {signOuts, faults, kills} \subseteq Nat
    BY DEF Init
  <2>5. {interactiveInFlight, unarmed} \subseteq BOOLEAN /\ lost \cup crossed \cup asked \subseteq Families
    BY DEF Init
  <2>6. QED
    BY <2>1, <2>2, <2>3, <2>4, <2>5 DEF Init, TypeOK
<1>2. QED
  BY <1>1 DEF Init, IInv, OneRefresh, RevokedIsAsked, HeldIsBegun, GrantIsNew, Agreed, Doubted, StoredIsGood,
              LeavesAsked, Refreshes, Brings, Flying, NoFlight, NoAttempt, Staying

\* A call that refreshes joins the refresh under way, or begins the only one.
LEMMA Joined ==
    ASSUME TypeOK, OneRefresh, NEW alarmed \in BOOLEAN, JoinRefresh(alarmed)
    PROVE  /\ flight' \in [Flights -> FlightStates]
           /\ OneRefresh'
           /\ \A r \in Flights :
                  \/ /\ flight'[r].at = flight[r].at /\ flight'[r].of = flight[r].of
                     /\ flight'[r].token = flight[r].token /\ flight'[r].answer = flight[r].answer
                  \/ flight[r].at = "idle" /\ flight'[r].at = "begun"
<1>1. CASE \E r \in Shared : flight' = [flight EXCEPT ![r].alarmed = @ \/ alarmed]
  <2>1. PICK r \in Shared : flight' = [flight EXCEPT ![r].alarmed = @ \/ alarmed]
    BY <1>1
  <2>2. r \in Flights
    BY DEF Shared, Flying
  <2>3. flight' \in [Flights -> FlightStates]
    BY <2>1, <2>2 DEF TypeOK, FlightStates
  <2>4. \A s \in Flights : /\ flight'[s].at = flight[s].at /\ flight'[s].of = flight[s].of
                           /\ flight'[s].token = flight[s].token
                           /\ flight'[s].answer = flight[s].answer
    BY <2>1, <2>2 DEF TypeOK, FlightStates
  <2>5. QED
    BY <2>3, <2>4 DEF OneRefresh, Flying
<1>2. CASE Shared = {} /\ Flying # Flights
  <2> DEFINE new == CHOOSE r \in Flights \ Flying : TRUE
  <2>1. new \in Flights /\ new \notin Flying
    BY <1>2 DEF Flying
  <2> HIDE DEF new
  <2>2. flight' = [flight EXCEPT ![new] = [NoFlight EXCEPT !.at = "begun", !.alarmed = alarmed]]
    BY <1>2 DEF JoinRefresh, new
  <2>3. [NoFlight EXCEPT !.at = "begun", !.alarmed = alarmed] \in FlightStates
    <3>1. NoFlight \in FlightStates
      BY ExtensionAssumption DEF NoFlight, FlightStates
    <3>2. QED
      BY <3>1 DEF FlightStates
  <2>4. flight' \in [Flights -> FlightStates]
    BY <2>1, <2>2, <2>3 DEF TypeOK
  <2>5. \A r \in Flights : IF r = new THEN flight[r].at = "idle" /\ flight'[r].at = "begun"
                           ELSE flight'[r] = flight[r]
    BY <2>1, <2>2 DEF TypeOK, Flying, NoFlight
  <2>6. Flying = {}
    BY <1>2 DEF Shared
  <2>7. OneRefresh'
    BY <2>5, <2>6 DEF OneRefresh, Flying
  <2>8. QED
    BY <2>4, <2>5, <2>7
<1>3. QED
  BY <1>1, <1>2 DEF JoinRefresh

\* A refresh asks with the token of the stored session.
LEMMA AskStep == ASSUME IInv, NEW r \in Flights, Ask(r) PROVE IInv'
<1> USE ExtensionAssumption
    DEF IInv, TypeOK, history, bounds, memory, Fault, NoFlight, NoAttempt, Staying, Ask
<1>1. TypeOK'
  <2>1. flight[r] \in FlightStates
    OBVIOUS
  <2>2. NoFlight \in FlightStates
    BY DEF FlightStates
  <2>3. \A f \in Families, t \in 0 .. Wrap :
            [flight[r] EXCEPT !.at = "asked", !.of = f, !.token = t] \in FlightStates
    BY <2>1 DEF FlightStates
  <2>4. stored # None => stored.of \in Families /\ stored.token \in 0 .. Wrap
    BY DEF Sessions
  <2>5. flight' \in [Flights -> FlightStates]
    BY <2>2, <2>3, <2>4
  <2>6. QED
    BY <2>5
<1>2. (OneRefresh /\ RevokedIsAsked /\ HeldIsBegun /\ GrantIsNew)'
  BY <1>1, RotatedType DEF OneRefresh, Flying, RevokedIsAsked, HeldIsBegun, GrantIsNew,
                           FlightStates, AttemptStates, Sessions
<1>3. Agreed'
  BY <1>1, RotatedType DEF Agreed, Doubted, StoredIsGood, LeavesAsked, Refreshes, Brings, OneRefresh, Flying,
                           Good, RevokedIsAsked, HeldIsBegun, GrantIsNew, FlightStates, Sessions
<1>4. QED
  BY <1>1, <1>2, <1>3 DEF IInv

\* The issuer rotates the stored token on its way, or refuses one it has revoked.
LEMMA GrantStep == ASSUME IInv, NEW r \in Flights, Grant(r) PROVE IInv'
<1> USE ExtensionAssumption
    DEF IInv, TypeOK, history, bounds, memory, Fault, NoFlight, NoAttempt, Staying, Grant
<1>1. TypeOK'
  <2>1. flight[r] \in FlightStates
    OBVIOUS
  <2>2. \A answer \in {"granted", "refused"} :
            [flight[r] EXCEPT !.at = "answered", !.answer = answer] \in FlightStates
    BY <2>1 DEF FlightStates
  <2>3. PICK answer \in {"granted", "refused"} :
            flight' = [flight EXCEPT ![r] = [@ EXCEPT !.at = "answered", !.answer = answer]]
    OBVIOUS
  <2>4. flight' \in [Flights -> FlightStates]
    BY <2>2, <2>3
  <2>5. family' \in [Families -> [good : 0 .. Wrap, revoked : BOOLEAN]]
    <3>1. Rotated(family[flight[r].of].good) \in 0 .. Wrap
      BY <2>1, RotatedType DEF HeldIsBegun
    <3>2. QED
      BY <3>1
  <2>6. QED
    BY <2>4, <2>5
<1>2. (OneRefresh /\ RevokedIsAsked /\ HeldIsBegun /\ GrantIsNew)'
  <2>1. /\ \A s \in Flights : /\ flight'[s].of = flight[s].of /\ flight'[s].token = flight[s].token
                              /\ flight'[s].at = IF s = r THEN "answered" ELSE flight[s].at
        /\ flight[r].at = "asked" /\ flight[r].of \in Families
    BY DEF FlightStates, HeldIsBegun
  <2>2. \A f \in Families :
            /\ family'[f].revoked = family[f].revoked
            /\ family'[f].good = family[f].good \/ f = flight[r].of
            /\ family[f].good # 0 => family'[f].good # 0
    <3>1. \A t \in 0 .. Wrap : Rotated(t) # 0
      BY RotatedType
    <3> QED BY <2>1, <3>1
  <2> USE <2>1, <2>2
  <2>3. OneRefresh'
    BY DEF OneRefresh, Flying
  <2>4. RevokedIsAsked'
    BY DEF RevokedIsAsked
  <2>5. HeldIsBegun'
    <3>1. stored # None => stored.of \in Families
      BY DEF Sessions
    <3>2. /\ stored # None => family'[stored.of].good # 0
          /\ \A f \in asked : family'[f].good # 0
      BY <3>1 DEF HeldIsBegun
    <3>3. \A s \in Flights : flight'[s].at \in {"asked", "answered"} =>
              flight'[s].of \in Families /\ family'[flight'[s].of].good # 0
      BY DEF HeldIsBegun
    <3> QED BY <3>2, <3>3 DEF HeldIsBegun
  <2>6. GrantIsNew'
    BY DEF GrantIsNew, AttemptStates
  <2> QED BY <2>3, <2>4, <2>5, <2>6
<1>3. Agreed'
  <2>1. StoredIsGood'
    <3> SUFFICES ASSUME stored # None, stored.of \notin Doubted PROVE StoredIsGood'
      BY DEF StoredIsGood, Doubted
    <3>1. /\ flight[r].at = "asked" /\ stored.of = flight[r].of /\ stored.token = flight[r].token
          /\ stored.of \in Families /\ flight'[r].at = "answered" /\ flight'[r].of = stored.of
      BY DEF Agreed, Refreshes, FlightStates, Sessions
    <3>2. CASE Good(flight[r].of, flight[r].token)
      <4>1. flight'[r].answer = "granted"
        BY <3>2 DEF FlightStates
      <4> QED BY <3>1, <4>1 DEF StoredIsGood, Brings
    <3>3. CASE ~ Good(flight[r].of, flight[r].token)
      <4>1. family' = family /\ ~ Good(stored.of, stored.token)
        BY <3>1, <3>3
      <4>2. ~ \E s \in Flights : Brings(s)
        BY <3>1 DEF Brings, OneRefresh, Flying
      <4> QED BY <4>1, <4>2 DEF Agreed, StoredIsGood
    <3> QED BY <3>2, <3>3
  <2>2. LeavesAsked'
    BY <1>1 DEF Agreed, Doubted, LeavesAsked, Refreshes, Brings, OneRefresh, Flying, FlightStates
  <2>3. (\A s \in Flights : Refreshes(s))'
    <3> SUFFICES ASSUME NEW s \in Flights PROVE Refreshes(s)'
      OBVIOUS
    <3>0. Doubted' = Doubted
      BY DEF Doubted
    <3>1. CASE s # r
      <4>1. flight'[s].at = "idle"
        BY <3>1 DEF OneRefresh, Flying
      <4> QED BY <4>1 DEF Refreshes, Brings
    <3>2. CASE s = r
      <4>1. /\ flight[r].at = "asked" /\ flight[r].of \in Families
            /\ flight'[r].at = "answered" /\ flight'[r].of = flight[r].of
            /\ flight'[r].token = flight[r].token /\ stored' = stored /\ Doubted' = Doubted
        BY <3>0 DEF HeldIsBegun, FlightStates
      <4>2. stored # None /\ stored.of \notin Doubted => stored.of = flight[r].of /\ stored.token = flight[r].token
        BY <4>1 DEF Agreed, Refreshes
      <4>3. CASE Good(flight[r].of, flight[r].token)
        <5>1. flight'[r].answer = "granted"
          BY <4>3 DEF FlightStates
        <5>2. family'[flight[r].of].good = Rotated(flight[r].token)
          BY <4>1, <4>3 DEF Good
        <5> QED BY <3>2, <4>1, <4>2, <5>1, <5>2 DEF Refreshes, Brings
      <4>4. CASE ~ Good(flight[r].of, flight[r].token)
        <5>1. flight'[r].answer = "refused"
          BY <4>4 DEF FlightStates
        <5>2. ~ \E t \in Flights : Brings(t)
          BY <4>1 DEF Brings, OneRefresh, Flying
        <5>3. stored # None => stored.of \in Doubted
          BY <4>2, <4>4, <5>2 DEF Agreed, StoredIsGood
        <5> QED BY <3>2, <4>1, <5>1, <5>3 DEF Refreshes, Brings
      <4> QED BY <4>3, <4>4
    <3> QED BY <3>1, <3>2
  <2>4. QED
    BY <2>1, <2>2, <2>3 DEF Agreed
<1>4. QED
  BY <1>1, <1>2, <1>3 DEF IInv

\* A failure is no verdict; one after the rotation is a lost answer.
LEMMA GrantFailsStep == ASSUME IInv, NEW r \in Flights, GrantFails(r) PROVE IInv'
<1> USE ExtensionAssumption
    DEF IInv, TypeOK, history, bounds, memory, Fault, NoFlight, NoAttempt, Staying, GrantFails
<1>1. TypeOK'
  <2>1. flight[r] \in FlightStates
    OBVIOUS
  <2>2. [flight[r] EXCEPT !.at = "answered", !.answer = "unknown"] \in FlightStates
    BY <2>1 DEF FlightStates
  <2>3. flight' \in [Flights -> FlightStates]
    BY <2>2
  <2>4. lost' \subseteq Families
    BY <2>1 DEF HeldIsBegun, FlightStates
  <2>5. QED
    BY <2>3, <2>4
<1>2. (OneRefresh /\ RevokedIsAsked /\ HeldIsBegun /\ GrantIsNew)'
  BY <1>1, RotatedType DEF OneRefresh, Flying, RevokedIsAsked, HeldIsBegun, GrantIsNew,
                           FlightStates, AttemptStates, Sessions
<1>3. Agreed'
  <2>1. StoredIsGood'
    <3>1. SUFFICES ASSUME stored # None, stored.of \notin Doubted' PROVE StoredIsGood'
      BY DEF StoredIsGood
    <3>2. stored.of \notin Doubted /\ ~ (Brings(r) /\ flight[r].of = stored.of)
      BY <3>1 DEF Brings, Doubted
    <3>3. \A s \in Flights \ {r} : Brings(s) => Brings(s)' /\ flight'[s].of = flight[s].of
      BY DEF Brings
    <3>4. QED
      BY <3>2, <3>3 DEF Agreed, StoredIsGood, Good
  <2>2. LeavesAsked'
    BY <1>1 DEF Agreed, Doubted, LeavesAsked, Refreshes, Brings, OneRefresh, Flying, FlightStates
  <2>3. (\A s \in Flights : Refreshes(s))'
    BY <1>1, RotatedType DEF Agreed, Doubted, StoredIsGood, Refreshes, Brings, OneRefresh, Flying, Good,
                             RevokedIsAsked, HeldIsBegun, FlightStates
  <2>4. QED
    BY <2>1, <2>2, <2>3 DEF Agreed
<1>4. QED
  BY <1>1, <1>2, <1>3 DEF IInv

\* The rotated token is stored, or the session cleared whose revocation was asked for.
LEMMA SettleStep == ASSUME IInv, NEW r \in Flights, Settle(r) PROVE IInv'
<1> USE ExtensionAssumption
    DEF IInv, TypeOK, history, bounds, memory, Fault, NoFlight, NoAttempt, Staying, Settle
<1>1. TypeOK'
  <2>1. flight[r] \in FlightStates
    OBVIOUS
  <2>2. [flight[r] EXCEPT !.at = "over", !.of = 0, !.token = 0] \in FlightStates
    <3>1. 0 \in 0 .. Wrap
      OBVIOUS
    <3>2. QED
      BY <2>1, <3>1 DEF FlightStates
  <2>3. flight' \in [Flights -> FlightStates]
    BY <2>2
  <2>4. stored' \in Sessions \cup {None}
    BY <2>1, RotatedType DEF HeldIsBegun, FlightStates, Sessions
  <2>5. crossed' \subseteq Families
    BY DEF HeldIsBegun
  <2>6. QED
    BY <2>3, <2>4, <2>5
<1>2. (OneRefresh /\ RevokedIsAsked /\ HeldIsBegun /\ GrantIsNew)'
  BY <1>1, RotatedType DEF OneRefresh, Flying, RevokedIsAsked, HeldIsBegun, GrantIsNew,
                           FlightStates, AttemptStates, Sessions
<1>3. Agreed'
  <2>1. StoredIsGood'
    <3>1. SUFFICES ASSUME stored' # None, stored'.of \notin Doubted' PROVE StoredIsGood'
      BY DEF StoredIsGood
    <3>2. Agreed /\ stored'.of \notin Doubted
      BY <3>1 DEF Doubted
    <3>3. CASE flight[r].answer = "granted"
      <4>1. stored'.of = flight[r].of /\ stored'.token = family[flight[r].of].good
        BY <3>2, <3>3 DEF Agreed, Refreshes, Brings
      <4>2. QED
        BY <3>2, <4>1 DEF StoredIsGood, Good, RevokedIsAsked, HeldIsBegun, Doubted
    <3>4. CASE flight[r].answer # "granted"
      <4>1. stored' = stored
        BY <3>1, <3>4
      <4>2. \A s \in Flights : Brings(s) => s = r
        BY DEF Brings, OneRefresh, Flying
      <4>3. ~ Brings(r)
        BY <3>4 DEF Brings
      <4>4. QED
        BY <3>2, <4>1, <4>2, <4>3 DEF Agreed, StoredIsGood, Good
    <3>5. QED
      BY <3>3, <3>4
  <2>2. LeavesAsked'
    BY <1>1 DEF Agreed, Doubted, LeavesAsked, Refreshes, Brings, OneRefresh, Flying, FlightStates
  <2>3. (\A s \in Flights : Refreshes(s))'
    BY <1>1, RotatedType DEF Agreed, Doubted, StoredIsGood, Refreshes, Brings, OneRefresh, Flying, Good,
                             RevokedIsAsked, HeldIsBegun, FlightStates
  <2>4. QED
    BY <2>1, <2>2, <2>3 DEF Agreed
<1>4. QED
  BY <1>1, <1>2, <1>3 DEF IInv

LEMMA ResumeStep == ASSUME IInv, NEW r \in Flights, Resume(r) PROVE IInv'
<1> USE ExtensionAssumption
    DEF IInv, TypeOK, history, bounds, memory, Fault, NoFlight, NoAttempt, Staying, Resume
<1>1. TypeOK'
  BY DEF FlightStates, AttemptStates, Sessions
<1>2. (OneRefresh /\ RevokedIsAsked /\ HeldIsBegun /\ GrantIsNew)'
  BY <1>1, RotatedType DEF OneRefresh, Flying, RevokedIsAsked, HeldIsBegun, GrantIsNew,
                           FlightStates, AttemptStates, Sessions
<1>3. Agreed'
  BY <1>1, RotatedType DEF Agreed, Doubted, StoredIsGood, LeavesAsked, Refreshes, Brings, OneRefresh, Flying,
                           Good, RevokedIsAsked, HeldIsBegun, GrantIsNew, FlightStates, Sessions
<1>4. QED
  BY <1>1, <1>2, <1>3 DEF IInv

LEMMA SignInStep == ASSUME IInv, NEW a \in Attempts, SignIn(a) PROVE IInv'
<1> USE ExtensionAssumption
    DEF IInv, TypeOK, history, bounds, memory, Fault, NoFlight, NoAttempt, Staying, SignIn
<1>1. TypeOK'
  BY DEF FlightStates, AttemptStates, Sessions
<1>2. (OneRefresh /\ RevokedIsAsked /\ HeldIsBegun /\ GrantIsNew)'
  BY <1>1, RotatedType DEF OneRefresh, Flying, RevokedIsAsked, HeldIsBegun, GrantIsNew,
                           FlightStates, AttemptStates, Sessions
<1>3. Agreed'
  BY <1>1, RotatedType DEF Agreed, Doubted, StoredIsGood, LeavesAsked, Refreshes, Brings, OneRefresh, Flying,
                           Good, RevokedIsAsked, HeldIsBegun, GrantIsNew, FlightStates, Sessions
<1>4. QED
  BY <1>1, <1>2, <1>3 DEF IInv

LEMMA RunSilentStep == ASSUME IInv, RunSilent PROVE IInv'
<1> USE ExtensionAssumption
    DEF IInv, TypeOK, history, bounds, memory, Fault, NoFlight, NoAttempt, Staying, RunSilent
<1>1. TypeOK'
  <2>1. attempt' \in [Attempts -> AttemptStates]
    BY DEF AttemptStates
  <2> QED BY <2>1
<1>2. (OneRefresh /\ RevokedIsAsked /\ HeldIsBegun /\ GrantIsNew)'
  BY <1>1, RotatedType DEF OneRefresh, Flying, RevokedIsAsked, HeldIsBegun, GrantIsNew,
                           FlightStates, AttemptStates, Sessions
<1>3. Agreed'
  BY <1>1, RotatedType DEF Agreed, Doubted, StoredIsGood, LeavesAsked, Refreshes, Brings, OneRefresh, Flying,
                           Good, RevokedIsAsked, HeldIsBegun, GrantIsNew, FlightStates, Sessions
<1>4. QED
  BY <1>1, <1>2, <1>3 DEF IInv

LEMMA PassGuardStep == ASSUME IInv, PassGuard PROVE IInv'
<1> USE ExtensionAssumption
    DEF IInv, TypeOK, history, bounds, memory, Fault, NoFlight, NoAttempt, Staying, PassGuard
<1>1. TypeOK'
  <2>1. attempt' \in [Attempts -> AttemptStates]
    BY DEF AttemptStates
  <2>2. QED
    BY <2>1
<1>2. (OneRefresh /\ RevokedIsAsked /\ HeldIsBegun /\ GrantIsNew)'
  BY <1>1, RotatedType DEF OneRefresh, Flying, RevokedIsAsked, HeldIsBegun, GrantIsNew,
                           FlightStates, AttemptStates, Sessions
<1>3. Agreed'
  BY <1>1, RotatedType DEF Agreed, Doubted, StoredIsGood, LeavesAsked, Refreshes, Brings, OneRefresh, Flying,
                           Good, RevokedIsAsked, HeldIsBegun, GrantIsNew, FlightStates, Sessions
<1>4. QED
  BY <1>1, <1>2, <1>3 DEF IInv

\* A family that begins is nobody else's.
LEMMA ExchangeStep == ASSUME IInv, NEW a \in Attempts, Exchange(a) PROVE IInv'
<1> USE ExtensionAssumption
    DEF IInv, TypeOK, history, bounds, memory, Fault, NoFlight, NoAttempt, Staying, Exchange
<1>1. TypeOK'
  BY DEF FlightStates, AttemptStates, Sessions
<1>2. (OneRefresh /\ RevokedIsAsked /\ HeldIsBegun /\ GrantIsNew)'
  BY <1>1, RotatedType DEF OneRefresh, Flying, RevokedIsAsked, HeldIsBegun, GrantIsNew,
                           FlightStates, AttemptStates, Sessions
<1>3. Agreed'
  BY <1>1, RotatedType DEF Agreed, Doubted, StoredIsGood, LeavesAsked, Refreshes, Brings, OneRefresh, Flying,
                           Good, RevokedIsAsked, HeldIsBegun, GrantIsNew, FlightStates, Sessions
<1>4. QED
  BY <1>1, <1>2, <1>3 DEF IInv

\* Unless it crosses another call, the stored session is new and good.
LEMMA SaveStep == ASSUME IInv, NEW a \in Attempts, Save(a) PROVE IInv'
<1> USE ExtensionAssumption
    DEF IInv, TypeOK, history, bounds, memory, Fault, NoFlight, NoAttempt, Staying, Save
<1>1. TypeOK'
  <2>1. stored' \in Sessions
    BY DEF GrantIsNew, Sessions
  <2>2. attempt' \in [Attempts -> AttemptStates]
    BY DEF AttemptStates
  <2>3. crossed' \subseteq Families
    BY DEF GrantIsNew
  <2>4. QED
    BY <2>1, <2>2, <2>3
<1>2. (OneRefresh /\ RevokedIsAsked /\ HeldIsBegun /\ GrantIsNew)'
  BY <1>1, RotatedType DEF OneRefresh, Flying, RevokedIsAsked, HeldIsBegun, GrantIsNew,
                           FlightStates, AttemptStates, Sessions
<1>3. Agreed'
  BY <1>1, RotatedType DEF Agreed, Doubted, StoredIsGood, LeavesAsked, Refreshes, Brings, OneRefresh, Flying,
                           Good, RevokedIsAsked, HeldIsBegun, GrantIsNew, FlightStates, Sessions
<1>4. QED
  BY <1>1, <1>2, <1>3 DEF IInv

LEMMA AttemptEndsStep == ASSUME IInv, NEW a \in Attempts, AttemptEnds(a) PROVE IInv'
<1> USE ExtensionAssumption
    DEF IInv, TypeOK, history, bounds, memory, Fault, NoFlight, NoAttempt, Staying, AttemptEnds
<1>1. TypeOK'
  BY DEF FlightStates, AttemptStates, Sessions
<1>2. (OneRefresh /\ RevokedIsAsked /\ HeldIsBegun /\ GrantIsNew)'
  BY <1>1, RotatedType DEF OneRefresh, Flying, RevokedIsAsked, HeldIsBegun, GrantIsNew,
                           FlightStates, AttemptStates, Sessions
<1>3. Agreed'
  BY <1>1, RotatedType DEF Agreed, Doubted, StoredIsGood, LeavesAsked, Refreshes, Brings, OneRefresh, Flying,
                           Good, RevokedIsAsked, HeldIsBegun, GrantIsNew, FlightStates, Sessions
<1>4. QED
  BY <1>1, <1>2, <1>3 DEF IInv

\* The session that is to go is asked for.
LEMMA SignOutStep == ASSUME IInv, SignOut PROVE IInv'
<1> USE ExtensionAssumption
    DEF IInv, TypeOK, history, bounds, memory, Fault, NoFlight, NoAttempt, Staying, SignOut
<1>1. TypeOK'
  BY DEF FlightStates, AttemptStates, Sessions
<1>2. (OneRefresh /\ RevokedIsAsked /\ HeldIsBegun /\ GrantIsNew)'
  BY <1>1, RotatedType DEF OneRefresh, Flying, RevokedIsAsked, HeldIsBegun, GrantIsNew,
                           FlightStates, AttemptStates, Sessions
<1>3. Agreed'
  BY <1>1, RotatedType DEF Agreed, Doubted, StoredIsGood, LeavesAsked, Refreshes, Brings, OneRefresh, Flying,
                           Good, RevokedIsAsked, HeldIsBegun, GrantIsNew, FlightStates, Sessions
<1>4. QED
  BY <1>1, <1>2, <1>3 DEF IInv

LEMMA RevokeStep == ASSUME IInv, Revoke PROVE IInv'
<1> USE ExtensionAssumption
    DEF IInv, TypeOK, history, bounds, memory, Fault, NoFlight, NoAttempt, Staying, Revoke
<1>1. TypeOK'
  <2>1. family' \in [Families -> [good : 0 .. Wrap, revoked : BOOLEAN]]
    OBVIOUS
  <2>2. QED
    BY <2>1
<1>2. (OneRefresh /\ RevokedIsAsked /\ HeldIsBegun /\ GrantIsNew)'
  BY <1>1, RotatedType DEF OneRefresh, Flying, RevokedIsAsked, HeldIsBegun, GrantIsNew,
                           FlightStates, AttemptStates, Sessions
<1>3. Agreed'
  BY <1>1, RotatedType DEF Agreed, Doubted, StoredIsGood, LeavesAsked, Refreshes, Brings, OneRefresh, Flying,
                           Good, RevokedIsAsked, HeldIsBegun, GrantIsNew, FlightStates, Sessions
<1>4. QED
  BY <1>1, <1>2, <1>3 DEF IInv

LEMMA RevokeFailsStep == ASSUME IInv, RevokeFails PROVE IInv'
<1> USE ExtensionAssumption
    DEF IInv, TypeOK, history, bounds, memory, Fault, NoFlight, NoAttempt, Staying, RevokeFails
<1>1. TypeOK'
  BY DEF FlightStates, AttemptStates, Sessions
<1>2. (OneRefresh /\ RevokedIsAsked /\ HeldIsBegun /\ GrantIsNew)'
  BY <1>1, RotatedType DEF OneRefresh, Flying, RevokedIsAsked, HeldIsBegun, GrantIsNew,
                           FlightStates, AttemptStates, Sessions
<1>3. Agreed'
  BY <1>1, RotatedType DEF Agreed, Doubted, StoredIsGood, LeavesAsked, Refreshes, Brings, OneRefresh, Flying,
                           Good, RevokedIsAsked, HeldIsBegun, GrantIsNew, FlightStates, Sessions
<1>4. QED
  BY <1>1, <1>2, <1>3 DEF IInv

LEMMA ClearSessionStep == ASSUME IInv, ClearSession PROVE IInv'
<1> USE ExtensionAssumption
    DEF IInv, TypeOK, history, bounds, memory, Fault, NoFlight, NoAttempt, Staying, ClearSession
<1>1. TypeOK'
  BY DEF FlightStates, AttemptStates, Sessions
<1>2. (OneRefresh /\ RevokedIsAsked /\ HeldIsBegun /\ GrantIsNew)'
  BY <1>1, RotatedType DEF OneRefresh, Flying, RevokedIsAsked, HeldIsBegun, GrantIsNew,
                           FlightStates, AttemptStates, Sessions
<1>3. Agreed'
  BY <1>1, RotatedType DEF Agreed, Doubted, StoredIsGood, LeavesAsked, Refreshes, Brings, OneRefresh, Flying,
                           Good, RevokedIsAsked, HeldIsBegun, GrantIsNew, FlightStates, Sessions
<1>4. QED
  BY <1>1, <1>2, <1>3 DEF IInv

LEMMA ClearAlarmStep == ASSUME IInv, ClearAlarm PROVE IInv'
<1> USE ExtensionAssumption
    DEF IInv, TypeOK, history, bounds, memory, Fault, NoFlight, NoAttempt, Staying, ClearAlarm
<1>1. TypeOK'
  BY DEF FlightStates, AttemptStates, Sessions
<1>2. (OneRefresh /\ RevokedIsAsked /\ HeldIsBegun /\ GrantIsNew)'
  BY <1>1, RotatedType DEF OneRefresh, Flying, RevokedIsAsked, HeldIsBegun, GrantIsNew,
                           FlightStates, AttemptStates, Sessions
<1>3. Agreed'
  BY <1>1, RotatedType DEF Agreed, Doubted, StoredIsGood, LeavesAsked, Refreshes, Brings, OneRefresh, Flying,
                           Good, RevokedIsAsked, HeldIsBegun, GrantIsNew, FlightStates, Sessions
<1>4. QED
  BY <1>1, <1>2, <1>3 DEF IInv

LEMMA ExpireStep == ASSUME IInv, Expire PROVE IInv'
<1> USE ExtensionAssumption
    DEF IInv, TypeOK, history, bounds, memory, Fault, NoFlight, NoAttempt, Staying, Expire
<1>1. TypeOK'
  BY DEF FlightStates, AttemptStates, Sessions
<1>2. (OneRefresh /\ RevokedIsAsked /\ HeldIsBegun /\ GrantIsNew)'
  BY <1>1, RotatedType DEF OneRefresh, Flying, RevokedIsAsked, HeldIsBegun, GrantIsNew,
                           FlightStates, AttemptStates, Sessions
<1>3. Agreed'
  BY <1>1, RotatedType DEF Agreed, Doubted, StoredIsGood, LeavesAsked, Refreshes, Brings, OneRefresh, Flying,
                           Good, RevokedIsAsked, HeldIsBegun, GrantIsNew, FlightStates, Sessions
<1>4. QED
  BY <1>1, <1>2, <1>3 DEF IInv

\* A teardown in front of a granted answer loses it.
LEMMA KillStep == ASSUME IInv, Kill PROVE IInv'
<1> USE ExtensionAssumption
    DEF IInv, TypeOK, history, bounds, memory, Fault, NoFlight, NoAttempt, Staying, Kill
<1>1. TypeOK'
  <2>1. flight' \in [Flights -> FlightStates] /\ attempt' \in [Attempts -> AttemptStates]
    BY DEF FlightStates, AttemptStates
  <2>2. leaving' \in [at : {"idle", "revoke", "clear", "alarm"}, of : Families \cup {0}]
    OBVIOUS
  <2>3. {signOuts, faults, kills}' \subseteq Nat
    OBVIOUS
  <2>4. {interactiveInFlight, unarmed}' \subseteq BOOLEAN
    OBVIOUS
  <2>5. lost' \subseteq Families
    <3>1. \A r \in Flights : flight[r].at = "answered" => flight[r].of \in Families
      BY DEF HeldIsBegun
    <3>2. QED
      BY <3>1
  <2>6. QED
    BY <2>1, <2>2, <2>3, <2>4, <2>5
<1>2. (OneRefresh /\ RevokedIsAsked /\ HeldIsBegun /\ GrantIsNew)'
  BY <1>1, RotatedType DEF OneRefresh, Flying, RevokedIsAsked, HeldIsBegun, GrantIsNew,
                           FlightStates, AttemptStates, Sessions
<1>3. Agreed'
  BY <1>1, RotatedType DEF Agreed, Doubted, StoredIsGood, LeavesAsked, Refreshes, Brings, OneRefresh, Flying,
                           Good, RevokedIsAsked, HeldIsBegun, GrantIsNew, FlightStates, Sessions
<1>4. QED
  BY <1>1, <1>2, <1>3 DEF IInv

\* Joining or beginning a refresh changes nothing the invariant speaks of.
LEMMA JoinStep ==
    ASSUME IInv, NEW alarmed \in BOOLEAN, JoinRefresh(alarmed), alarm' \in BOOLEAN,
           UNCHANGED <<family, stored, attempt, interactiveInFlight, leaving, history, bounds>>
    PROVE  IInv'
<1> USE DEF IInv, history, bounds
<1>1. TypeOK'
  BY Joined DEF TypeOK
<1>2. OneRefresh' /\ RevokedIsAsked'
  BY Joined DEF RevokedIsAsked
<1>3. (HeldIsBegun /\ GrantIsNew)'
  BY Joined DEF HeldIsBegun, GrantIsNew
<1>4. Agreed'
  BY Joined DEF Agreed, Doubted, StoredIsGood, LeavesAsked, Refreshes, Brings, Good
<1>5. QED
  BY <1>1, <1>2, <1>3, <1>4

LEMMA NextIInv == IInv /\ [Next]_vars => IInv'
<1> SUFFICES ASSUME IInv, [Next]_vars PROVE IInv'
  OBVIOUS
<1>1. CASE Scheduled
  BY <1>1, JoinStep DEF Scheduled
<1>2. CASE FreshAccessToken
  BY <1>2, JoinStep DEF FreshAccessToken, IInv, TypeOK
<1>3. CASE Startup
  <2>1. CASE stored.fresh
    BY <1>3, <2>1 DEF Startup, IInv, history, bounds, TypeOK, OneRefresh, Flying,
                      RevokedIsAsked, HeldIsBegun, GrantIsNew, Agreed, Doubted, StoredIsGood, LeavesAsked, Refreshes, Brings, Good
  <2>2. CASE ~ stored.fresh
    BY <1>3, <2>2, JoinStep DEF Startup, IInv, TypeOK
  <2>3. QED
    BY <2>1, <2>2
<1>4. CASE Worker
  BY <1>4, AskStep, GrantStep, SettleStep, ResumeStep, PassGuardStep, SaveStep, AttemptEndsStep,
     RevokeStep, ClearSessionStep, ClearAlarmStep DEF Worker
<1>5. CASE SignOut \/ RunSilent \/ Expire \/ Kill \/ RevokeFails
  BY <1>5, SignOutStep, RunSilentStep, ExpireStep, KillStep, RevokeFailsStep
<1>6. CASE \E r \in Flights : GrantFails(r)
  BY <1>6, GrantFailsStep
<1>7. CASE \E a \in Attempts : SignIn(a) \/ Exchange(a) \/ AttemptEnds(a)
  BY <1>7, SignInStep, ExchangeStep, AttemptEndsStep
<1>8. CASE UNCHANGED vars
  BY <1>8 DEF vars, memory, history, bounds, IInv, TypeOK, OneRefresh, Flying, RevokedIsAsked, HeldIsBegun,
              GrantIsNew, Agreed, Doubted, StoredIsGood, LeavesAsked, Refreshes, Brings, Good
<1>9. QED
  BY <1>1, <1>2, <1>3, <1>4, <1>5, <1>6, <1>7, <1>8 DEF Next, Others

LEMMA Invariance == Spec => []IInv
<1>1. QED
  BY InitIInv, NextIInv, PTL DEF Spec

\* The storage, the refreshes, the attempts and the sign-out are well formed.
THEOREM TypeCorrect == Spec => []TypeOK
<1>1. IInv => TypeOK
  BY DEF IInv
<1>2. QED
  BY Invariance, <1>1, PTL

\* Only a refused refresh and a sign-out empty the storage.
LEMMA Emptied ==
    ASSUME IInv, Next, stored # None, stored' = None
    PROVE  \/ ClearSession
           \/ \E r \in Flights : Settle(r) /\ flight[r].answer = "refused"
<1>1. CASE \E r \in Flights : Settle(r)
  <2>1. PICK r \in Flights : Settle(r)
    BY <1>1
  <2>2. flight[r].of \in Families
    BY <2>1 DEF Settle, IInv, HeldIsBegun
  <2>3. Rotated(flight[r].token) \in 1 .. Wrap
    BY RotatedType DEF IInv, TypeOK, FlightStates
  <2>4. flight[r].answer # "granted"
    BY <2>1, <2>2, <2>3, ExtensionAssumption DEF Settle, Sessions
  <2>5. QED
    BY <2>1, <2>4 DEF Settle, SignedOut
<1>2. CASE \E a \in Attempts : Save(a)
  <2>1. PICK a \in Attempts : Save(a)
    BY <1>2
  <2>2. attempt[a].of \in Families
    BY <2>1 DEF Save, IInv, GrantIsNew
  <2>3. QED
    BY <2>1, <2>2, ExtensionAssumption DEF Save, Sessions
<1>3. CASE Expire
  BY <1>3, ExtensionAssumption DEF Expire, IInv, TypeOK, Sessions
<1>4. CASE ~ (\E r \in Flights : Settle(r)) /\ ~ (\E a \in Attempts : Save(a)) /\ ~ Expire
  BY <1>4 DEF Next, Worker, Others, Scheduled, FreshAccessToken, Startup, Ask, Grant, GrantFails, Resume,
              SignIn, RunSilent, PassGuard, Exchange, AttemptEnds, SignOut, Revoke, RevokeFails,
              ClearAlarm, Kill
<1>5. QED
  BY <1>1, <1>2, <1>3, <1>4

\* INV-11, with its exceptions: a stored session ends unasked only if its rotated token
\* was lost (the answer failed, or a teardown came first) or it was stored while another
\* call was half-way.  Otherwise a sign-out was begun for it: a refusal means that it was
\* revoked, since no other call can have spent its token.
THEOREM SignedOutOnlyWhenAsked == Spec => NeverSignedOutUnasked
<1>1. ASSUME IInv, [Next]_vars
      PROVE  [stored # None /\ stored' = None /\ stored.of \notin lost \cup crossed
                  => stored.of \in asked]_vars
  <2> SUFFICES ASSUME Next, stored # None, stored' = None,
                      stored.of \notin lost \cup crossed
               PROVE  stored.of \in asked
    BY <1>1
  <2>1. Agreed /\ (stored.of \in Doubted => stored.of \in asked)
    BY <1>1 DEF IInv, Doubted
  <2>2. CASE ClearSession
    BY <2>1, <2>2 DEF ClearSession, Agreed, LeavesAsked
  <2>3. CASE \E r \in Flights : Settle(r) /\ flight[r].answer = "refused"
    BY <2>1, <2>3 DEF Settle, Agreed, Refreshes
  <2>4. QED
    BY <1>1, <2>2, <2>3, Emptied
<1>2. QED
  BY Invariance, <1>1, PTL DEF Spec, NeverSignedOutUnasked

=============================================================================
