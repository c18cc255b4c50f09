# Crossy in TLA+

TLA+ specifications of Crossy, a collaborative crossword: many players write on
one grid over WebSockets, a server orders what they do, and a room can vote to
have the grid checked.  The specifications follow the TypeScript sources.  TLC
checks them on small instances and TLAPS proves part of them for every instance.

Paths below are relative to the repository; `PROJECT.json` maps each definition
to the lines it models and lists every hazard at its line.

- [The system](#the-system): its components, their state, what is hard about them
- [The modules](#the-modules): what is modelled, and how it corresponds to the code
- [The runs](#the-runs): what TLC checks, the bounds, the fairness
- [The proofs](#the-proofs): what TLAPS proves and how
- [Where code and documents disagree](#where-code-and-documents-disagree)
- [Not modelled](#not-modelled): what stays out, and what could come next

## The system

```
 player's tab                      session service (one process)              API service
 +------------------+  WebSocket  +---------------------------------+       +-------------+
 | gameStore.ts     |<----------->| server.ts   handshake, frames   |<------| routes.ts   |
 | wsTransport.ts   |  frames     | registry.ts gameId -> actor     | POST  | deletion.ts |
 | supabaseAdapter  |             | internal.ts membership-changed  |       | me.ts       |
 | authedFetch  ----+--HTTP-------+-------------------------------->|------>| analysis.ts |
 +------------------+             | actor.ts    mailbox, timers     |       +-----+-------+
 +------------------+             | engine      reducer, check vote |             | memberships,
 | extension worker |-- issuer    | push/       Live Activities ----+-- APNs      | denylist
 +------------------+             +----------------+----------------+             |
                                     snapshot, logs |   ^ hydrate                 |
                                                    v   |                         v
                                  +-----------------------------------------------------+
                                  |                      Postgres                       |
                                  +-----------------------------------------------------+
```

| component | state it keeps | operations | talks to |
|---|---|---|---|
| engine (`packages/engine/src/reducer.ts`, `completion.ts`) | none: a board goes in, the next board and the sequenced events come out | place, clear, propose a check, vote, expire a vote | called by the actor |
| game actor (`apps/session/src/actor.ts`, `mailbox.ts`) | the board, connections, remembered command ids, the unflushed events, stats, two timers, a serial mailbox | command, ballot, expiry, abandon, flush, drain, attach and detach, kick, role, cursor, eviction mark | engine, Postgres (`writer.ts`), sockets (broadcast), push, analytics |
| persistence (`writer.ts`, `hydrate.ts`) | the `game_state` row; `cell_events`, `check_events`, `check_vote_events` | one transaction per flush, rehydration | called by actor and registry |
| sockets (`server.ts`, `handshake.ts`) | phase of each socket, liveness timer, rate limit | hello, welcome, live frames, close, shutdown | auth, Postgres reads, registry, actor |
| registry (`registry.ts`) | `gameId ->` promise of an actor | get or hydrate, sweep, passivate | sockets, internal endpoint, shutdown |
| internal endpoint (`internal.ts`) | none | kick or role re-verification, abandon | API on one side, actors on the other |
| Live Activity push (`push/*.ts`) | per game: a chain of reports, what was last sent, a held fill, a held end, one timer | report a presence change, a fill, an end, a kick, a welcome; dispatch | members and tokens in Postgres, APNs |
| API membership (`apps/api/src/games/routes.ts`, `identity/deletion.ts`, `succession.ts`) | memberships, denylist, games | join, upgrade, kick, abandon, account deletion with host succession | Postgres, internal endpoint |
| API analysis (`archive/analysis.ts`) with the engine's read models (`analysis.ts`, `titles.ts`) | a cache, filled once per completed game | trace, axis, sittings, moments, ribbon, stat sheet, titles | the durable log |
| accounts (`supabaseAdapter.ts`, `authedFetch.ts`, `packages/auth/src/jwks.ts`, `auth/middleware.ts`, `jit-upsert.ts`, `identity/me.ts`) | the session, the shown name; the stored names; the service's key set | sign in and out, refresh, request, replay; mirror a token's identity; fetch keys | token issuer, API |
| web client (`apps/web/src/store/gameStore.ts`, `net/wsTransport.ts`) | sequenced view, overlay of unconfirmed writes, sync state, socket and backoff | type, vote, take in a frame, lose the connection, reconnect | sockets |
| browser extension (`apps/extension/src/background.ts`, `auth/*.ts`) | a stored session, an alarm, the refresh and attempts in flight | sign in, refresh, sign out, be torn down and woken | token issuer |

### What is hard, and what makes each part correct

The repository numbers its invariants (DESIGN.md 12) and the properties name
them.

*Engine.*  `filledCount` moves by increments and alone gates checks and
completion.  Completion is level-triggered, so overwriting a letter of a full
grid must complete it.  One mutation may write a cell, close a vote and complete
the game, in that seq order.  Votes have a frozen electorate and a strict
majority, and close early when it is reached or lost.  Correct means: contiguous
seqs (INV-2), exactly one completion and then silence (INV-3, INV-4), outcomes
that follow from the ballots, and a log that rebuilds the board.

*Actor and persistence.*  The process is one event loop: a mailbox task runs alone up
to the point where it awaits Postgres, and meanwhile sockets, timers and the internal
endpoint add tasks.  A flush may fail after it committed.  A hard kill takes back
what was broadcast but not flushed.  Timers fire into the mailbox and run later, when
what they were armed for may be gone.  Correct means: row and log always agree
(INV-5), a command is not applied again within the window of remembered ids, a
terminal event is durable before it is told (INV-3), the single writer never regresses
its own row (INV-7), every vote gets closed and every buffer flushed.

*Client, transport and sockets.*  The board is optimistic: a letter is painted
at once and confirmed later.  Frames can be refused by the codec, sockets close
between any two steps, a crash rolls the board back under a client that saw it
further, and a reconnect sends unconfirmed commands again.  Correct means: a live
view that has caught up is the server's board (INV-1), an overlay entry neither
stays for ever nor vanishes silently (INV-10), a re-sent command is not applied again
while the server remembers it, and every client becomes live again.

*Registry and shutdown.*  Lazy hydration and passivation race with attaching
sockets and with an abandon queued behind the drain; shutdown drains actors one
after another while their sockets stay up.  Correct means: all sockets of a game
sit on one actor, an eviction leaves nothing to write, a stop keeps what was told
before its drain, idle actors go away.

*Membership.*  Each handler reads, decides and writes in steps that others
interleave with; the session service is told afterwards and acts on what it reads
a round trip later, while handshakes are under way.  Correct means: one host,
nobody member and denied at once, and sockets that follow the memberships.

*Push.*  One timer serves three deadlines, one memory of the last frame serves
many islands, members and tokens are read late.  Correct means: islands show the
room or news is on the way, fills are spaced, the clock boundary is met.

*Analysis.*  The view is cached for good, the log's clock can step back, and
sixteen titles are claimed in order under gates and ties.  Correct means: the
cached view is that of the whole game, its parts agree, everyone who filled a cell
has exactly one title.

*Accounts and extension.*  Answers arrive after the account has changed; a 401 is
retried once; key fetches overtake each other; a worker is torn down between a token
rotation and the write that keeps it.  Every request first mirrors the name its token
carries into the account.  Correct means: no name of somebody else, no chosen name
undone by the provider's, no refusal of something written, a key set that catches up,
nobody signed out unasked, a session that stays fresh.

## The modules

```
 Engine --+-- EngineGame ----------- MCEngineGame, EngineProofs
          +-- GameActor ------------ MCGameActor, GameActorProofs (with EngineProofs)
          |     implements DurableGame
          +-- ClientStore -- Room -- MCRoom, RoomProofs (with EngineProofs)

 Registry, RegistryProofs       Membership, MCMembership, MembershipProofs
 Push, MCPush, PushProofs       Analysis, MCAnalysis
 Accounts, AccountsProofs       Extension, ExtensionProofs
```

The modules of the second group stand beside the core: each takes from the others
only what decides its own question (Registry counts commands where GameActor has
boards; Push is told of facts where the actor has connections).

**Engine** models `reduce` and every branch of `applyWithVote` as operators from
a board and a command to a result `[state, events, error]`.  Gates keep the
code's order.  The alphabet, what the charset check makes of an input, and which
letters the comparator accepts at a cell are CONSTANTS, so theorems hold for any
of them.  Timestamps become seqs (`firstFill` is the seq that stamped
`firstFillAt`); who wrote a cell is left out.

**EngineGame** drives the operators with every command and keeps the log of
events as a history variable.

**GameActor** is one game in the session service, its rows and its failures.

| code | model |
|---|---|
| `Mailbox.post`, `drain` | `Post`, `Dequeue`; `awaiting` is what the running task awaits |
| `handleMutation`, `emitVoteEvents`, `reconcileVoteTimer`, `afterMutationFlush` | `RunCommand`, one atomic step up to the await |
| `doFlush`, `handleExpiry`, `doAbandon` | `RunFlush`, `RunExpiry`, `RunAbandon` |
| `flushToPostgres`, `flushTerminalToPostgres` | `DbCommits`, then `FlushSucceeds` or `FlushFails`: the commit and the answer to it are two steps |
| `completeGame` | `RunCommand` up to the await, `FlushSucceeds` after it |
| the two timers | `flushTimer` and `FlushTimerFires`; `voteTimer`, `left` (time to the deadline), `Tick`, `VoteTimerFires` |
| hard kill, `hydrateGame`, `reconcileHydratedVote` | `Crash`, `Hydrate` |
| `addConnection`, `removeConnection` | `Connect`, `Disconnect` (as far as electorates depend on them) |

`Quiescent` states the atomicity of the event loop: callbacks run only when no
task is between two awaits.  While a task awaits, the board, the buffer and the
vote's timer do not change, so what a flush writes is read from the current
state.

**DurableGame** is the promise: a journal that only grows while the game is
ongoing, of which a hard kill takes back at most the part not yet durable, and a
terminal state that is announced at most once and only when durable.  `KeepsPromise`
in GameActor is its specification under the mapping journal = log plus buffer,
durable = rows in the log, announced = terminal broadcasts.

**ClientStore** is the web client's store as operators: `Received` (every inbound
frame), `Replies` (what it sends back), `MaySend` (its gates), `ConnectionLost`.

**Room** composes stores, transport, the server's side of each socket and the
actor's queue over one Engine board.

| code | model |
|---|---|
| `placeLetter`, `clearCell`; `checkPuzzle`, `castCheckVote` | `Type`; `Vote` |
| `WsTransport.connect`, `sendHello`, `onmessage` / `onclose` | `Open`, `SendHello`, `Receive`; `LoseFrame` is a frame the codec refuses |
| `runHandshake`: attach, then the member read, then `welcome` | `Handshake`, `Welcome`; broadcasts in between reach the socket first |
| `handleLiveFrame` | `HandleFrame`; a failed member read is `MembersUnreadable` |
| close while frames or a handshake are in progress | `Drop` keeps the unread frames in `late`, `HandleLate` runs them; `ghosts` are players attached through a socket that is gone |
| the actor | `RunCommand`, `Flush`, `FlushTerminal`, `ExpireOpenVote`, `Crash` |

Room abstracts the flush policy to a step that may happen at any time: GameActor
checks the policy itself.

**Registry** is one game's sequence of actors.  An actor is a counter of accepted
commands, a terminal flag, the number of buffered events and a mailbox.

| code | model |
|---|---|
| `getOrHydrate`, the cached promise | `GetOrHydrate`, `entry` (the actor the map points to), `HydrateSucceeds`, `HydrateFails` |
| `addConnection` and the attach loop of `runHandshake` | `Hello`, `Attach` (`Refuses` when the actor is evicted, then another round up to `MaxTries`) |
| `sweep`, `passivate`, `markEvicted` | `IdleWindowPasses`, `SweepDrains`, `Evict` |
| the abandon branch of `applyMembershipChange` | `Abandon`, which hydrates on demand |
| the actor's mailbox and flush | `RunTask`, `DbCommits`, `FlushSucceeds`, `FlushFails` |
| SIGTERM in `main.ts`, `drain` of `server.ts` | `Signal`, `StopDrains`, `StopCloses`, `Exit` |

**Membership** is who is in one game.  `request[s]` is an API handler at the
statement it has reached (`seat`, `write`, `pick`, `call`, `verify`, `apply`), with
what it has read; a deletion's transaction is two steps, as its statements are at
READ COMMITTED.  `conn[u]` is the user's handshake or socket with the role it read.

| code | model |
|---|---|
| `POST /games/join`, upgrade, kick, abandon of `routes.ts` | `Join`, `Upgrade`, `Kick`, `Abandon`, then `Seat`, `WriteUpgrade`, `WriteKick` |
| `deleteAccount`, `succeedHost` | `DeleteAccount`, `PickHeir`, `WriteDelete` |
| the call to the session service | `CallArrives`, `CallFails` |
| the re-verification in `applyMembershipChange` | `Verify` (the reads of one user), `Apply` (on the actor, a round trip later) |
| denylist and role reads of `handshake.ts`, attach | `Hello`, `ReadRole`, `Attach`, `Leave` |

**Push** is the Live Activity channel of one room: `Reports` appends what the actor
and the sockets tell it, `Run` folds one report (`OnPresence`, `OnFill`,
`OnTerminal`, `OnKick`, `OnWelcome` are the policy's folds), `Flush` is the timer's
turn, `Dispatch` sends, `Drops` is a failed read.  `island[u]` is what a member's
lock screen shows.

**Analysis** writes a log (`Write`) that ends when the board is right, and reads it
(`Read`) as `GET /games/{id}/analysis` does, caching the result.  Everything the
endpoint computes is an operator on the log: `SolveTrace`, `CollapseIdle`,
`Sittings`, `Moments`, `Momentum`, `TitleStats`, `TitleLadder`, `AwardTitles`.

**Accounts** has three parts that meet in a request: the service's key set and its
two overlapping fetches (`IntervalFires`, `DebounceFires`, `IssuerAnswers`,
`FetchArrives`), the client's session (`SignIn`, `SignOut`, `Expire`,
`LibraryRefreshes`) and the requests (`Begin`, `Serve` or `Refuse`, `Replay`,
`Lose`, `Adopt`, `Report`).  A token carries its provider's name or none.  `Serve` is
`authMiddleware` and the handler: `Admit` mirrors the identity first (`jitUpsertUser`:
`Seeded` gives an account without a name the one the token carries), then `GET /me`
reads or `PATCH /me` stores.  `chosen`, `carried` and `strayed` note which names an
account stored itself, had carried to it by its tokens, or was given by a rename that
was replayed after another account had signed in.  The issuer and its browser library
are external.

**Extension** is the auth worker: `JoinRefresh` is the refresh all contexts share,
`Scheduled` the alarm, `SignIn` ... `AttemptEnds` an attempt, `SignOut` ...
`ClearAlarm` a sign-out, `Kill` and `Startup` the browser's teardown and wake-up.
Each sign-in begins a family of refresh tokens of which only the last is good.
What storage has and what the worker does next are two steps.

What the models leave out on purpose: a player has one tab and one push token; both
ends learn of a dropped socket in one step, so half-open sockets and the liveness
timer that ends them are not seen; every player of Room may write, and nobody is a
spectator in the configurations of GameActor, whose role gate is stated (roles are
the subject of Membership); cursors, reactions, flashes, the vote's intent marker
and the participant list are not modelled; in GameActor a ballot's command id is
remembered but not stored in its event.

## The runs

Bounds are CONSTANTS named as such in the modules.  `CHECK_DEADLOCK FALSE` where
players may stop and the bounds end the game.  Every module states a `TypeOK`
(`EGTypeOK` in EngineGame); it is used by the proofs and checked while developing, and
the runs spend their time on the other properties.

| run | instance | shows |
|---|---|---|
| `engine_game` | 2 cells with different answers and a block, 4 inputs (one lower case, one refused), 3 voters, no command once seq 7 is reached | `BoardIsGood`, `SeqIsContiguous`, `VotesAreSerial`, `OutcomeFollowsBallots`, `ReplayRebuildsBoard`, `TerminalIsFrozen` |
| `actor` | 1 cell, 2 letters, 2 players, 3 command ids of which 2 are remembered, no command sent once seq 5 is reached, flush at 2 events, one queued task besides timers, 1 failed flush, 1 hard kill | `RowAndLogAgree`, `TerminalIsDurableFirst`, `NeverRefused`, `OpenVoteIsTimed`, `LostTailIsBounded`, `KeepsPromise` (DurableGame is implemented) |
| `actor_live` | the same with 2 command ids, both remembered, no failed flush and no kill, fair | `BufferIsFlushed`, `OpenVoteCloses`, `TerminalIsAnnounced` |
| `actor_announce` | 1 player, 1 command id, 1 failed flush, fair | `CompletionIsAnnounced` is violated, see below |
| `room` | 2 players, 2 commands each, 1 refused frame, 1 failed member read | `LiveViewIsBoard` through writes, votes, checks and completion; `CompletionIsDurable` |
| `room_faults` | 1 player, 2 commands, 1 remembered id, 1 dropped socket, 1 refused frame, 1 hard kill, fair | `LiveViewIsBoard`, `NotAppliedAgainSoon`, `NothingVanishes`, `Converges` |
| `registry` | 2 sockets, 2 successive actors, 2 commands, 2 attach tries, 2 failed flushes or hydrations, flush at 2 events, fair | `OneActor`, `QuietEviction`, `ShutdownKeepsTold`, `IdleIsEvicted` |
| `membership` | 3 accounts (the creator, one guest), 4 requests, two at a time, 1 lost call | `OneHost`, `NoHalfState`, `SocketsFollowMembership` |
| `push` | 2 members, 2 cells, 5 events, 3 ticks besides the windows, 1 failed read or send | `IslandsAreCurrent`, `ClockIsTimed`, `FillsAreSpaced` |
| `analysis` | 3 cells of a 2 by 3 grid, an across slot and a starred down one that share a corner, 2 solvers, 5 writes, up to 2 of them not a first right one and 1 not right at all, 1 jump of the clock (an idle night or a step back) | `CachedViewIsFinal`, `ViewIsConsistent`, `EveryFillerIsTitled` |
| `accounts` | 2 accounts, 1 name to choose and 1 a provider may carry, 2 requests one after another, 2 fetchers, 2 keys, 2 sign-ins, 1 failure, fair | `ShownNameIsTheirs`, `ChosenNameStays`, `ReportsAreTrue`, `KeysCatchUp` |
| `extension` | a silent and an interactive attempt, 2 families, tokens modulo 2, 2 refreshes in flight, 1 sign-out, 1 failed call, 1 teardown, fair | `NeverSignedOutUnasked`, `SessionIsRefreshed` |

*Why the bounds are enough to meet the interesting cases.*  Two cells with a different
answer each are the least at which a grid is full and wrong, half full, or completed
by an overwrite; three voters the least at which a vote can pass, be rejected and stay
undecided, and the electorate can be any subset around the proposer, so even sizes
occur.  Seq 7 holds a fill, a vote with ballots, its check, an overwrite and the
completion.  In `actor` three ids allow a buffer to reach the threshold, a proposal
to open on a full grid and a command to be re-sent after the restart; one fault and
one kill may fall between any two steps, the commit and its answer included.  `actor`
and `room_faults` remember fewer ids than are sent, so an id does fall out of the
window and is applied again; five seqs are enough for that, with a vote or an end on
the way.  In `room` two commands per player suffice for fill, proposal, ballot and
the overwrite after the check.  In `room_faults` the dropped socket and the kill can
hit one reconnect after the other.  In `registry` the second actor is hydrated while
the first one's eviction, abandon or stop is half-way, which is where two writers
would meet.  Four requests in `membership` are a join, a kick, a rejoin and a
deletion, or an upgrade between two of them, and two at a time is what a race takes.
In `push` five events and a debounce of two are a led fill, a held one, a flush and
two reports that disturb it.  In `analysis` three fills and two writes that are
corrected, repeated or wrong reach every rung of the ladder under the small thresholds
of the configuration; the six-title floor is met in a room of six stated by
`FloorTitlesSix`.  In `extension` two families are the old session and the one a
racing sign-in stores.

*Conditions.*  Some properties name what they leave out, mostly by a history variable.
Each is the code's limit, not the model's: what happens there is a disagreement listed
below.

| condition | in | leaves out |
|---|---|---|
| no failed flush so far | `LostTailIsBounded`, `ShutdownKeepsTold`, the answered clause of `TerminalIsDurableFirst`; by its configuration `actor_live` | nothing re-arms a failed flush, a failed end is not announced (1), a retried abandon is answered early (4) |
| `reads` = 0 | `Converges` | a failed member read is never answered (9) |
| `late` | `QuietEviction`, `ShutdownKeepsTold` | a task was queued behind a passivation's drain (11) |
| `overtaken` | `NoHalfState` | the kick of this user committed while their join was past the denylist (15) |
| `slipped` | `SocketsFollowMembership` | the membership changed behind a check already made (13) |
| `deleted` | `SocketsFollowMembership` | the account is gone; its socket is notified by nobody (15) |
| a lost call | `SocketsFollowMembership`; the part of `OneHost` on games without a host | the session service was not told |
| `crossed` in Membership | `OneHost` | a deletion overlapped a kick, an upgrade or another deletion (14) |
| `broken` | `ClockIsTimed`, `IslandsAreCurrent` | a read failed and left the timer as it was (17) |
| `missed` | `IslandsAreCurrent` | a send failed, or a welcome to another member overwrote the frame the policy remembers (17) |
| `strayed` | `ShownNameIsTheirs` | the name was stored by another account's replayed rename (24) |
| `lost` | `NeverSignedOutUnasked` | this session's rotated token was lost on the network or with the worker (24) |
| `crossed` in Extension | `NeverSignedOutUnasked` | this session was stored while another call was half-way (23, 24) |
| `unarmed` | `SessionIsRefreshed` | the worker was torn down while a session was stored and no alarm set (it had fired, or was not set yet), or a sign-out cleared the alarm of a stored session (24) |

An idle teardown, with the alarm set, excuses neither of Extension's properties.

*Fairness.*  One JavaScript event loop runs the service.  A posted mailbox task
runs and Postgres answers: weak fairness of the mailbox tasks, `DbCommits` and
`FlushSucceeds`.  A due timer comes up in every turn of the loop, but the mailbox
may be busy in between when its action is not enabled: strong fairness of
`FlushTimerFires`, `VoteTimerFires` and `Tick`.  In Room the client's loop and
the server's both run, tokens resolve and backoffs end: weak fairness of
`Open`, `SendHello`, `Receive`, `Handshake`, `Welcome`, `HandleFrame`,
`HandleLate`, `RunCommand` and `FlushTerminal`.  In Registry the process as a whole
goes on, whether its calls succeed or fail.  In Accounts the interval and debounce
timers fire and a fetch ends one way or the other; in Extension the alarm fires, the
issuer answers, and what awaits an answer goes on.  Nothing is assumed of people, the
network, expiry, crashes or teardowns; `actor_live` has no failed flush, because
after one nothing is promised (see below).

*Mutants.*  Each property of a passing run has at least one mutant in the module it
is about (`<Definition>_<Change>`, preceded by the comment `Mutant:`), a plausible
bug which TLC finds through that property under the same configuration.

## The proofs

All assumptions are those the modules state on their CONSTANTS: finite non-empty
playable cells that the targets and the solution's cells extend or lie in, a
`NoValue` that is no letter, a normalisation into letters or `NoValue`, finitely
many users, null values that are no members, and bounds that are natural numbers.
The bounds limit counters only and no proof counts on their size; no theorem assumes
more than that, in particular none that the window of remembered ids suffices.

**EngineProofs** takes the engine call by call.  `GoodBoard` is the inductive
part: the count is exact, marks stand on wrong filled cells, completion is exact,
a vote stands on a full ongoing grid and is undecided.  Each function has a lemma
that, from a good board, it returns a `GoodResult`: a good board again, events
numbered without a gap from the board's seq, and no empty check.
`WriteCountsFilled` is the counting argument (a write adds or removes one element
of a finite set), `CheckFindsSomething` the reason a check cannot be empty: the
grid is full and, being ongoing and good, not correct.  `EngineKeepsGoodBoards`
joins the lemmas for `applyWithVote`; `EngineFreezesTerminal` says that a terminal
board is returned unchanged.  `EngineTakesSteps` is what the other modules build on:
the events of any command are a `Path`, at most three, each of which is one
of six kinds of step from a board to the next (a write, a proposal, a ballot, a
close, a check, the end) in one of six orders.  A close has the outcome its ballots
give it.

Its second half lifts them to every game of EngineGame.  `SeqIsContiguous` and
`ChecksFindSomething` speak of the log alone and are not inductive: the next event
is numbered from the board's seq, and a check finds something because the board is
good.  The inductive invariant `EGInv` is therefore the type, `GoodBoard`, a log
numbered 1, 2, 3, ... up to the board's seq, and no empty check in it.  From
`EGSpec => []EGInv` follow `EGTypeCorrect`, `BoardStaysGood`, `SeqContiguity` and
`ChecksAreNeverEmpty`; `TerminalFreeze` uses it for the type of the board.
The history properties need the log tied to the board: which vote the log leaves
open and with which ballots (`VotesStaySerial`, `OutcomesAreEarned`), which letters,
marks, first fill and end its last writes give (`LogRebuildsBoard`).  Each is kept
by one step of a path, then by the path; the operators on logs take the log as an
argument so that they can be applied to the log before and after an event.

**GameActorProofs** does the same for the actor with its database, through failed
flushes, hard kills and rehydration.  `Sound` says that the board in memory and the
one in the row are good, and needs the mailbox to hold tasks of known commands: then
`EngineKeepsGoodBoards` applies to each command.  `Ordered` is inductive relative to
it: the row is a past of the live board and never of another end; a terminal flush
is for the end the board has and nothing was announced before it; a commit the actor
has not heard of yet wrote the board's status; without faults an end that is not
durable is being written.  It gives `BoardsStayGood`, `SnapshotsAreAccepted`
(`NeverRefused`) and `EndsAreDurableFirst` (`TerminalIsDurableFirst`).

Its second half counts rows.  `JInv` adds to `IInv`: the log is `Faithful` to the row
and log plus buffer to the live board (one event per seq, last writes are the
letters; `Journaled`), the buffer spans what the row lacks and the flush policy
bounds it (`Tailed`), an open vote has its deadline and the timer or task that closes
it (`Timed`).  From it follow `OpenVotesAreTimed`, `LostTailStaysBounded` for every
threshold, and `RowStaysItsLog`: all of `RowAndLogAgree` but how soon a command may be
journaled again.  That is `Remembered`: each id in the log or the buffer is found in the
actor's window, not deeper than the number of seqs since its event (a command takes at
least one seq, and one place in the window), or more than `RecentLimit` seqs have
passed; the row's window is the same for the log.  A command applied afresh is therefore
that far from its last time, and with it `RowAndLogStayOne` proves the whole of
`RowAndLogAgree` for every window.  `ActorKeepsPromise` is the refinement: every step
of the actor is, under the mapping of `KeepsPromise`, a step of DurableGame or changes nothing there.

It ends with what the promise amounts to, proved of DurableGame under the mapping and
so of the actor: an announced end is durable and served (`AnnouncedIsDurable`), no step
takes back or rewrites a durable event (`DurableNeverLost`), a durable end is final
(`DurableEndIsFinal`).  The inductive invariant adds to the promise's type that a
durable terminal status is the one served, with nothing left to lose.

**RegistryProofs** proves every safety property of Registry.  `OneActor`
(`SocketsShareOneActor`): the sockets alone do not carry the argument; `OnlyTheEntry`
(an actor that is loading, or live and not evicted, is the one in the map),
`NextIsUnborn` (the next one has not been asked for) and `Placed` (a handshake past
the hydration knows a live actor, and an attached socket one that is not evicted) do.
`QuietEviction` (`EvictionIsQuiet`): the passivation's drain is the last task of its
mailbox (`DrainIsLast`), so what it leaves is spent when it is answered, or a task
came behind it and is noted in `late`.  `ShutdownKeepsTold`
(`ShutdownKeepsWhatWasTold`): without failed flushes and late tasks, what was promised
is in the row or with the actor the shutdown still waits for (`PromiseIsKept`).

**MembershipProofs** proves every property of Membership.  `NoHalfState`
(`KickLeavesNoHalfState`): a join in flight may outlive the check it passed, so
`JoinsPassed` says that a join about to seat somebody denied has been noted as
overtaken when the kick committed.  `OneHost` (`GameKeepsOneHost`): as long as no
deletion overlaps (`Apart`) there is one host and what each request is about to write
is still right (`Safe`: neither a kick nor an upgrade writes the host's row, a
deletion knows whether its user hosts and who inherits); a game without a host is
over, or its deletion is about to say so.  That there is an earliest heir needs
`joined_at` to be a strict order on the members.  `SocketsFollowMembership`
(`SocketsFollow`): an attached socket fits the membership, or the service is `Due` to
look at its user; what was read and is still to be used (a handshake's role, a
verdict, an heir) fits unless the membership has changed behind it.

**ExtensionProofs** proves `TypeCorrect` and `NeverSignedOutUnasked`
(`SignedOutOnlyWhenAsked`).  A session is removed when the issuer refuses its token,
so the invariant must say why it is never refused unasked: there is one refresh at a
time, a family is revoked only on request, the family of a session about to be stored
is known to nobody else, and the stored session's token is good, asked to go, or has
its successor on the way (`StoredIsGood`), but for the sessions in `lost` and `crossed`,
family by family: what befell one says nothing of the next.

**AccountsProofs** proves every safety property of Accounts.  The name on screen came
out of a request, so the invariant says of each request that an answered one carries
an account's profile with a name that account chose, was carried or had strayed to it
(`AnswersAreTheirs`), and of each stored name the same (`NamesAreTheirs`);
`adoptProfile` keeps name and account together (`NamesStayTheirOwn`).  That the
mirror leaves a stored name alone gives `ChosenNamesStay`.  A request that was
refused or not yet served wrote nothing, and an answered rename wrote once
(`WritesAreAnswered`): the replay starts from a refusal, which wrote nothing
(`ReportsStayTrue`).

**PushProofs** proves every safety property of Push.  Each decision of the policy is
first described by what it keeps (`Decides`), a fold and a flush by what they do
besides (`Folds`, `Flushes`), and what follows a decision, a send, the clock's turn or
the timer, by `Takes`; the steps use these and not the functions.  `Clocked` is
`ClockIsTimed` for whenever the channel is idle and no flush is queued.  `Windowed`
says that a fill being sent was decided when the window of the last one was over, and
that the window starts when the fill was decided (`FillsStaySpaced`).
`IslandsAreCurrent` says nothing while reports wait, so two invariants stand behind
it: `Remembered`, an island has the frame the policy remembers or is being sent it,
and `Known`, a report that only welcomes follow tells the room as it is, and with none
left the policy's frame shows the room, or a held fill does and a flush is queued or
will be.  A welcome keeps a held fill, which is why `Known` speaks of welcomes.
`EndIsLast` says that no fill follows the terminal report, so that none is held beside
the end; without it the flush of the end would leave a fill behind.  The proof
assumes that the members are finitely many, to count failed sends.

**RoomProofs** proves every safety property of Room, with EngineProofs for what a
command may do to the board.  `TypeInv` and `Linked` come first: the types, and what
the two ends of a socket know of each other (nothing is sent to a store that is not
welcomed but its welcome, and a closed socket is not live).  Under them each step is one
of the six kinds `Happens` lists, and the other invariants are shown for those instead
of for every action.  `Answers`: every id that a frame on its way may clear has been
applied or refused, which gives `EntriesNeverVanish`.  `Durable`: with a gameCompleted
on its way the completed board is in the row (`CompletionsAreDurable`).  `Spaced`: an id
never comes back among the `RecentLimit` that follow it, in memory or in the row, which
is `NotAppliedAgainSoon` for every window (`NothingReturnsSoon`).
`LiveViewIsBoard` is not inductive, as it speaks only of clients that have caught up.
`Lineage` is: some history has a view for each seq of the live board, and the frames on
their way to a player step through it, up to the last event told (`Top`), without a gap
unless a frame was lost.  What a player makes of all of them (`Settled`) is then the end
of that history, or short of it after a loss (`LiveViewsConverge`).

Only model-checked: the properties of Analysis, which say what a filter and two folds
over the log come to, for every log an induction over data; and every liveness
property, since the prover handles neither fairness nor ENABLED.  The library's
induction theorems take an operator and are out of its reach as well, and so are
RECURSIVE operators; the modules that are proved about use none.  Where a recursive
function had to be reasoned about in Room (the filter `Only`, the frames taken in by
`Settled`), the proof takes the least place at which the claim would fail.

## Where code and documents disagree

The first has a run.  The others are properties stated in the modules, under "what
the documents say and the code does not keep" or beside the property they differ
from, which TLC refutes when one is put in place of the properties of a
configuration (with other bounds where said); or observations made while reading,
marked as such.

*Actor.*

1. `CompletionIsAnnounced` (run `actor_announce`): when the terminal flush fails, the
   game is completed in memory, a later flush or drain makes the completion durable,
   and nobody is ever told by `gameCompleted` (`actor.ts:783`).
2. `ExpiryOnlyAtDeadline`: the expiry task of one vote, waiting in the mailbox behind
   the ballot that closes it and the proposal of the next, closes that next vote at
   once (`actor.ts:727`).  It takes two queued tasks and one command id more than the
   shipped configurations have.
3. `StatsSurvive`: a terminal flush that committed and whose answer was lost leaves
   `stats` null in memory, and the next flush writes that null over the stored stats
   (`actor.ts:954`).
4. `AnsweredAbandonIsFinal`: after a failed abandon flush, the retried call is answered
   with success while the row is still ongoing (`actor.ts:839`).

*Client and sockets.*

5. `HelloComesFirst` (Room): a letter typed while the token is being fetched for a new
   socket is sent before `hello`, and the server closes the socket
   (`wsTransport.ts:153`).
6. `OverlayNeedsBoard` (Room): losing the first socket before any welcome lets the
   player type over an empty board (`gameStore.ts:412`).
7. `ConnectedHoldSockets` (Room): a socket that closes during its handshake is attached
   all the same, and nothing detaches it (`server.ts:552`).
8. `SeenCompletionIsDurable` (Room): a snapshot sent while the terminal flush is in
   flight shows the completion (`actor.ts:982`).
9. A failed member read leaves a handshake or a resync unanswered on an open socket
   (`server.ts:480`); `Converges` excludes it.
10. A pending command whose id has left the server's window is sent again and applied
    again, which `NotAppliedAgainSoon` allows and `room_faults` reaches; PROTOCOL.md:279
    asks the client to drop it (`gameStore.ts:727`).

*Registry.*

11. `SingleWriter`: an abandon queued behind a passivation's drain writes after the
    eviction, beside the next actor (`registry.ts:178`).
12. `ShutdownLosesNothing`: what is accepted after an actor's drain and before its
    sockets are closed is told and lost (`main.ts:9`).

*Membership.*

13. `KickedIsOut`: a handshake past its denylist read attaches after the re-verification
    of the kick (`internal.ts`); in the same way a role read before an upgrade is kept
    (`server.ts:545`).
14. `OneHost` without its condition: the host and the only solver deleting their
    accounts at once leave a game without a host; two deletions can promote two
    (`succession.ts`); an upgrade can demote a host promoted meanwhile
    (`routes.ts:955`).
15. Read, not run: a join racing a kick ends in a member who is denied, or in a 500 from
    an empty membership read; a deletion ignores the result of the abandon call it makes
    (`deletion.ts:78`); a deleted account's socket stays.

*Push.*

16. `EndFollows`: a presence report between the announcement and the end cancels the
    timer that would have sent the end; PROTOCOL.md:537 promises it.
17. Read, not run: a presence report folded during the awaited terminal flush makes the
    terminal one look already sent; a welcome to one member overwrites the frame the
    policy remembers for all and, with a null wake, cancels the timer of a held fill
    (`policy.ts:589-618`, `emitter.ts:259`), so the others are not sent it until
    something else changes; a kicked member without a socket gets no `end`
    (`actor.ts:444`); a failed read leaves a held end or fill without its timer; the
    tokens of former members stay in the audience of a game.

*Analysis.*

18. `StallStaysInOneSitting`: a wrong letter before the night and a fill after it leave a
    stall that spans both sittings (`titles.ts:530`, `archive/analysis.ts:177`).

*Accounts and extension.*

19. `NameStaysAdopted`: the next token refresh maps the session anew and the adopted name
    is gone (`supabaseAdapter.ts:257`).
20. `NewestNameShows` (two names, two request slots): a load answered before a rename and
    adopted after it shows the old name.
21. `KnownKeyStays`: a fetch answered before a rotation and arriving last takes the new
    key away again (`jwks.ts:173`).
22. `OneFlow` (Extension): a silent attempt can run beside an interactive one
    (`background.ts:154`).
23. `SignedOutStaysOut`: a refresh under way when the user signs out stores the session
    again.
24. Read, not run: a sign-out's late `alarms.clear` can leave a session stored meanwhile
    without its alarm; a teardown between a rotation and the write that keeps it signs
    the user out; a replay after a 401 goes out under whichever account is signed in by
    then, so a rename may be stored for it (`authedFetch.ts`, `strayed` in Accounts).

## Not modelled

- *Inside modelled components*: cursors, reactions, the presence list and the rate
  limits and liveness timers of sockets (no state a property could lose; a player has
  one socket, so tabs that come and go are not seen); avatars, account linking and the provider
  flows; the popup, the pill and the page extraction of the extension.
- *`packages/protocol`*: the codec validates the shape of one frame at a time, and a
  frame it refuses is Room's `LoseFrame`; room colours are a pure function of the member
  list.
- *`navigation.ts`*: cursor movement, one key at a time, over one grid; sequential, and
  tested by vectors of its own.
- *Ingest, HTTP plumbing, rate limits*: parsing, and requests independent of each other.
- *Analytics*: fire and forget, no state of the system depends on it.
- *Database schema and migrations*: the tables are the variables that stand for their
  rows; migrations are offline.
- *Web UI, share card, iOS and Android apps*: rendering, and native ports of the client
  store tied to it by shared test vectors.
- *APNs client, simulation, end-to-end tests, deployment*: I/O and harnesses.

A next step would be several tabs per player in Membership and several push tokens per
member in Push.
