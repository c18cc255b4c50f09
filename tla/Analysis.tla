------------------------------- MODULE Analysis -------------------------------
(***************************************************************************)
(* The post-game reading of a game: what GET /games/{id}/analysis computes  *)
(* from the durable log of a completed game and then caches for good       *)
(* (apps/api/src/archive/analysis.ts), with the engine's projections it is *)
(* built from: the solve trace, the idle-collapsed time axis and its       *)
(* sittings, the named moments, the momentum ribbon (analysis.ts), and the *)
(* stat sheet and title ladder (titles.ts).                                *)
(*                                                                         *)
(* A letter is "right", "wrong" or "clear" (the comparator is external to  *)
(* these files and modelled in Engine). Times are whole seconds; the log   *)
(* is in seq order, but its clock is the session's wall clock and may step *)
(* back, so a later write can carry an earlier time.                       *)
(***************************************************************************)
EXTENDS Integers, Sequences, FiniteSets

LOCAL INSTANCE SequencesExt
LOCAL INSTANCE FiniteSetsExt

CONSTANTS
    Solvers,             \* user ids, as numbers: their ASCII order breaks ties
    Rows, Cols, Cells,   \* the grid and its cells that have a solution
    Slots,               \* the clues: [cells, starred]
    Steps,               \* how far the clock may move between two writes
    MomentumSamples, BurstWindow, SittingGap, StretchShare,
    StallFloor, SaboteurMin, OneHitRoom, BullseyeMin, SprinterMin, MeddlerMin,
    MarqueeMin,
    NULL,                \* absent
    FocusScale,          \* a common denominator for the focus ratios
    UsualStep, MaxEvents, MaxMess, MaxWrong, MaxJumps  \* bounds, see MayWrite

ASSUME AnalysisAssumption ==
    /\ Solvers \subseteq Nat /\ Cells \subseteq 0 .. Rows * Cols - 1
    /\ Steps \subseteq Int /\ SittingGap \in Nat \ {0} /\ StretchShare \in Nat \ {0}

VARIABLES
    log,   \* cell_events of the game
    over,  \* games.status is completed
    view   \* analysisCache's entry

vars == <<log, over, view>>

SumOver(S, f(_)) == MapThenSumSet(f, S)
CountIf(events, Is(_)) == Cardinality({i \in DOMAIN events : Is(events[i])})

(***************************************************************************)
(* The trace: for each cell the first write that was right, in seq order.  *)
(***************************************************************************)
IsFirstRight(events, e) ==
    /\ e.value = "right"
    /\ \A f \in ToSet(events) :
           f.seq < e.seq /\ f.cell = e.cell => f.value # "right"

SolveTrace(events) == SelectSeq(events, LAMBDA e : IsFirstRight(events, e))

\* The mosaic. firstCorrect walks the same log and keeps only the user.
FirstCorrect(events) ==
    LET fills == ToSet(SolveTrace(events)) IN
    [c \in {f.cell : f \in fills} |-> (CHOOSE f \in fills : f.cell = c).user]

\* Mutant: the first and the last row of the log bound the axis.
TraceBounds_InSeqOrder(trace) ==
    IF trace = <<>> THEN [t0 |-> 0, tEnd |-> 0]
    ELSE [t0 |-> Head(trace).at, tEnd |-> Last(trace).at]

TraceBounds(trace) ==
    LET ats == {f.at : f \in ToSet(trace)} IN
    IF trace = <<>> THEN [t0 |-> 0, tEnd |-> 0] ELSE [t0 |-> Min(ats), tEnd |-> Max(ats)]

Duration(trace) == TraceBounds(trace).tEnd - TraceBounds(trace).t0

Before(e, f) == e.at < f.at \/ (e.at = f.at /\ e.seq < f.seq)
ByAtSeq(trace) == SetToSortSeq(ToSet(trace), Before)

(***************************************************************************)
(* Sittings: a gap of SittingGap or more between two writes ends one, and  *)
(* the active axis is the log with those gaps taken out.                   *)
(***************************************************************************)
EndsSitting(events, i) == i > 1 /\ events[i].at - events[i - 1].at >= SittingGap

SittingIndex(events, i) == Cardinality({k \in 1 .. i : EndsSitting(events, k)})

CollapseIdle(events) ==
    LET shift[i \in DOMAIN events] ==
            (IF i = 1 THEN 0 ELSE shift[i - 1])
            + (IF EndsSitting(events, i) THEN events[i].at - events[i - 1].at ELSE 0)
    IN [i \in DOMAIN events |-> [events[i] EXCEPT !.at = @ - shift[i]]]

Clamp(cut, floor, duration) ==
    LET raised == IF cut < floor THEN floor ELSE cut IN
    IF raised > duration THEN duration ELSE raised

Sittings(events) ==
    LET active == CollapseIdle(events)
        trace == SolveTrace(active)
        duration == Duration(trace)
        seams == SetToSortSeq({i \in DOMAIN events : EndsSitting(events, i)}, <)
        Cut(cuts, i) ==
            Append(cuts, Clamp(active[i].at - TraceBounds(trace).t0,
                               IF cuts = <<>> THEN 0 ELSE Last(cuts), duration))
        ends == Append(FoldLeft(Cut, <<>>, seams), duration)
    IN [count |-> Len(ends),
        spans |-> [k \in DOMAIN ends |->
                      [start |-> IF k = 1 THEN 0 ELSE ends[k - 1], end |-> ends[k]]],
        wall |-> Duration(SolveTrace(events))]

(***************************************************************************)
(* The beats of the solve, on whichever axis the trace is.                 *)
(***************************************************************************)
Gap(trace, k) == trace[k].at - trace[k - 1].at

\* The longest stall between two fills in seq order, the earliest of equals.
\* A gap the clock made negative never counts.
StallBreak(trace) ==
    LET breaks == {k \in 2 .. Len(trace) : Gap(trace, k) >= 0} IN
    IF breaks = {} THEN 0
    ELSE Min({k \in breaks : \A j \in breaks : Gap(trace, k) >= Gap(trace, j)})

TurningPoint(trace) ==
    LET k == StallBreak(trace) IN
    IF k = 0 THEN NULL
    ELSE [stall |-> Gap(trace, k), break |-> trace[k].at - TraceBounds(trace).t0,
          burst |-> CountIf(trace, LAMBDA f : f.at \in trace[k].at .. trace[k].at + BurstWindow)]

Beat(f, trace) == [cell |-> f.cell, user |-> f.user, at |-> f.at - TraceBounds(trace).t0]

Moments(trace) ==
    LET sorted == ByAtSeq(trace) IN
    IF trace = <<>> THEN [firstToFall |-> NULL, lastSquare |-> NULL, turningPoint |-> NULL]
    ELSE [firstToFall |-> Beat(Head(sorted), trace), lastSquare |-> Beat(Last(sorted), trace),
          turningPoint |-> TurningPoint(trace)]

SolveSequence(trace) ==
    LET sorted == ByAtSeq(trace) IN
    [k \in DOMAIN sorted |-> [cell |-> sorted[k].cell, at |-> Beat(sorted[k], trace).at]]

\* The ribbon before its samples are divided by the largest of them. Without
\* the - 1 the fill at the very end would fall outside the samples.
Bucket_Full(f, trace) ==
    IF Duration(trace) = 0 THEN 0
    ELSE ((f.at - TraceBounds(trace).t0) * MomentumSamples) \div Duration(trace)

Bucket(f, trace) ==
    IF Duration(trace) = 0 THEN 0
    ELSE ((f.at - TraceBounds(trace).t0) * (MomentumSamples - 1)) \div Duration(trace)

Momentum(trace) ==
    [duration |-> Duration(trace),
     counts |-> [b \in 0 .. MomentumSamples - 1 |-> CountIf(trace, LAMBDA f : Bucket(f, trace) = b)]]

(***************************************************************************)
(* The stat sheet: a row for each user with an event in the log. Fills,    *)
(* bursts and spans are on the wall clock; the stall is on the active axis.*)
(***************************************************************************)
Fills(trace, u) == {f \in ToSet(trace) : f.user = u}
Owner(trace, c) == (CHOOSE f \in ToSet(trace) : f.cell = c).user

\* The share of the trace at each end, rounded up.
Stretch(trace) == (Len(trace) + StretchShare - 1) \div StretchShare

Opening(trace) == SubSeq(ByAtSeq(trace), 1, Stretch(trace))
Closing(trace) == SubSeq(ByAtSeq(trace), Len(trace) - Stretch(trace) + 1, Len(trace))

\* The value on the board when event i is applied, "clear" before any.
ValueBefore(events, i) ==
    LET earlier == {j \in 1 .. i - 1 : events[j].cell = events[i].cell} IN
    IF earlier = {} THEN "clear" ELSE events[Max(earlier)].value

\* Someone else's right letter is destroyed; whose it is, the whole trace says.
Overwrites(events, trace, i) ==
    /\ ValueBefore(events, i) = "right"
    /\ Owner(trace, events[i].cell) # events[i].user
    /\ events[i].value # "right"

FillsOf(trace, slot) == {f \in ToSet(trace) : f.cell \in slot.cells}
Touched(trace) == {slot \in Slots : FillsOf(trace, slot) # {}}
First(fills) == CHOOSE f \in fills : \A g \in fills \ {f} : Before(f, g)
Final(fills) == CHOOSE f \in fills : \A g \in fills \ {f} : Before(g, f)

MarqueeSlots ==
    LET starred == {s \in Slots : s.starred}
        lengths == {Cardinality(s.cells) : s \in Slots}
        top == {n \in lengths : Cardinality({m \in lengths : m > n}) < 2}
    IN IF starred # {} THEN starred
       ELSE {s \in Slots : Cardinality(s.cells) >= MarqueeMin /\ Cardinality(s.cells) \in top}

Leads(trace, slot, u) ==
    LET share(v) == Cardinality(FillsOf(trace, slot) \cap Fills(trace, v)) IN
    \A v \in Solvers \ {u} : share(u) > share(v)

RowOf(c) == c \div Cols
ColOf(c) == c % Cols
QuadrantOf(c) == <<RowOf(c) < (Rows + 1) \div 2, ColOf(c) < (Cols + 1) \div 2>>

HomeQuadrantFills(fills) ==
    LET inQuadrant(f) == Cardinality({g \in fills : QuadrantOf(g.cell) = QuadrantOf(f.cell)})
    IN Max({0} \cup {inQuadrant(f) : f \in fills})

Burst(fills) ==
    LET from(f) == Cardinality({g \in fills : g.at \in f.at .. f.at + BurstWindow})
    IN Max({0} \cup {from(f) : f \in fills})

Span(fills) == IF fills = {} THEN 0 ELSE Final(fills).at - First(fills).at

TitleStats(events) ==
    LET trace == SolveTrace(events)
        active == SolveTrace(CollapseIdle(events))
        break == StallBreak(active)
        Of(u) == {i \in DOMAIN events : events[i].user = u}
        Row(u) ==
            LET fills == Fills(trace, u)
                home == HomeQuadrantFills(fills)
                touched == Touched(trace)
                finished == {s \in touched : Final(FillsOf(trace, s)).user = u}
                started == {s \in touched : First(FillsOf(trace, s)).user = u}
            IN [user |-> u, fills |-> Cardinality(fills),
                firstFill |-> IF fills = {} THEN NULL ELSE First(fills),
                openingFills |-> CountIf(Opening(trace), LAMBDA f : f.user = u),
                closingFills |-> CountIf(Closing(trace), LAMBDA f : f.user = u),
                writes |-> Cardinality(Of(u)),
                wrongWrites |-> Cardinality({i \in Of(u) : events[i].value = "wrong"}),
                overwrites |-> Cardinality({i \in Of(u) : Overwrites(events, trace, i)}),
                slotsStarted |-> Cardinality(started),
                slotsFinished |-> Cardinality(finished),
                meddles |-> Cardinality(finished \ started),
                slotsTouched |-> Cardinality({s \in touched :
                                     \E f \in FillsOf(trace, s) : f.user = u}),
                marqueeLeads |-> Cardinality({s \in MarqueeSlots : Leads(trace, s, u)}),
                burst |-> Burst(fills),
                spread |-> Cardinality({RowOf(f.cell) : f \in fills})
                               + Cardinality({ColOf(f.cell) : f \in fills}),
                homeQuadrantFills |-> home,
                focus |-> IF fills = {} THEN 0
                          ELSE (home * FocusScale) \div Cardinality(fills),
                span |-> Span(fills),
                brokeStall |-> IF break > 0 /\ active[break].user = u THEN 1 ELSE 0,
                sittingsPresent |-> Cardinality({SittingIndex(events, i) : i \in Of(u)})]
    IN [solvers |-> {Row(u) : u \in {e.user : e \in ToSet(events)}},
        room |-> [stallSeconds |-> IF break = 0 THEN 0 ELSE Gap(active, break),
                  sittingCount |-> SittingIndex(events, Len(events)) + 1]]

(***************************************************************************)
(* The ladder: rungs in rank order, the first ten gated, the last six open *)
(* to anyone with a fill. The column a rung claims, whether a tie goes to  *)
(* the one with more fills, and the number that rides on the card.         *)
(***************************************************************************)
Rung(title, column, tieByFills, evidence) ==
    [title |-> title, column |-> column, tieByFills |-> tieByFills, evidence |-> evidence]

TitleLadder == <<
    Rung("saboteur",       "overwrites",   FALSE, "overwrites"),
    Rung("one-hit-wonder", "firstFill",    FALSE, NULL),
    Rung("ice-breaker",    "brokeStall",   FALSE, "stallSeconds"),
    Rung("bullseye",       "fills",        FALSE, "fills"),
    Rung("headliner",      "marqueeLeads", FALSE, "marqueeLeads"),
    Rung("sprinter",       "burst",        FALSE, "burst"),
    Rung("meddler",        "meddles",      FALSE, "meddles"),
    Rung("marathoner",     "fills",        FALSE, "sittingCount"),
    Rung("quick-starter",  "openingFills", FALSE, "openingFills"),
    Rung("closer",         "closingFills", FALSE, "closingFills"),
    Rung("specialist",     "focus",        TRUE,  "homeQuadrantFills"),
    Rung("long-hauler",    "span",         TRUE,  "span"),
    Rung("wanderer",       "spread",       TRUE,  NULL),
    Rung("scribbler",      "writes",       FALSE, "writes"),
    Rung("collector",      "slotsTouched", TRUE,  "slotsTouched"),
    Rung("workhorse",      "fills",        FALSE, "fills") >>

Gate(rung, row, ctx) ==
    CASE rung.title = "saboteur"       -> row.overwrites >= SaboteurMin
      [] rung.title = "one-hit-wonder" -> /\ row.fills = 1 /\ row.wrongWrites = 0
                                          /\ ctx.maxFills >= OneHitRoom
      [] rung.title = "ice-breaker"    -> row.brokeStall = 1 /\ ctx.stallSeconds >= StallFloor
      [] rung.title = "bullseye"       -> row.wrongWrites = 0 /\ row.fills >= BullseyeMin
      [] rung.title = "headliner"      -> row.marqueeLeads >= 1
      [] rung.title = "sprinter"       -> row.burst >= SprinterMin
      [] rung.title = "meddler"        -> row.meddles >= MeddlerMin
      [] rung.title = "marathoner"     -> /\ ctx.sittingCount >= 2
                                          /\ row.sittingsPresent = ctx.sittingCount
      [] rung.title = "quick-starter"  -> row.openingFills >= 1
      [] rung.title = "closer"         -> row.closingFills >= 1
      [] OTHER                         -> row.fills >= 1

\* Earlier first fill, then the smaller id; whoever filled nothing comes last.
UniversallyBefore(a, b) ==
    CASE a.firstFill # NULL /\ b.firstFill # NULL -> Before(a.firstFill, b.firstFill)
      [] a.firstFill # NULL /\ b.firstFill = NULL -> TRUE
      [] a.firstFill = NULL /\ b.firstFill # NULL -> FALSE
      [] OTHER -> a.user < b.user

\* Row a beats row b for the rung. Its gate leaves only rows with a first fill
\* to the one-hit wonder, the latest of which wins.
Beats(rung, a, b) ==
    IF rung.column = "firstFill" THEN Before(b.firstFill, a.firstFill)
    ELSE IF a[rung.column] # b[rung.column] THEN a[rung.column] > b[rung.column]
    ELSE IF rung.tieByFills /\ a.fills # b.fills THEN a.fills > b.fills
    ELSE UniversallyBefore(a, b)

\* Mutant: the claim runs over the whole room, so a winner who holds a title
\* already leaves the rung empty.
Winners_WholeRoom(rung, pool, titled, ctx) ==
    LET passing == {a \in pool : Gate(rung, a, ctx)} IN
    {a \in passing : a.user \notin titled /\ \A b \in passing \ {a} : Beats(rung, a, b)}

\* The one untitled row that passes the gate and beats the others, if any.
Winners(rung, pool, titled, ctx) ==
    LET passing == {a \in pool : a.user \notin titled /\ Gate(rung, a, ctx)} IN
    {a \in passing : \A b \in passing \ {a} : Beats(rung, a, b)}

AwardTitles(stats) ==
    LET pool == stats.solvers
        ctx == [stallSeconds |-> stats.room.stallSeconds,
                sittingCount |-> stats.room.sittingCount,
                maxFills |-> Max({a.fills : a \in pool})]
        Evidence(rung, a) ==
            CASE rung.evidence = NULL -> NULL
              [] rung.evidence \in DOMAIN ctx -> ctx[rung.evidence]
              [] OTHER -> a[rung.evidence]
        Award(awards, rung) ==
            awards \o SetToSeq(
                {[user |-> a.user, title |-> rung.title, evidence |-> Evidence(rung, a)] :
                     a \in Winners(rung, pool, {x.user : x \in ToSet(awards)}, ctx)})
    IN IF Cardinality(pool) < 2 THEN <<>> ELSE FoldLeft(Award, <<>>, TitleLadder)

(***************************************************************************)
(* The endpoint. The row turns completed in the transaction that writes    *)
(* the last event of the log, and nothing is appended to it after that.    *)
(***************************************************************************)
GameAnalysis(events) ==
    LET trace == SolveTrace(CollapseIdle(events)) IN
    [owners |-> FirstCorrect(CollapseIdle(events)), momentum |-> Momentum(trace),
     moments |-> Moments(trace), sequence |-> SolveSequence(trace),
     titles |-> AwardTitles(TitleStats(events)), sittings |-> Sittings(events)]

Init == log = <<>> /\ over = FALSE /\ view = NULL

\* The bounds: how many writes, how many of them not the first right one of
\* their cell, how many not right at all, and how often the time between two is
\* not the usual one.
MayWrite(next) ==
    LET jumps == {i \in 2 .. Len(next) : next[i].at - next[i - 1].at # UsualStep} IN
    /\ Len(next) <= MaxEvents /\ Cardinality(jumps) <= MaxJumps
    /\ CountIf(next, LAMBDA e : e.value # "right") <= MaxWrong
    /\ Len(next) - Len(SolveTrace(next)) <= MaxMess

\* One cell_events row; the one that makes the board right ends the game.
Write(u, c, value, step) ==
    /\ ~over
    /\ LET at == IF log = <<>> THEN 0 ELSE Last(log).at + step
           next == Append(log, [seq |-> Len(log) + 1, user |-> u, cell |-> c,
                                value |-> value, at |-> at])
       IN /\ MayWrite(next)
          /\ log' = next
          /\ over' = \A d \in Cells : ValueBefore(Append(next, [cell |-> d]), Len(next) + 1) = "right"
    /\ UNCHANGED view

\* Mutant: the endpoint serves, and caches, a game that is still being played.
Read_Ungated ==
    /\ log # <<>>
    /\ view' = IF view = NULL THEN GameAnalysis(log) ELSE view
    /\ UNCHANGED <<log, over>>

Read ==
    /\ over
    /\ view' = IF view = NULL THEN GameAnalysis(log) ELSE view
    /\ UNCHANGED <<log, over>>

Next ==
    \/ \E u \in Solvers, c \in Cells, v \in {"right", "wrong", "clear"}, d \in Steps : Write(u, c, v, d)
    \/ Read

Spec == Init /\ [][Next]_vars

(***************************************************************************)
(* What must hold.                                                         *)
(***************************************************************************)

\* What is cached for good is the analysis of the whole game: the mosaic owns
\* every cell, and it and the replay are those of the raw log, which taking
\* the idle time out must not disturb (archive/analysis.ts 177-182).
CachedViewIsFinal ==
    view # NULL =>
        /\ view.owners = FirstCorrect(log) /\ DOMAIN view.owners = Cells
        /\ {s.cell : s \in ToSet(view.sequence)} = Cells

\* The sittings lie end to end on the axis of the ribbon and the replay, as
\* many as the log has, each fill is inside its own sitting unless the clock
\* stepped back, and no stall is longer than the axis.
AxisIsWhole ==
    view # NULL =>
        LET spans == view.sittings.spans
            whole == view.momentum.duration
            active == CollapseIdle(log)
            trace == SolveTrace(active)
            forward == \A i \in 2 .. Len(log) : log[i].at >= log[i - 1].at
        IN /\ view.sittings.count = SittingIndex(log, Len(log)) + 1
           /\ spans[1].start = 0 /\ spans[view.sittings.count].end = whole
           /\ \A k \in DOMAIN spans : spans[k].start <= spans[k].end
           /\ \A s \in ToSet(view.sequence) : s.at \in 0 .. whole
           /\ forward => \A f \in ToSet(trace) :
                  LET span == spans[SittingIndex(log, f.seq) + 1]
                      x == f.at - TraceBounds(trace).t0
                  IN span.start <= x /\ x <= span.end
           /\ view.moments.turningPoint # NULL => view.moments.turningPoint.stall <= whole

\* A room of six who each filled one cell after a wrong letter, so that no gate
\* but the floor's passes, whatever each one wrote, touched or spread over.
FloorRow(u, writes, focus) ==
    [user |-> u, fills |-> 1, firstFill |-> [at |-> u, seq |-> u], openingFills |-> 0,
     closingFills |-> 0, writes |-> writes, wrongWrites |-> 1, overwrites |-> 0,
     slotsStarted |-> 0, slotsFinished |-> 0, meddles |-> 0, slotsTouched |-> writes,
     marqueeLeads |-> 0, burst |-> 1, spread |-> 2, homeQuadrantFills |-> 1,
     focus |-> focus, span |-> 0, brokeStall |-> 0, sittingsPresent |-> 1]

\* The floor is six rungs deep (TITLES.md 79-84): each of the six has a title.
FloorTitlesSix ==
    \A writes \in [1 .. 6 -> 2 .. 3], first \in 1 .. 6 :
        LET rows == {FloorRow(u, writes[u], IF u = first THEN 2 ELSE 1) : u \in 1 .. 6}
            awards == AwardTitles([solvers |-> rows,
                                   room |-> [stallSeconds |-> 0, sittingCount |-> 1]])
        IN {a.user : a \in ToSet(awards)} = 1 .. 6

\* "Everyone gets a superlative": in a room where at least two wrote and at
\* most six filled, whoever filled a cell has exactly one title; nobody and
\* no title appears twice, and a game played alone awards nothing (TITLES.md
\* 74-84). The floor's rungs are met in a room of six of their own.
EveryFillerIsTitled ==
    view # NULL =>
        LET wrote == {e.user : e \in ToSet(log)}
            filled == {f.user : f \in ToSet(SolveTrace(log))}
            titled == {a.user : a \in ToSet(view.titles)}
        IN /\ Cardinality(titled) = Len(view.titles)
           /\ Cardinality({a.title : a \in ToSet(view.titles)}) = Len(view.titles)
           /\ titled \subseteq wrote
           /\ IF Cardinality(wrote) < 2 THEN titled = {} ELSE filled \subseteq titled
           /\ FloorTitlesSix

\* The sheet counts every fill, stretch, slot and sample exactly once, one
\* solver broke the stall the turning point shows, and a title that cites a
\* number of its solver cites one that solver's row can carry.
SheetAddsUp ==
    view # NULL =>
        LET sheet == TitleStats(log)
            rows == sheet.solvers
            Total(column) == SumOver(rows, LAMBDA a : a[column])
            fills == Len(SolveTrace(log))
            counts == view.momentum.counts
        IN /\ Total("fills") = fills /\ Total("writes") = Len(log)
           /\ Total("openingFills") = Total("closingFills")
           /\ Total("openingFills") = Stretch(SolveTrace(log))
           /\ Total("slotsStarted") = Total("slotsFinished")
           /\ SumOver(DOMAIN counts, LAMBDA b : counts[b]) = fills
           /\ IF view.moments.turningPoint = NULL THEN Total("brokeStall") = 0
              ELSE /\ Total("brokeStall") = 1
                   /\ sheet.room.stallSeconds = view.moments.turningPoint.stall
           /\ \A a \in rows :
                  /\ a.fills + a.wrongWrites <= a.writes
                  /\ a.burst <= a.fills /\ a.fills <= 4 * a.homeQuadrantFills

\* What the view says twice it says the same way.
ViewIsConsistent == AxisIsWhole /\ SheetAddsUp

\* titles.ts 530-535: taking the idle gaps out makes the stall one of a single
\* sitting, so an overnight arrival is never crowned ice-breaker. TLC refutes
\* it: the gaps are taken out between writes, the stall is between fills, and
\* a wrong letter before the night and the first fill after it leave a stall
\* that spans both sittings.
StallStaysInOneSitting ==
    view # NULL =>
        LET trace == SolveTrace(CollapseIdle(log))
            k == StallBreak(trace)
        IN k > 0 /\ Gap(trace, k) > 0 =>
               SittingIndex(log, trace[k - 1].seq) = SittingIndex(log, trace[k].seq)

=============================================================================
