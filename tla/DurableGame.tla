----------------------------- MODULE DurableGame -----------------------------
(***************************************************************************)
(* What the session service promises of one game (DESIGN.md 6 and 12):     *)
(* accepted events only ever extend the game's journal, a hard kill takes  *)
(* back at most the tail that was not yet durable, the durable part is     *)
(* never rewritten, a terminal state is final once durable, and it is      *)
(* announced at most once and only after that.                             *)
(***************************************************************************)
EXTENDS Integers, Sequences

CONSTANT Event

VARIABLES
    journal,    \* the sequenced events of the game, the terminal one apart
    status,     \* the status players are served
    durable,    \* how much of the journal survives a hard kill
    stored,     \* the status that survives a hard kill
    announced   \* how many terminal events were broadcast

gameVars == <<journal, status, durable, stored, announced>>

Kept == SubSeq(journal, 1, durable)

TypeOK ==
    /\ journal \in Seq(Event) /\ durable \in 0..Len(journal)
    /\ status \in {"ongoing", "completed", "abandoned"}
    /\ stored \in {"ongoing", "completed", "abandoned"}
    /\ announced \in 0..1

Init ==
    /\ journal = <<>> /\ durable = 0
    /\ status = "ongoing" /\ stored = "ongoing" /\ announced = 0

\* Commands, ballots and timers extend the journal of an ongoing game, and may
\* end it.
Accept ==
    /\ status = "ongoing"
    /\ journal' \in Seq(Event)
    /\ Len(journal) <= Len(journal') /\ SubSeq(journal', 1, Len(journal)) = journal
    /\ status' \in {"ongoing", "completed", "abandoned"}
    /\ UNCHANGED <<durable, stored, announced>>

Persist ==
    /\ durable' = Len(journal) /\ stored' = status
    /\ UNCHANGED <<journal, status, announced>>

Announce ==
    /\ stored # "ongoing" /\ announced = 0
    /\ announced' = 1
    /\ UNCHANGED <<journal, status, durable, stored>>

\* A hard kill: the game falls back to what was durable.
Lose ==
    /\ journal' = Kept /\ status' = stored
    /\ UNCHANGED <<durable, stored, announced>>

Next == Accept \/ Persist \/ Announce \/ Lose

Spec == Init /\ [][Next]_gameVars

-----------------------------------------------------------------------------
(* What the promise amounts to.                                            *)

\* A terminal state made durable is the one served, with nothing left to lose.
StoredIsServed ==
    stored # "ongoing" => status = stored /\ durable = Len(journal)

\* INV-3: what was announced is durable.
AnnouncedIsStored == announced = 1 => stored # "ongoing"

\* INV-5: no step takes back or rewrites a durable event.
DurableIsKept ==
    [][/\ durable <= Len(journal') /\ durable <= durable'
       /\ SubSeq(journal', 1, durable) = Kept]_gameVars

\* INV-4: once durable, a terminal state and its journal are final.
StoredIsFinal ==
    [][stored # "ongoing" => UNCHANGED <<journal, status, stored>>]_gameVars

=============================================================================
