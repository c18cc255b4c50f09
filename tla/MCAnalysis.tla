----------------------------- MODULE MCAnalysis -----------------------------
(* The instance of Analysis that TLC checks: three cells of a 2 x 3 grid, an    *)
(* across clue and a starred down clue that share a corner, and thresholds     *)
(* small enough for three fills to reach every rung.                           *)
EXTENDS Analysis

MCCells == {0, 1, 3}
MCSlots == {[cells |-> {0, 1}, starred |-> FALSE], [cells |-> {0, 3}, starred |-> TRUE]}
MCSteps == {-1, 1, 4}

=============================================================================
