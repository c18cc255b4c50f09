---------------------------- MODULE MCEngineGame ----------------------------
(* A grid of two playable cells and one block, two letters typed in three   *)
(* ways and one input the charset refuses.                                  *)
EXTENDS EngineGame, TLC

CONSTANTS c1, c2, block, A, R, lowerA, bad, u1, u2, u3

MCCells == {c1, c2}
MCTargets == {c1, c2, block}
MCValues == {A, R}
MCInputs == {A, R, lowerA, bad}
MCNormalized == A :> A @@ R :> R @@ lowerA :> A @@ bad :> NoValue
MCAccepted == c1 :> {A} @@ c2 :> {R}
MCUsers == {u1, u2, u3}

Symmetry == Permutations(MCUsers)
=============================================================================
