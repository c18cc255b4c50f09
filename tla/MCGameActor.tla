---------------------------- MODULE MCGameActor ----------------------------
(* One cell whose only correct letter is R, two players.                   *)
EXTENDS GameActor, TLC

CONSTANTS c1, R, W, lowR, lowW

MCCells == {c1}
MCValues == {R, W}
MCInputs == {lowR, lowW}
MCNormalized == (lowR :> R) @@ (lowW :> W)
MCAccepted == [c \in MCCells |-> {R}]

MCSymmetry == Permutations(CommandIds)

=============================================================================
