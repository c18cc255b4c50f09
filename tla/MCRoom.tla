------------------------------- MODULE MCRoom -------------------------------
(* One cell whose only correct letter is R.                                *)
EXTENDS Room

CONSTANTS c1, R, W, lowR, lowW

MCCells == {c1}
MCValues == {R, W}
MCInputs == {lowR, lowW}
MCNormalized == [i \in MCInputs |-> IF i = lowR THEN R ELSE W]
MCAccepted == [c \in MCCells |-> {R}]
MCCommandIds == Users \X (1..MaxCommands)

MCSymmetry == Permutations(Users)

=============================================================================
