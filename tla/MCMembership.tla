---------------------------- MODULE MCMembership ----------------------------
(* The instance of Membership that TLC checks: two of its requests at once,   *)
(* interchangeable.                                                            *)
EXTENDS Membership, TLC

SlotSymmetry == Permutations(Slots)

=============================================================================
