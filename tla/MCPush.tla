-------------------------------- MODULE MCPush --------------------------------
(* The instance of Push that TLC checks: its members are interchangeable.       *)
EXTENDS Push, TLC

UserSymmetry == Permutations(Users)

=============================================================================
