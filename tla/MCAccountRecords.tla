---------------------------- MODULE MCAccountRecords --------------------------
(* Two users with a customer and an account each, and one id left for each. *)
EXTENDS AccountRecords, TLC

CONSTANTS u1, u2, c1, c2, a1, a2

TheLegacy == (u1 :> [customer |-> c1, account |-> a1]) @@ (u2 :> [customer |-> c2, account |-> a2])
AllFaults == FaultKinds
Symmetry == Permutations(Requests)
=============================================================================
