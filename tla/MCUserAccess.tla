----------------------------- MODULE MCUserAccess -----------------------------
(* Faults and symmetry for checking UserAccess with TLC.                     *)
EXTENDS UserAccess, TLC

AllFaults == FaultKinds

\* Requests, passwords and secrets are interchangeable.
Symmetry == Permutations(Requests) \union Permutations(Passwords) \union Permutations(Secrets)
=============================================================================
