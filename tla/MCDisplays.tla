------------------------------ MODULE MCDisplays ------------------------------
(* Faults and symmetry for checking Displays with TLC.                       *)
EXTENDS Displays, TLC

AllFaults == FaultKinds

\* The calls of startXvfb are interchangeable (safety runs only).
Symmetry == Permutations(Starts)
=============================================================================
