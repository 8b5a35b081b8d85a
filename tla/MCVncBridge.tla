------------------------------ MODULE MCVncBridge ------------------------------
(* Faults and symmetry for checking VncBridge with TLC.                       *)
EXTENDS VncBridge, TLC

AllFaults == FaultKinds

\* Starts and ports are interchangeable.
Symmetry == Permutations(Starts) \union Permutations(Ports)
=============================================================================
