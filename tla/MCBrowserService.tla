--------------------------- MODULE MCBrowserService ---------------------------
(* Operations, faults and symmetry for checking BrowserService with TLC.     *)
EXTENDS BrowserService, TLC

AllOps == {"open", "stop", "status"}

\* What leaves the API, its database and the connection to the worker working.
OrderlyFaults == {"refuse", "delete", "reap"}
AllFaults == FaultKinds

\* Requests are interchangeable (safety runs only).
Symmetry == Permutations(Requests)
=============================================================================
