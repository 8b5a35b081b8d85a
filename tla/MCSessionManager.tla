--------------------------- MODULE MCSessionManager ---------------------------
(* Model values and failure sets for checking SessionManager with TLC.       *)
EXTENDS SessionManager, TLC

\* The failures after which doStart stops all that it spawned: before the
\* browser is up, and x11vnc exiting by itself.
CleanFailures == {"volume", "xvfbExit", "launch", "vncExit"}

\* Every failure of every await.
AllFailures == Failure

NoCrashes == {}
AnyChild == Child

\* Accounts, callers and runs are interchangeable (safety runs only).
Symmetry == Permutations(Accounts) \union Permutations(Callers) \union Permutations(Runs)
=============================================================================
