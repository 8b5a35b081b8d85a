--------------------------- MODULE MCRefreshTokens ---------------------------
(* Faults and symmetry for checking RefreshTokens with TLC.                  *)
EXTENDS RefreshTokens, TLC

NoFaults == {}
DbFaults == {"db"}

\* Devices, tokens and requests are interchangeable (safety runs only).
Symmetry == Permutations(Devices) \union Permutations(Tokens) \union Permutations(Requests)
=============================================================================
