----------------------------- MODULE MCWebClient -----------------------------
(* Faults and symmetry for checking WebClient with TLC.                      *)
EXTENDS WebClient, TLC

DbFaults == {"db"}
LostAnswers == {"lost"}

\* Phones, devices, tokens and calls are interchangeable (safety runs only).
Symmetry == Permutations(Phones) \union Permutations(Devices)
              \union Permutations(Tokens) \union Permutations(Requests)
=============================================================================
