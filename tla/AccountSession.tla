---------------------------- MODULE AccountSession ----------------------------
(***************************************************************************)
(* What the browser-worker promises the holder of one account, whatever    *)
(* the processes behind it do: an account is STOPPED, STARTING or RUNNING, *)
(* it is served by one incarnation ("run") at a time, an incarnation that  *)
(* became RUNNING is the one that was STARTING, and an incarnation that    *)
(* ended is never served again.  The doc comment of SessionManager states  *)
(* it as "one [live Chromium session] per Starlink account"; start() is    *)
(* "idempotent: returns the existing one instead of starting a second".    *)
(***************************************************************************)
CONSTANTS Accounts, Runs, None

VARIABLES phase,   \* phase[a]: the status of account a
          run,     \* run[a]: the incarnation that serves it, None if STOPPED
          used     \* the incarnations begun so far

vars == <<phase, run, used>>

Init == /\ phase = [a \in Accounts |-> "STOPPED"]
        /\ run = [a \in Accounts |-> None]
        /\ used = {}

\* A start of a stopped account begins a fresh incarnation.
Begin(a, r) == /\ phase[a] = "STOPPED"
               /\ r \notin used
               /\ phase' = [phase EXCEPT ![a] = "STARTING"]
               /\ run' = [run EXCEPT ![a] = r]
               /\ used' = used \union {r}

\* The incarnation that was starting is ready.
Ready(a) == /\ phase[a] = "STARTING"
            /\ phase' = [phase EXCEPT ![a] = "RUNNING"]
            /\ UNCHANGED <<run, used>>

\* Accounts stop: one by a stop, a reap or a failed start, all of those that
\* were not stopped when the worker process goes away.
End(S) == /\ phase' = [a \in Accounts |-> IF a \in S THEN "STOPPED" ELSE phase[a]]
          /\ run' = [a \in Accounts |-> IF a \in S THEN None ELSE run[a]]
          /\ UNCHANGED used

Next == \/ \E a \in Accounts, r \in Runs : Begin(a, r)
        \/ \E a \in Accounts : Ready(a)
        \/ \E S \in SUBSET Accounts : End(S)

Spec == Init /\ [][Next]_vars
=============================================================================
