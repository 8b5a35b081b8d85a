------------------------------- MODULE Displays -------------------------------
(***************************************************************************)
(* xvfb.ts: the display numbers of the worker, the Xvfb processes that     *)
(* serve them and the sockets /tmp/.X11-unix/X<n> whose existence is taken *)
(* for readiness.  SessionManager calls startXvfb and stop; here each call *)
(* of startXvfb has an id, which also stands for its Xvfb process.         *)
(***************************************************************************)
EXTENDS Naturals, FiniteSets

CONSTANTS Starts,     \* one id for each call of startXvfb
          Base,       \* config.vncDisplayBase
          Count,      \* numbers there are (1000 in the code)
          None,
          Faults      \* what may go wrong with an Xvfb process

\* lingers: it outlives the SIGTERM for a while; slow: it takes longer than the
\* 5 s the socket is waited for; dies: it dies by itself and leaves its socket.
FaultKinds == {"lingers", "slow", "dies"}

Numbers == Base .. Base + Count - 1

ASSUME ConstantsAssumption ==
  /\ Base \in Nat /\ Count \in Nat
  /\ None \notin Starts \union Numbers
  /\ Faults \subseteq FaultKinds

VARIABLES
  usedDisplays,  \* the Set of the code
  display,       \* display[s]: the number start s was given
  pc,            \* what became of start s
  proc,          \* its Xvfb process
  socket,        \* socket[n]: whose socket exists for display n
  haunted        \* history: the starts whose number somebody else's socket or live
                 \* Xvfb was still on when they were given it

vars == <<usedDisplays, display, pc, proc, socket, haunted>>

TypeOK ==
  /\ usedDisplays \subseteq Numbers
  /\ display \in [Starts -> Numbers \union {None}]
  /\ pc \in [Starts -> {"idle", "waiting", "ready", "failed", "stopped"}]
  /\ proc \in [Starts -> {"none", "booting", "serving", "terminating", "dead"}]
  /\ socket \in [Numbers -> Starts \union {None}]
  /\ haunted \subseteq Starts

Init ==
  /\ usedDisplays = {}
  /\ display = [s \in Starts |-> None]
  /\ pc = [s \in Starts |-> "idle"]
  /\ proc = [s \in Starts |-> "none"]
  /\ socket = [n \in Numbers |-> None]
  /\ haunted = {}

-----------------------------------------------------------------------------
(* Plausible bugs, one for each property the runs check.                    *)

KeepsNumber(s) == UNCHANGED usedDisplays
FixedDelay(s) == TRUE
NoDeadline(s) == proc[s] = "dead"
-----------------------------------------------------------------------------
(* startXvfb                                                                *)

\* Where the loop may stop: at the lowest number that is not in use.
Unused == Numbers \ usedDisplays
Allocatable == {n \in Unused : \A m \in Unused : n <= m}

\* What an earlier start left on number n: its socket, or an Xvfb that was never
\* killed or has not ended.
Remains(n) ==
  socket[n] # None \/ \E r \in Starts : /\ display[r] = n
                                        /\ proc[r] \in {"booting", "serving", "terminating"}

\* Without a free number the call throws before anything is spawned.
StartXvfb(s) ==
  /\ pc[s] = "idle"
  /\ \/ \E n \in Allocatable :
          /\ usedDisplays' = usedDisplays \union {n}
          /\ display' = [display EXCEPT ![s] = n]
          /\ pc' = [pc EXCEPT ![s] = "waiting"]
          /\ proc' = [proc EXCEPT ![s] = "booting"]
          /\ haunted' = IF Remains(n) THEN haunted \union {s} ELSE haunted
     \/ /\ Allocatable = {}
        /\ pc' = [pc EXCEPT ![s] = "failed"]
        /\ UNCHANGED <<usedDisplays, display, proc, haunted>>
  /\ UNCHANGED socket

\* The poll only asks whether the socket exists, not whose it is.
Readiness(s) == socket[display[s]] # None

SocketExists(s) ==
  /\ pc[s] = "waiting"
  /\ Readiness(s)
  /\ pc' = [pc EXCEPT ![s] = "ready"]
  /\ UNCHANGED <<usedDisplays, display, proc, socket, haunted>>

Frees(s) == usedDisplays' = usedDisplays \ {display[s]}

\* Xvfb exited early, or the deadline passed without a socket.
GivesUp(s) == proc[s] = "dead" \/ ("slow" \in Faults /\ socket[display[s]] = None)

\* The number is free again; a process that is only late is not killed.
StartFails(s) ==
  /\ pc[s] = "waiting"
  /\ GivesUp(s)
  /\ pc' = [pc EXCEPT ![s] = "failed"]
  /\ Frees(s)
  /\ UNCHANGED <<display, proc, socket, haunted>>

Terminated(s) == [n \in Numbers |-> IF socket[n] = s THEN None ELSE socket[n]]

\* The number is given back and SIGTERM sent; nobody awaits the end of the process,
\* which may come before the next look at the display or ("lingers") after it.
Stop(s) ==
  /\ pc[s] = "ready"
  /\ pc' = [pc EXCEPT ![s] = "stopped"]
  /\ Frees(s)
  /\ \/ /\ "lingers" \in Faults /\ proc[s] \in {"booting", "serving"}
        /\ proc' = [proc EXCEPT ![s] = "terminating"]
        /\ UNCHANGED socket
     \/ /\ proc' = [proc EXCEPT ![s] = "dead"]
        /\ socket' = IF proc[s] = "dead" THEN socket ELSE Terminated(s)
  /\ UNCHANGED <<display, haunted>>
-----------------------------------------------------------------------------
(* The Xvfb processes                                                       *)

\* A server refuses to start on a display another one serves; the socket a dead
\* one left it replaces.
Boots(s) ==
  /\ proc[s] = "booting"
  /\ IF \E r \in Starts \ {s} : /\ display[r] = display[s]
                                /\ proc[r] \in {"serving", "terminating"}
     THEN proc' = [proc EXCEPT ![s] = "dead"] /\ UNCHANGED socket
     ELSE /\ proc' = [proc EXCEPT ![s] = "serving"]
          /\ socket' = [socket EXCEPT ![display[s]] = s]
  /\ UNCHANGED <<usedDisplays, display, pc, haunted>>

Ends(s) ==
  /\ proc[s] = "terminating"
  /\ proc' = [proc EXCEPT ![s] = "dead"]
  /\ socket' = Terminated(s)
  /\ UNCHANGED <<usedDisplays, display, pc, haunted>>

Dies(s) ==
  /\ "dies" \in Faults
  /\ proc[s] \in {"booting", "serving"}
  /\ proc' = [proc EXCEPT ![s] = "dead"]
  /\ UNCHANGED <<usedDisplays, display, pc, socket, haunted>>

\* Every start that was made has come to its end.
Settled == (\A s \in Starts : pc[s] \in {"ready", "failed", "stopped"}) /\ UNCHANGED vars

Next ==
  \/ \E s \in Starts : StartXvfb(s) \/ SocketExists(s) \/ StartFails(s) \/ Stop(s)
  \/ \E s \in Starts : Boots(s) \/ Ends(s) \/ Dies(s)
  \/ Settled

Spec == Init /\ [][Next]_vars

\* The poll fires every 25 ms until its deadline.
Fairness == \A s \in Starts : WF_vars(SocketExists(s) \/ StartFails(s))

FairSpec == Spec /\ Fairness
-----------------------------------------------------------------------------
(* Properties                                                               *)

Holders == {s \in Starts : pc[s] \in {"waiting", "ready"}}

\* The numbers in use are those of the starts that wait or are ready, each
\* number once: none is lost on the way out of startXvfb and none is shared.
NumbersTracked ==
  /\ usedDisplays = {display[s] : s \in Holders}
  /\ \A r, s \in Holders : display[r] = display[s] => r = s

\* A display is refused only when the worker holds every number there is.
RefusedOnlyWhenFull ==
  [][\A s \in Starts :
       pc[s] = "idle" /\ pc'[s] = "failed" => Cardinality(Holders) = Count]_vars

\* A ready start has its own Xvfb on its display, alive or dead, although readiness
\* is any socket and stop() awaits nothing: a number that went through any number of
\* starts, late ones and dead ones included, does harm only to a start that was given
\* it while an earlier start's socket or Xvfb was still there.
OwnUnlessHaunted ==
  \A s \in Starts :
    pc[s] = "ready" /\ s \notin haunted
      => socket[display[s]] = s /\ proc[s] \in {"serving", "dead"}

\* startXvfb settles: somebody who waits for a display gets one or an error.
StartsSettle == \A s \in Starts : pc[s] = "waiting" ~> pc[s] # "waiting"
=============================================================================
