------------------------------- MODULE VncBridge -------------------------------
(***************************************************************************)
(* freePort.ts, x11vnc.ts, websockify.ts, waitForPort.ts: how a start gets *)
(* an x11vnc for its display and a websockify in front of it.  Each picks  *)
(* a port by listening on port 0 and closing again, spawns its program on  *)
(* that port and waits until something accepts a connection there.         *)
(***************************************************************************)
EXTENDS Naturals, FiniteSets

CONSTANTS Starts,   \* one id for each start that gets as far as its VNC part
          Ports,    \* what listening on port 0 may return
          None,
          Faults    \* what may go wrong

\* collide: the system returns a port again that its program has not bound yet;
\* slow: a program takes longer than the 5 s it is waited for; dies: it dies.
FaultKinds == {"collide", "slow", "dies"}

ASSUME ConstantsAssumption ==
  /\ None \notin Ports
  /\ Faults \subseteq FaultKinds

Programs == {"x11vnc", "websockify"}
Children == Starts \X Programs

VARIABLES
  pc,        \* pc[s]: the program start s waits for, or what became of it
  port,      \* port[c]: the port child c was spawned on
  proc,      \* proc[c]: its process
  listener   \* listener[p]: the child that listens on port p

vars == <<pc, port, proc, listener>>

TypeOK ==
  /\ pc \in [Starts -> Programs \union {"idle", "ready", "failed", "stopped"}]
  /\ port \in [Children -> Ports \union {None}]
  /\ proc \in [Children -> {"none", "booting", "listening", "dead"}]
  /\ \A c \in Children : proc[c] # "none" => port[c] \in Ports
  /\ listener \in [Ports -> Children \union {<<>>}]

Init ==
  /\ pc = [s \in Starts |-> "idle"]
  /\ port = [c \in Children |-> None]
  /\ proc = [c \in Children |-> "none"]
  /\ listener = [p \in Ports |-> <<>>]

-----------------------------------------------------------------------------
(* Plausible bugs, one for each property the runs check.                    *)

FixedDelay(c) == TRUE
-----------------------------------------------------------------------------
Free == {p \in Ports : listener[p] = <<>>}

\* Ports that a spawned program is about to bind.
Promised == {port[c] : c \in {b \in Children : proc[b] = "booting"}}

\* getFreePort: the probe is closed again before the program is spawned.
FreePorts == IF "collide" \in Faults THEN Free ELSE Free \ Promised

Spawn(c) ==
  \E p \in FreePorts : /\ port' = [port EXCEPT ![c] = p]
                       /\ proc' = [proc EXCEPT ![c] = "booting"]

Accepting(c) == listener[port[c]] # <<>>

StartX11vnc(s) ==
  /\ pc[s] = "idle"
  /\ pc' = [pc EXCEPT ![s] = "x11vnc"]
  /\ Spawn(<<s, "x11vnc">>)
  /\ UNCHANGED listener

\* waitForPortOpen connects, to whoever listens: startX11vnc returns and
\* startWebsockify begins.
X11vncReady(s) ==
  /\ pc[s] = "x11vnc"
  /\ Accepting(<<s, "x11vnc">>)
  /\ pc' = [pc EXCEPT ![s] = "websockify"]
  /\ Spawn(<<s, "websockify">>)
  /\ UNCHANGED listener

WebsockifyReady(s) ==
  /\ pc[s] = "websockify"
  /\ Accepting(<<s, "websockify">>)
  /\ pc' = [pc EXCEPT ![s] = "ready"]
  /\ UNCHANGED <<port, proc, listener>>

\* The program exited, or the deadline passed with nobody listening.
GivesUp(s) == LET c == <<s, pc[s]>>
              IN  proc[c] = "dead" \/ ("slow" \in Faults /\ ~Accepting(c))

\* The start fails.  The browser and the display are closed; neither program is told.
Fails(s) ==
  /\ pc[s] \in Programs
  /\ GivesUp(s)
  /\ pc' = [pc EXCEPT ![s] = "failed"]
  /\ UNCHANGED <<port, proc, listener>>

\* The session is stopped: both programs get SIGTERM, their end is not awaited.
Stop(s) ==
  /\ pc[s] = "ready"
  /\ pc' = [pc EXCEPT ![s] = "stopped"]
  /\ UNCHANGED <<port, proc, listener>>
-----------------------------------------------------------------------------
(* The programs                                                             *)

\* A program whose port is taken by then exits.
Binds(c) ==
  /\ proc[c] = "booting"
  /\ IF listener[port[c]] = <<>>
     THEN /\ proc' = [proc EXCEPT ![c] = "listening"]
          /\ listener' = [listener EXCEPT ![port[c]] = c]
     ELSE proc' = [proc EXCEPT ![c] = "dead"] /\ UNCHANGED listener
  /\ UNCHANGED <<pc, port>>

Gone(c) == /\ proc[c] \in {"booting", "listening"}
           /\ proc' = [proc EXCEPT ![c] = "dead"]
           /\ listener' = [p \in Ports |-> IF listener[p] = c THEN <<>> ELSE listener[p]]
           /\ UNCHANGED <<pc, port>>

\* Sooner or later, or never: SIGTERM ends the programs of a stopped session, and the
\* end of its display the x11vnc of a failed start, whose websockify runs on.
Ends(s, k) ==
  /\ pc[s] = "stopped" \/ (pc[s] = "failed" /\ k = "x11vnc")
  /\ Gone(<<s, k>>)

Dies(c) == "dies" \in Faults /\ Gone(c)

\* Every start has come to its end.
Settled == (\A s \in Starts : pc[s] \in {"ready", "failed", "stopped"}) /\ UNCHANGED vars

Next ==
  \/ \E s \in Starts : StartX11vnc(s) \/ X11vncReady(s) \/ WebsockifyReady(s) \/ Fails(s) \/ Stop(s)
  \/ \E s \in Starts, k \in Programs : Ends(s, k)
  \/ \E c \in Children : Binds(c) \/ Dies(c)
  \/ Settled

Spec == Init /\ [][Next]_vars
-----------------------------------------------------------------------------
(* Properties                                                               *)

\* startX11vnc waits for "x11vnc actually accepting connections, or it dying
\* before that", startWebsockify likewise: the live programs of a ready session
\* are the ones that listen on its ports, if those were given to nobody else.
OwnUnlessShared ==
  \A s \in Starts, k \in Programs :
    /\ pc[s] = "ready" /\ proc[<<s, k>>] # "dead"
    /\ \A d \in Children \ {<<s, k>>} : port[d] # port[<<s, k>>]
    => listener[port[<<s, k>>]] = <<s, k>>
=============================================================================
