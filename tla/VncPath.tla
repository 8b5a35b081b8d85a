------------------------------- MODULE VncPath -------------------------------
(***************************************************************************)
(* From a phone to a screen: VncViewer opens an account, gets a ticket and *)
(* presents it to VncProxyService, which resolves it to the account, asks  *)
(* the worker for the port of its session and connects the phone to it.    *)
(* Meanwhile pages are left and retried, tickets replaced, sessions        *)
(* stopped and their ports used again.  An "effect" is one run of the      *)
(* React effect of VncViewer; a ticket is named by the effect it is for.   *)
(***************************************************************************)
CONSTANTS Viewers,   \* pages that show a session
          Effects,   \* one id for each run of the effect
          Accounts, Ports, None

ASSUME PathAssumption == None \notin Viewers \union Effects \union Accounts \union Ports

VARIABLES
  cur,       \* cur[v]: the effect of page v that was not cleaned up
  shown,     \* shown[v]: the state of page v
  step,      \* step[e]: the await effect e is at, on the phone or on its behalf
  view,      \* the page of effect e
  acct,      \* the account it opens
  ticket,    \* ticket[a]: the ticket that account a has
  session,   \* session[a]: the port of its session in the worker's map
  listens,   \* listens[p]: the account whose websockify has port p
  dial,      \* dial[e]: the port the proxy connects effect e to
  sees,      \* sees[e]: the account whose screen it got
  closed,    \* effects whose WebSocket the page closed
  overtaken  \* history: effects whose port was given up before they reached it

phoneVars == <<cur, shown, view, acct>>
apiVars == <<ticket>>
workerVars == <<session, listens>>
wireVars == <<dial, sees, closed, overtaken>>
vars == <<step, phoneVars, apiVars, workerVars, wireVars>>

\* The awaits inside openSession; those of the API behind the WebSocket.
Opening == {"opening", "started", "answered"}
Proxied == {"upgrade", "asking", "dialing"}
Steps == Opening \union Proxied
           \union {"unused", "import", "connected", "broken", "failed", "gone"}

\* From new RFB() on; afterwards a picture, or one that stands still.
HasSocket == Proxied \union {"connected", "broken"}

TypeOK ==
  /\ cur \in [Viewers -> Effects \union {None}]
  /\ shown \in [Viewers -> {"none", "loading", "connecting", "connected", "error"}]
  /\ step \in [Effects -> Steps]
  /\ view \in [Effects -> Viewers \union {None}]
  /\ acct \in [Effects -> Accounts \union {None}]
  /\ ticket \in [Accounts -> Effects \union {None}]
  /\ session \in [Accounts -> Ports \union {None}]
  /\ listens \in [Ports -> Accounts \union {None}]
  /\ dial \in [Effects -> Ports \union {None}]
  /\ sees \in [Effects -> Accounts \union {None}]
  /\ closed \subseteq Effects /\ overtaken \subseteq Effects

Init ==
  /\ cur = [v \in Viewers |-> None]
  /\ shown = [v \in Viewers |-> "none"]
  /\ step = [e \in Effects |-> "unused"]
  /\ view = [e \in Effects |-> None]
  /\ acct = [e \in Effects |-> None]
  /\ ticket = [a \in Accounts |-> None]
  /\ session = [a \in Accounts |-> None]
  /\ listens = [p \in Ports |-> None]
  /\ dial = [e \in Effects |-> None]
  /\ sees = [e \in Effects |-> None]
  /\ closed = {} /\ overtaken = {}
-----------------------------------------------------------------------------
(* Plausible bugs, one for each property the runs check.                    *)

NeverCancelled(e) == FALSE
FirstTarget(e) == LET Before == {x \in Effects : dial[x] # None}
                  IN  IF Before = {} THEN session[acct[e]] ELSE dial[CHOOSE x \in Before : TRUE]
KeepsWaiting(e) == UNCHANGED <<step, shown>>
StaysOpen(v) == {}
-----------------------------------------------------------------------------
(* The page                                                                 *)

\* The cleanup ran: the page was left, retried or went to another account.
Cancelled(e) == cur[view[e]] # e

Sets(e, s) == shown' = IF Cancelled(e) THEN shown ELSE [shown EXCEPT ![view[e]] = s]
To(e, s) == step' = [step EXCEPT ![e] = s]

\* The WebSocket the cleanup of page v closes: before new RFB() it only marks the effect.
CleanedUp(v) == IF cur[v] # None /\ step[cur[v]] \in HasSocket THEN {cur[v]} ELSE {}

\* A picture ends with its socket; the handler of the API that is behind a socket
\* without one yet goes on.
Hangs(x, S) == IF x \in S /\ step[x] \in {"connected", "broken"} THEN "gone" ELSE step[x]

\* The effect runs: on the first render, on "retry", for another account.
Mount(v, e, a) ==
  /\ step[e] = "unused"
  /\ closed' = closed \union CleanedUp(v)
  /\ step' = [x \in Effects |-> IF x = e THEN "opening" ELSE Hangs(x, CleanedUp(v))]
  /\ cur' = [cur EXCEPT ![v] = e]
  /\ shown' = [shown EXCEPT ![v] = "loading"]
  /\ view' = [view EXCEPT ![e] = v]
  /\ acct' = [acct EXCEPT ![e] = a]
  /\ UNCHANGED <<apiVars, workerVars, dial, sees, overtaken>>

Leave(v) ==
  /\ cur[v] # None
  /\ closed' = closed \union CleanedUp(v)
  /\ step' = [x \in Effects |-> Hangs(x, CleanedUp(v))]
  /\ cur' = [cur EXCEPT ![v] = None]
  /\ shown' = [shown EXCEPT ![v] = "none"]
  /\ UNCHANGED <<view, acct, apiVars, workerVars, dial, sees, overtaken>>

\* The catch of connect(), and the disconnect and securityfailure events.
Errs(e) == To(e, IF Cancelled(e) THEN "gone" ELSE "failed") /\ Sets(e, "error")

\* openSession resolved; the import of noVNC begins.
Opened(e) ==
  /\ step[e] = "answered"
  /\ To(e, IF Cancelled(e) THEN "gone" ELSE "import")
  /\ Sets(e, "connecting")
  /\ UNCHANGED <<cur, view, acct, apiVars, workerVars, wireVars>>

\* openSession rejected: a conflict, the limit, a lost answer; or the import did.
OpenFails(e) ==
  /\ step[e] \in Opening \union {"import"}
  /\ Errs(e)
  /\ UNCHANGED <<cur, view, acct, apiVars, workerVars, wireVars>>

\* noVNC is loaded: new RFB() presents the ticket.
Imported(e) ==
  /\ step[e] = "import"
  /\ To(e, IF Cancelled(e) THEN "gone" ELSE "upgrade")
  /\ UNCHANGED <<phoneVars, apiVars, workerVars, wireVars>>

\* The connection ended under the page.
Disconnected(e) ==
  /\ step[e] = "broken"
  /\ Errs(e)
  /\ UNCHANGED <<cur, view, acct, apiVars, workerVars, wireVars>>
-----------------------------------------------------------------------------
(* BrowserService.open for the effect                                       *)

\* worker.start under the lock of the account: the session that runs, or a new
\* one, whose websockify listens on a free port.
OpenStarts(e) ==
  /\ step[e] = "opening"
  /\ \A x \in Effects : step[x] = "started" => acct[x] # acct[e]
  /\ \/ session[acct[e]] # None /\ UNCHANGED workerVars
     \/ \E p \in Ports : /\ session[acct[e]] = None /\ listens[p] = None
                         /\ session' = [session EXCEPT ![acct[e]] = p]
                         /\ listens' = [listens EXCEPT ![p] = acct[e]]
  /\ To(e, "started")
  /\ UNCHANGED <<phoneVars, apiVars, wireVars>>

\* The ticket's hash replaces the one the account had.
OpenWrites(e) ==
  /\ step[e] = "started"
  /\ ticket' = [ticket EXCEPT ![acct[e]] = e]
  /\ To(e, "answered")
  /\ UNCHANGED <<phoneVars, workerVars, wireVars>>

\* The ticket expired, or stop() cleared it.
TicketEnds(a) ==
  /\ ticket[a] # None
  /\ ticket' = [ticket EXCEPT ![a] = None]
  /\ UNCHANGED <<step, phoneVars, workerVars, wireVars>>
-----------------------------------------------------------------------------
(* VncProxyService.handleUpgrade for the effect                             *)

\* 401, 502 or an exception: the socket is destroyed, and RFB disconnects.
Refuses(e) == Errs(e)

ResolveTicket(e) ==
  /\ step[e] = "upgrade"
  /\ \/ \E a \in Accounts : ticket[a] = e /\ To(e, "asking") /\ UNCHANGED shown
     \/ (\A a \in Accounts : ticket[a] # e) /\ Refuses(e)
  /\ UNCHANGED <<cur, view, acct, apiVars, workerVars, wireVars>>

\* The port in the worker's answer, asked for on each upgrade.
PortOf(e) == session[acct[e]]

AskWorker(e) ==
  /\ step[e] = "asking"
  /\ \/ /\ PortOf(e) # None
        /\ dial' = [dial EXCEPT ![e] = PortOf(e)]
        /\ To(e, "dialing") /\ UNCHANGED shown
     \/ session[acct[e]] = None /\ Refuses(e) /\ UNCHANGED dial
  /\ UNCHANGED <<cur, view, acct, apiVars, workerVars, sees, closed, overtaken>>

\* The worker is not reached.
ProxyFails(e) ==
  /\ step[e] \in {"asking", "dialing"}
  /\ Refuses(e)
  /\ UNCHANGED <<cur, view, acct, apiVars, workerVars, wireVars>>

\* proxy.ws connects to whoever listens on the port by now, and has nobody to show
\* it to when the phone's socket is closed.
Dial(e) ==
  /\ step[e] = "dialing"
  /\ \/ /\ listens[dial[e]] # None /\ e \notin closed
        /\ sees' = [sees EXCEPT ![e] = listens[dial[e]]]
        /\ To(e, "connected")
        /\ Sets(e, "connected")
     \/ listens[dial[e]] = None /\ Refuses(e) /\ UNCHANGED sees
     \/ e \in closed /\ To(e, "gone") /\ UNCHANGED <<shown, sees>>
  /\ UNCHANGED <<cur, view, acct, apiVars, workerVars, dial, closed, overtaken>>
-----------------------------------------------------------------------------
(* The worker                                                               *)

\* stop() or the reaper: the session leaves the map; its websockify runs on until
\* Chromium has closed.
SessionStops(a) ==
  /\ session[a] # None
  /\ session' = [session EXCEPT ![a] = None]
  /\ UNCHANGED <<step, phoneVars, apiVars, listens, wireVars>>

\* The websockify of a stopped session ends: its port is free again and its
\* connections are broken.
PortFreed(p) ==
  /\ listens[p] # None
  /\ session[listens[p]] # p
  /\ listens' = [listens EXCEPT ![p] = None]
  /\ step' = [e \in Effects |-> IF step[e] = "connected" /\ dial[e] = p THEN "broken" ELSE step[e]]
  /\ overtaken' = overtaken \union {e \in Effects : step[e] = "dialing" /\ dial[e] = p}
  /\ UNCHANGED <<phoneVars, apiVars, session, dial, sees, closed>>

\* What goes on for effect e without anybody's doing.
Progress(e) ==
  \/ OpenStarts(e) \/ OpenWrites(e) \/ OpenFails(e) \/ Opened(e) \/ Imported(e)
  \/ ResolveTicket(e) \/ AskWorker(e) \/ ProxyFails(e) \/ Dial(e) \/ Disconnected(e)

\* All effects are used up and have come to something: the pages may stay as they are.
Settled == (\A e \in Effects : step[e] \in {"connected", "failed", "gone"}) /\ UNCHANGED vars

Next ==
  \/ \E v \in Viewers, e \in Effects, a \in Accounts : Mount(v, e, a)
  \/ \E v \in Viewers : Leave(v)
  \/ \E e \in Effects : Progress(e)
  \/ \E a \in Accounts : TicketEnds(a) \/ SessionStops(a)
  \/ \E p \in Ports : PortFreed(p)
  \/ Settled

Spec == Init /\ [][Next]_vars

\* Calls, imports and connection attempts end one way or the other.
Fairness == \A e \in Effects : WF_vars(Progress(e))

FairSpec == Spec /\ Fairness
-----------------------------------------------------------------------------
(* Properties                                                               *)

\* A ticket leads to the screen of its own account, whatever was stopped and
\* started meanwhile, unless the session's port was given up between the answer of
\* the worker and the connection.
SeesOwnAccount ==
  \A e \in Effects : step[e] \in {"connected", "broken"} => sees[e] = acct[e] \/ e \in overtaken

\* A page that was left, or that has started over, holds no connection, and no picture
\* comes to one afterwards although the API goes on with what it was asked for.
NoLeakedViewer ==
  \A e \in Effects :
    step[e] \in HasSocket /\ Cancelled(e) => e \in closed /\ step[e] \in Proxied

\* What a page shows is the state of its present effect: no late answer or event of
\* an effect that was cleaned up gets onto the screen.
ShownIsCurrent ==
  \A v \in Viewers : cur[v] # None =>
    shown[v] = CASE step[cur[v]] \in Opening -> "loading"
                 [] step[cur[v]] \in Proxied \union {"import"} -> "connecting"
                 [] step[cur[v]] \in {"connected", "broken"} -> "connected"
                 [] OTHER -> "error"

\* Nobody looks at a spinner or a dead picture for ever: every effect comes to a
\* picture, an error or its end, and so does one whose connection breaks.
EffectsSettle ==
  \A e \in Effects :
    step[e] \in Opening \union Proxied \union {"import", "broken"}
      ~> step[e] \in {"connected", "failed", "gone"}
=============================================================================
