---------------------------- MODULE SessionManager ----------------------------
(***************************************************************************)
(* The browser-worker: SessionManager and the child processes of a session *)
(* (Xvfb, Chromium, x11vnc, websockify), the control API that calls it and *)
(* the shutdown of the process.  Node runs one thread: an action is what   *)
(* runs between two awaits.  A "run" is one call of doStart; its identity  *)
(* stands for the RunningSession object and its four process handles.      *)
(***************************************************************************)
EXTENDS Naturals, FiniteSets

CONSTANTS Accounts,               \* account ids the API asks for
          Runs,                   \* one id for each doStart call, used once
          Callers,                \* HTTP requests being served at a time
          None,
          MaxConcurrentSessions,  \* config.maxConcurrentSessions
          MaxInFlightStarts,      \* bound: starts the clients overlap
          FailSteps,              \* the failures the environment may produce
          Crashable               \* children that may die by themselves

Child == {"xvfb", "chromium", "x11vnc", "websockify"}

Failure == {"volume", "xvfbExit", "xvfbTimeout", "launch", "page", "vncExit",
            "vncTimeout", "wsExit", "wsTimeout", "abortClose"}

\* The awaits a start goes through, in order; "abort" is the await in its catch.
InFlight == {"volume", "xvfb", "launch", "page", "vnc", "websockify", "abort"}

Stages == InFlight \union {"unused", "running", "closing", "ended"}

ASSUME ConstantsAssumption ==
  /\ IsFiniteSet(Accounts)
  /\ None \notin Accounts \union Runs
  /\ MaxConcurrentSessions \in Nat
  /\ MaxInFlightStarts \in Nat \ {0}
  /\ FailSteps \subseteq Failure
  /\ Crashable \subseteq Child

VARIABLES
  sessions,   \* Map accountId -> RunningSession (its run), None if absent
  starting,   \* Map accountId -> promise of the start in flight
  acct,       \* acct[r]: the account run r was started for
  stage,      \* stage[r]: the await run r is at, or what became of it
  procs,      \* procs[r]: the children of run r that are alive
  idle,       \* runs whose lastActivityAt is older than the idle timeout
  waiting,    \* waiting[c]: the run whose promise the request of c awaits
  mode,       \* the process: "up", "draining" (shutdown called), "exited"
  exitWaits   \* for each shutdown call, the runs its stopAll() awaits

vars == <<sessions, starting, acct, stage, procs, idle, waiting, mode, exitWaits>>

Started == {a \in Accounts : sessions[a] # None}
Pending == {a \in Accounts : starting[a] # None}
Closing == {r \in Runs : stage[r] = "closing"}

TypeOK ==
  /\ sessions \in [Accounts -> Runs \union {None}]
  /\ starting \in [Accounts -> Runs \union {None}]
  /\ acct \in [Runs -> Accounts \union {None}]
  /\ stage \in [Runs -> Stages]
  /\ procs \in [Runs -> SUBSET Child]
  /\ idle \subseteq Runs
  /\ waiting \in [Callers -> Runs \union {None}]
  /\ mode \in {"up", "draining", "exited"}
  /\ exitWaits \subseteq SUBSET Runs

Init ==
  /\ sessions = [a \in Accounts |-> None]
  /\ starting = [a \in Accounts |-> None]
  /\ acct = [r \in Runs |-> None]
  /\ stage = [r \in Runs |-> "unused"]
  /\ procs = [r \in Runs |-> {}]
  /\ idle = {}
  /\ waiting = [c \in Callers |-> None]
  /\ mode = "up"
  /\ exitWaits = {}

-----------------------------------------------------------------------------
(* Plausible bugs, one for each property the runs check (see the mutants    *)
(* of PROJECT.json); no action uses them.                                   *)

LimitOffByOne == Cardinality(Started) <= MaxConcurrentSessions
NoStartingCheck(a) == sessions[a] = None
NoSessionCheck(a) == starting[a] = None
KeepsPromise(a) == UNCHANGED starting
ForgetsDisplay(r) == procs[r] \ {"chromium"}
ForgetsAfterClose(a) == UNCHANGED sessions
LosesWaiters(r) == UNCHANGED waiting
ReapsOnlyWhenFull(r) == r \in idle /\ Cardinality(Started) >= MaxConcurrentSessions
-----------------------------------------------------------------------------
(* start(accountId)                                                         *)

BelowLimit == Cardinality(Started) < MaxConcurrentSessions

FreeToStart(a) == sessions[a] = None /\ starting[a] = None

\* A session exists: touch it and answer at once.
StartExisting(a) ==
  /\ mode = "up"
  /\ sessions[a] # None
  /\ idle' = idle \ {sessions[a]}
  /\ UNCHANGED <<sessions, starting, acct, stage, procs, waiting, mode, exitWaits>>

\* A start is in flight: await the same promise.
StartJoin(c, a) ==
  /\ mode = "up" /\ waiting[c] = None
  /\ sessions[a] = None
  /\ starting[a] # None
  /\ waiting' = [waiting EXCEPT ![c] = starting[a]]
  /\ UNCHANGED <<sessions, starting, acct, stage, procs, idle, mode, exitWaits>>

\* Neither: below the limit of *completed* sessions a new run begins; at the
\* limit ConcurrencyLimitError is thrown, which changes nothing.
StartNew(c, a, r) ==
  /\ mode = "up" /\ waiting[c] = None
  /\ FreeToStart(a)
  /\ BelowLimit
  /\ Cardinality(Pending) < MaxInFlightStarts
  /\ stage[r] = "unused"
  /\ stage' = [stage EXCEPT ![r] = "volume"]
  /\ acct' = [acct EXCEPT ![r] = a]
  /\ starting' = [starting EXCEPT ![a] = r]
  /\ waiting' = [waiting EXCEPT ![c] = r]
  /\ UNCHANGED <<sessions, procs, idle, mode, exitWaits>>

-----------------------------------------------------------------------------
(* doStart: one action for each outcome of each await                       *)

Advance(r, from, to, alive) ==
  /\ stage[r] = from
  /\ stage' = [stage EXCEPT ![r] = to]
  /\ procs' = [procs EXCEPT ![r] = alive]
  /\ UNCHANGED <<sessions, starting, acct, idle, waiting, mode, exitWaits>>

Release(r) ==
  waiting' = [c \in Callers |-> IF waiting[c] = r THEN None ELSE waiting[c]]

\* The `.finally` of start().
ForgetStart(a) == starting' = [starting EXCEPT ![a] = None]

\* doStart rejects: the promise is forgotten and every caller gets the error;
\* what doStart did not stop stays alive.
Rejects(r, from, left) ==
  /\ stage[r] = from
  /\ stage' = [stage EXCEPT ![r] = "ended"]
  /\ procs' = [procs EXCEPT ![r] = left]
  /\ ForgetStart(acct[r])
  /\ Release(r)
  /\ UNCHANGED <<sessions, acct, idle, mode, exitWaits>>

\* The docker volume exists; allocate a display and spawn Xvfb.
VolumeReady(r) == Advance(r, "volume", "xvfb", {"xvfb"})
VolumeFails(r) == "volume" \in FailSteps /\ Rejects(r, "volume", {})

\* The X11 socket exists; Playwright spawns Chromium.
XvfbReady(r) == Advance(r, "xvfb", "launch", procs[r] \union {"chromium"})
XvfbFails(r) == \/ "xvfbExit" \in FailSteps /\ Rejects(r, "xvfb", {})
                \/ "xvfbTimeout" \in FailSteps /\ Rejects(r, "xvfb", procs[r])  \* not killed

\* The context has its first page at once, or newPage() is awaited.
LaunchDone(r) == \/ Advance(r, "launch", "page", procs[r])
                 \/ Advance(r, "launch", "vnc", procs[r] \union {"x11vnc"})
LaunchFails(r) == "launch" \in FailSteps /\ Rejects(r, "launch", {})

PageReady(r) == Advance(r, "page", "vnc", procs[r] \union {"x11vnc"})
PageFails(r) == "page" \in FailSteps /\ Rejects(r, "page", procs[r])  \* outside any try

VncReady(r) == Advance(r, "vnc", "websockify", procs[r] \union {"websockify"})
VncFails(r) ==
  \/ "vncExit" \in FailSteps /\ Advance(r, "vnc", "abort", procs[r] \ {"x11vnc"})
  \/ "vncTimeout" \in FailSteps /\ Advance(r, "vnc", "abort", procs[r])

WsFails(r) ==
  \/ "wsExit" \in FailSteps /\ Advance(r, "websockify", "abort", procs[r] \ {"websockify"})
  \/ "wsTimeout" \in FailSteps /\ Advance(r, "websockify", "abort", procs[r])

\* The catch of the VNC part: the browser is closed, then Xvfb stopped; x11vnc
\* and websockify are not.  If close() itself throws, Xvfb stays too.
AbortLeaves(r) == procs[r] \ {"chromium", "xvfb"}

Aborted(r) == Rejects(r, "abort", AbortLeaves(r))
AbortFails(r) == "abortClose" \in FailSteps /\ Rejects(r, "abort", procs[r])

\* websockify accepts connections: the session is registered, the promise
\* forgotten and every caller answered (one chain of microtasks).
WsReady(r) ==
  /\ stage[r] = "websockify"
  /\ stage' = [stage EXCEPT ![r] = "running"]
  /\ sessions' = [sessions EXCEPT ![acct[r]] = r]
  /\ ForgetStart(acct[r])
  /\ Release(r)
  /\ UNCHANGED <<acct, procs, idle, mode, exitWaits>>
-----------------------------------------------------------------------------
(* stop(accountId), the idle reaper, shutdown                               *)

Forget(a) == sessions' = [sessions EXCEPT ![a] = None]

\* The synchronous part of stop(): forget the session, begin closing it.  With
\* no session (stopped, or still starting) stop() changes nothing: a start in
\* flight goes on.
BeginStop(a) ==
  /\ sessions[a] # None
  /\ Forget(a)
  /\ stage' = [stage EXCEPT ![sessions[a]] = "closing"]
  /\ idle' = idle \ {sessions[a]}
  /\ UNCHANGED <<starting, acct, procs>>

StopCall(c, a) ==
  /\ mode = "up" /\ waiting[c] = None
  /\ BeginStop(a)
  /\ waiting' = [waiting EXCEPT ![c] = sessions[a]]
  /\ UNCHANGED <<mode, exitWaits>>

Expired(r) == r \in idle

Reap(a) ==
  /\ sessions[a] # None
  /\ Expired(sessions[a])
  /\ BeginStop(a)
  /\ UNCHANGED <<waiting, mode, exitWaits>>

\* context.close() settled (its failure is swallowed): the three other children
\* get SIGTERM and the callers of stop() are answered.
Closed(r) ==
  /\ stage[r] = "closing"
  /\ stage' = [stage EXCEPT ![r] = "ended"]
  /\ procs' = [procs EXCEPT ![r] = {}]
  /\ Release(r)
  /\ UNCHANGED <<sessions, starting, acct, idle, mode, exitWaits>>

\* SIGTERM or SIGINT, possibly again while draining: no new request is taken,
\* stopAll() stops the sessions of this moment and awaits those only.
Shutdown ==
  /\ mode # "exited"
  /\ mode' = "draining"
  /\ exitWaits' = exitWaits \union {{sessions[a] : a \in Started}}
  /\ stage' = [r \in Runs |-> IF \E a \in Started : sessions[a] = r
                              THEN "closing" ELSE stage[r]]
  /\ sessions' = [a \in Accounts |-> None]
  /\ idle' = {}
  /\ UNCHANGED <<starting, acct, procs, waiting>>

\* The process is gone, and its container with every child in it.
KillAll ==
  /\ mode' = "exited"
  /\ sessions' = [a \in Accounts |-> None]
  /\ starting' = [a \in Accounts |-> None]
  /\ stage' = [r \in Runs |-> IF stage[r] = "unused" THEN "unused" ELSE "ended"]
  /\ procs' = [r \in Runs |-> {}]
  /\ idle' = {}
  /\ waiting' = [c \in Callers |-> None]
  /\ exitWaits' = {}
  /\ UNCHANGED acct

\* process.exit(0) once one of the shutdown calls has nothing left to await.
Exit == /\ \E w \in exitWaits : w \intersect Closing = {}
        /\ KillAll

Crash == mode # "exited" /\ KillAll

\* The container is restarted (restart: unless-stopped).
Restart == /\ mode = "exited"
           /\ mode' = "up"
           /\ UNCHANGED <<sessions, starting, acct, stage, procs, idle, waiting, exitWaits>>
-----------------------------------------------------------------------------
(* The environment                                                          *)

\* Nobody calls start() for the account during the idle timeout.
GoIdle(r) == /\ stage[r] = "running"
             /\ idle' = idle \union {r}
             /\ UNCHANGED <<sessions, starting, acct, stage, procs, waiting, mode, exitWaits>>

\* A child of a running session dies: nothing in the code listens for it.
ChildDies(r, p) == /\ stage[r] = "running"
                   /\ p \in procs[r] \intersect Crashable
                   /\ procs' = [procs EXCEPT ![r] = @ \ {p}]
                   /\ UNCHANGED <<sessions, starting, acct, stage, idle, waiting, mode, exitWaits>>

StartStep(r) ==
  \/ VolumeReady(r) \/ VolumeFails(r)
  \/ XvfbReady(r) \/ XvfbFails(r)
  \/ LaunchDone(r) \/ LaunchFails(r)
  \/ PageReady(r) \/ PageFails(r)
  \/ VncReady(r) \/ VncFails(r)
  \/ WsReady(r) \/ WsFails(r)
  \/ Aborted(r) \/ AbortFails(r)

Next ==
  \/ \E a \in Accounts : StartExisting(a) \/ Reap(a)
  \/ \E c \in Callers, a \in Accounts : StartJoin(c, a) \/ StopCall(c, a)
  \/ \E c \in Callers, a \in Accounts, r \in Runs : StartNew(c, a, r)
  \/ \E r \in Runs : StartStep(r) \/ Closed(r) \/ GoIdle(r)
  \/ \E r \in Runs, p \in Child : ChildDies(r, p)
  \/ Shutdown \/ Exit \/ Crash \/ Restart

Spec == Init /\ [][Next]_vars

\* Every await settles (the readiness polls have a 5 s deadline, Playwright's
\* launch 30 s; docker and close() are assumed to return), the reaper's timer
\* keeps firing, and the event loop gets to process.exit().
Fairness == /\ \A r \in Runs : WF_vars(StartStep(r)) /\ WF_vars(Closed(r))
            /\ \A a \in Accounts : WF_vars(Reap(a))
            /\ WF_vars(Exit)
            /\ WF_vars(Restart)

FairSpec == Spec /\ Fairness
-----------------------------------------------------------------------------
(* Properties                                                               *)

\* The maps and the objects agree: a start in flight is the promise of its
\* account, a running session is the entry of its account, and the maps hold
\* nothing else, so no browser runs that stop() and the reaper cannot find.
RunsTracked ==
  /\ \A r \in Runs : stage[r] \in InFlight => acct[r] \in Accounts /\ starting[acct[r]] = r
  /\ \A r \in Runs : stage[r] = "running" => acct[r] \in Accounts /\ sessions[acct[r]] = r
  /\ \A a \in Pending : stage[starting[a]] \in InFlight /\ acct[starting[a]] = a
  /\ \A a \in Started : stage[sessions[a]] = "running" /\ acct[sessions[a]] = a

\* "One per Starlink account": of the runs of an account at most one is starting
\* or running, whatever requests, failures and stops interleave.
OneLivePerAccount ==
  \A r, s \in Runs :
    /\ stage[r] \in InFlight \union {"running"}
    /\ stage[s] \in InFlight \union {"running"}
    /\ acct[r] = acct[s]
    => r = s

\* maxConcurrentSessions is checked against completed sessions only, so K
\* overlapping starts overshoot it, but by no more than K - 1.
SessionsWithinOverlap ==
  Cardinality(Started) + Cardinality(Pending)
    <= IF MaxConcurrentSessions = 0 THEN 0
       ELSE MaxConcurrentSessions - 1 + MaxInFlightStarts

\* A session that start() or status() hands out has its four processes: it is
\* registered after the last became ready and forgotten before the first stops.
HandedOutIsServing == \A a \in Started : procs[sessions[a]] = Child

\* A run that ended, by a failed start or a stop, left no process behind.
NoOrphans == \A r \in Runs : stage[r] = "ended" => procs[r] = {}

\* Every request is answered: no start or stop waits forever on a promise.
CallsSettle == \A c \in Callers : waiting[c] # None ~> waiting[c] = None

\* A session nobody touches is given back: an idle session does not stay so.
IdleReaped == \A r \in Runs : r \in idle ~> r \notin idle

\* The worker implements the abstract session of each account.
Phase == [a \in Accounts |-> IF sessions[a] # None THEN "RUNNING"
                             ELSE IF starting[a] # None THEN "STARTING"
                             ELSE "STOPPED"]
Serving == [a \in Accounts |-> IF sessions[a] # None THEN sessions[a] ELSE starting[a]]

Abstract == INSTANCE AccountSession
              WITH phase <- Phase, run <- Serving,
                   used <- {r \in Runs : stage[r] # "unused"}

ImplementsAccountSession == Abstract!Spec
=============================================================================
