------------------------- MODULE SessionManagerProofs -------------------------
(***************************************************************************)
(* What holds of the browser-worker for every number of accounts, runs and *)
(* callers, every limit and every choice of failures.                      *)
(***************************************************************************)
EXTENDS SessionManager, TLAPS, FiniteSetTheorems

\* Whatever await of doStart settles, and however, the run moves on to another
\* await, is rejected, or is registered.
LEMMA StartStepKinds ==
  ASSUME TypeOK, NEW r \in Runs, StartStep(r)
  PROVE  \/ \E from, to \in InFlight, alive \in SUBSET Child : Advance(r, from, to, alive)
         \/ \E from \in InFlight, left \in SUBSET Child : Rejects(r, from, left)
         \/ WsReady(r)
<1>1. procs[r] \in SUBSET Child
  BY DEF TypeOK
<1> USE <1>1 DEF InFlight, Child
<1>2. CASE VolumeReady(r) \/ XvfbReady(r)
  BY <1>2 DEF VolumeReady, XvfbReady
<1>3. CASE LaunchDone(r) \/ PageReady(r) \/ VncReady(r)
  BY <1>3 DEF LaunchDone, PageReady, VncReady
<1>4. CASE VncFails(r) \/ WsFails(r)
  BY <1>4 DEF VncFails, WsFails
<1>5. CASE VolumeFails(r) \/ XvfbFails(r) \/ LaunchFails(r) \/ PageFails(r)
  BY <1>5 DEF VolumeFails, XvfbFails, LaunchFails, PageFails
<1>6. CASE Aborted(r) \/ AbortFails(r)
  BY <1>6 DEF Aborted, AbortLeaves, AbortFails
<1>7. QED
  BY <1>2, <1>3, <1>4, <1>5, <1>6 DEF StartStep

\* Every step keeps the variables in their types (Node's maps, handles, modes).
LEMMA TypedStep == TypeOK /\ [Next]_vars => TypeOK'
<1> SUFFICES ASSUME TypeOK, [Next]_vars PROVE TypeOK'
  OBVIOUS
<1> USE ConstantsAssumption DEF TypeOK, Stages, InFlight, Child
<1>1. ASSUME NEW a \in Accounts, StartExisting(a) PROVE TypeOK'
  BY <1>1 DEF StartExisting
<1>2. ASSUME NEW a \in Accounts, Reap(a) PROVE TypeOK'
  BY <1>2 DEF Reap, BeginStop, Forget
<1>3. ASSUME NEW c \in Callers, NEW a \in Accounts, StartJoin(c, a) PROVE TypeOK'
  BY <1>3 DEF StartJoin
<1>4. ASSUME NEW c \in Callers, NEW a \in Accounts, StopCall(c, a) PROVE TypeOK'
  BY <1>4 DEF StopCall, BeginStop, Forget
<1>5. ASSUME NEW c \in Callers, NEW a \in Accounts, NEW r \in Runs, StartNew(c, a, r)
      PROVE TypeOK'
  BY <1>5 DEF StartNew
<1>6. ASSUME NEW r \in Runs, StartStep(r) PROVE TypeOK'
  <2>1. ASSUME NEW from \in InFlight, NEW to \in InFlight, NEW alive \in SUBSET Child,
               Advance(r, from, to, alive)
        PROVE  TypeOK'
    BY <2>1 DEF Advance
  <2>2. ASSUME NEW from \in InFlight, NEW left \in SUBSET Child, Rejects(r, from, left)
        PROVE  TypeOK'
    BY <2>2 DEF Rejects, ForgetStart, Release
  <2>3. CASE WsReady(r)
    BY <2>3 DEF WsReady, ForgetStart, Release
  <2> HIDE DEF TypeOK, InFlight, Child
  <2>4. QED
    BY <1>6, <2>1, <2>2, <2>3, StartStepKinds
<1>7. ASSUME NEW r \in Runs, Closed(r) PROVE TypeOK'
  BY <1>7 DEF Closed, Release
<1>8. ASSUME NEW r \in Runs, GoIdle(r) PROVE TypeOK'
  BY <1>8 DEF GoIdle
<1>9. ASSUME NEW r \in Runs, NEW p \in Child, ChildDies(r, p) PROVE TypeOK'
  BY <1>9 DEF ChildDies
<1>10. ASSUME Shutdown PROVE TypeOK'
  BY <1>10 DEF Shutdown, Started
<1>11. ASSUME KillAll PROVE TypeOK'
  BY <1>11 DEF KillAll
<1>12. ASSUME Restart PROVE TypeOK'
  BY <1>12 DEF Restart
<1>13. ASSUME UNCHANGED vars PROVE TypeOK'
  BY <1>13 DEF vars
<1> HIDE DEF TypeOK
<1>14. QED
  BY <1>1, <1>2, <1>3, <1>4, <1>5, <1>6, <1>7, <1>8, <1>9, <1>10, <1>11, <1>12, <1>13
     DEF Next, Exit, Crash

\* The worker's maps, stages and process sets keep their types in every behaviour.
THEOREM Typed == Spec => []TypeOK
<1>1. Init => TypeOK
  BY ConstantsAssumption DEF Init, TypeOK, Stages
<1>2. QED
  BY <1>1, TypedStep, PTL DEF Spec

-----------------------------------------------------------------------------
(* The maps track the runs                                                  *)

\* No account is both starting and running.
MapsDisjoint == \A a \in Accounts : sessions[a] = None \/ starting[a] = None

\* The inductive invariant: a promise forgotten by the run of another account,
\* or an account in both maps, would break RunsTracked one step later.
Tracking == TypeOK /\ RunsTracked /\ MapsDisjoint

LEMMA TrackingStep == Tracking /\ [Next]_vars => (RunsTracked /\ MapsDisjoint)'
<1> DEFINE Kept == (RunsTracked /\ MapsDisjoint)'
<1> SUFFICES ASSUME Tracking, [Next]_vars PROVE Kept
  OBVIOUS
<1> USE ConstantsAssumption
    DEF Tracking, TypeOK, RunsTracked, MapsDisjoint, Started, Pending, InFlight
<1>1. ASSUME NEW a \in Accounts, StartExisting(a) PROVE Kept
  BY <1>1 DEF StartExisting
<1>2. ASSUME NEW a \in Accounts, BeginStop(a) PROVE Kept
  BY <1>2 DEF BeginStop, Forget
<1>3. ASSUME NEW c \in Callers, NEW a \in Accounts, StartJoin(c, a) PROVE Kept
  BY <1>3 DEF StartJoin
<1>4. ASSUME NEW c \in Callers, NEW a \in Accounts, NEW r \in Runs, StartNew(c, a, r)
      PROVE Kept
  BY <1>4 DEF StartNew, FreeToStart
<1>5. ASSUME NEW r \in Runs, StartStep(r) PROVE Kept
  <2>1. ASSUME NEW from \in InFlight, NEW to \in InFlight, NEW alive \in SUBSET Child,
               Advance(r, from, to, alive)
        PROVE  Kept
    BY <2>1 DEF Advance
  <2>2. ASSUME NEW from \in InFlight, NEW left \in SUBSET Child, Rejects(r, from, left)
        PROVE  Kept
    BY <2>2 DEF Rejects, ForgetStart
  <2>3. CASE WsReady(r)
    BY <2>3 DEF WsReady, ForgetStart
  <2> HIDE DEF Kept, TypeOK, RunsTracked, MapsDisjoint, InFlight
  <2>4. QED
    BY <1>5, <2>1, <2>2, <2>3, StartStepKinds
<1>6. ASSUME NEW r \in Runs, Closed(r) PROVE Kept
  BY <1>6 DEF Closed
<1>7. ASSUME NEW r \in Runs, GoIdle(r) PROVE Kept
  BY <1>7 DEF GoIdle
<1>8. ASSUME NEW r \in Runs, NEW p \in Child, ChildDies(r, p) PROVE Kept
  BY <1>8 DEF ChildDies
<1>9. ASSUME Shutdown PROVE Kept
  BY <1>9 DEF Shutdown
<1>10. ASSUME KillAll PROVE Kept
  BY <1>10 DEF KillAll
<1>11. ASSUME Restart PROVE Kept
  BY <1>11 DEF Restart
<1>12. ASSUME UNCHANGED vars PROVE Kept
  BY <1>12 DEF vars
<1> HIDE DEF Kept, Tracking, TypeOK, RunsTracked, MapsDisjoint
<1>13. QED
  BY <1>1, <1>2, <1>3, <1>4, <1>5, <1>6, <1>7, <1>8, <1>9, <1>10, <1>11, <1>12
     DEF Next, Reap, StopCall, Exit, Crash

LEMMA TrackingInit == Init => Tracking
BY ConstantsAssumption DEF Init, Tracking, TypeOK, RunsTracked, MapsDisjoint, Started,
                           Pending, Stages, InFlight

LEMMA AlwaysTracking == Spec => []Tracking
<1>1. Tracking /\ [Next]_vars => Tracking'
  BY TypedStep, TrackingStep DEF Tracking
<1>2. QED
  BY <1>1, TrackingInit, PTL DEF Spec

\* In every behaviour the maps of SessionManager hold exactly the runs that are
\* starting or running, each under its own account.
THEOREM Tracked == Spec => []RunsTracked
BY AlwaysTracking, PTL DEF Tracking

\* In every behaviour at most one run of an account is starting or running.
THEOREM OneLive == Spec => []OneLivePerAccount
<1>1. Tracking => OneLivePerAccount
  <2> SUFFICES ASSUME Tracking, NEW r \in Runs, NEW s \in Runs,
                      stage[r] \in InFlight \union {"running"},
                      stage[s] \in InFlight \union {"running"},
                      acct[r] = acct[s]
               PROVE  r = s
    BY DEF OneLivePerAccount
  <2>1. acct[r] \in Accounts
    BY DEF Tracking, RunsTracked
  <2>2. QED
    BY <2>1, ConstantsAssumption DEF Tracking, RunsTracked, MapsDisjoint
<1>2. QED
  BY <1>1, AlwaysTracking, PTL
-----------------------------------------------------------------------------
(* The concurrency limit                                                    *)

\* The sets of accounts whose cardinality start() compares with the limit.
LEMMA MapsFinite ==
  /\ IsFiniteSet(Started) /\ Cardinality(Started) \in Nat
  /\ IsFiniteSet(Pending) /\ Cardinality(Pending) \in Nat
BY ConstantsAssumption, FS_Subset, FS_CardinalityType DEF Started, Pending

\* Every way Started and Pending can change respects the bound.
LEMMA OverlapStep ==
  Tracking /\ SessionsWithinOverlap /\ [Next]_vars => SessionsWithinOverlap'
<1> SUFFICES ASSUME Tracking, SessionsWithinOverlap, [Next]_vars
             PROVE  SessionsWithinOverlap'
  OBVIOUS
<1> USE ConstantsAssumption DEF SessionsWithinOverlap
<1>1. /\ IsFiniteSet(Started') /\ Cardinality(Started') \in Nat
      /\ IsFiniteSet(Pending') /\ Cardinality(Pending') \in Nat
  BY FS_Subset, FS_CardinalityType DEF Started, Pending
<1>2. ASSUME Started' = Started, Pending' = Pending PROVE SessionsWithinOverlap'
  BY <1>2
<1>3. ASSUME Started' \subseteq Started, Pending' \subseteq Pending
      PROVE  SessionsWithinOverlap'
  BY <1>1, <1>3, MapsFinite, FS_Subset
<1>4. ASSUME NEW c \in Callers, NEW a \in Accounts, NEW r \in Runs, StartNew(c, a, r)
      PROVE  SessionsWithinOverlap'
  <2>1. Started' = Started /\ Pending' = Pending \union {a} /\ a \notin Pending
    BY <1>4 DEF StartNew, FreeToStart, Started, Pending, Tracking, TypeOK
  <2>2. Cardinality(Pending') = Cardinality(Pending) + 1
    BY <2>1, MapsFinite, FS_AddElement
  <2>3. /\ Cardinality(Started) < MaxConcurrentSessions
        /\ Cardinality(Pending) < MaxInFlightStarts
    BY <1>4 DEF StartNew, BelowLimit
  <2>4. QED
    BY <2>1, <2>2, <2>3, MapsFinite
<1>5. ASSUME NEW r \in Runs, WsReady(r) PROVE SessionsWithinOverlap'
  <2> DEFINE a == acct[r]
  <2>1. a \in Accounts /\ starting[a] = r /\ sessions[a] = None
    BY <1>5 DEF WsReady, InFlight, Tracking, TypeOK, RunsTracked, MapsDisjoint
  <2>2. /\ Started' = Started \union {a} /\ a \notin Started
        /\ Pending' = Pending \ {a} /\ a \in Pending
    BY <1>5, <2>1 DEF WsReady, ForgetStart, Started, Pending, Tracking, TypeOK
  <2>3. /\ Cardinality(Started') = Cardinality(Started) + 1
        /\ Cardinality(Pending') = Cardinality(Pending) - 1
    BY <2>2, MapsFinite, FS_AddElement, FS_RemoveElement
  <2>4. QED
    BY <2>3, MapsFinite
<1>6. ASSUME NEW r \in Runs, StartStep(r) PROVE SessionsWithinOverlap'
  <2>1. ASSUME NEW from, NEW to, NEW alive, Advance(r, from, to, alive)
        PROVE  SessionsWithinOverlap'
    BY <1>2, <2>1 DEF Advance, Started, Pending
  <2>2. ASSUME NEW from, NEW left, Rejects(r, from, left)
        PROVE  SessionsWithinOverlap'
    <3>1. Started' \subseteq Started /\ Pending' \subseteq Pending
      BY <2>2 DEF Rejects, ForgetStart, Started, Pending, Tracking, TypeOK
    <3>2. QED
      BY <1>3, <3>1
  <2> HIDE DEF SessionsWithinOverlap
  <2>3. QED
    BY <1>5, <1>6, <2>1, <2>2, StartStepKinds DEF Tracking
<1>7. ASSUME NEW a \in Accounts, BeginStop(a) PROVE SessionsWithinOverlap'
  <2>1. Started' \subseteq Started /\ Pending' \subseteq Pending
    BY <1>7 DEF BeginStop, Forget, Started, Pending, Tracking, TypeOK
  <2>2. QED
    BY <1>3, <2>1
<1>8. ASSUME Shutdown \/ KillAll PROVE SessionsWithinOverlap'
  <2>1. Started' \subseteq Started /\ Pending' \subseteq Pending
    BY <1>8 DEF Shutdown, KillAll, Started, Pending, Tracking, TypeOK
  <2>2. QED
    BY <1>3, <2>1
<1>9. ASSUME UNCHANGED <<sessions, starting>> PROVE SessionsWithinOverlap'
  BY <1>2, <1>9 DEF Started, Pending
<1> HIDE DEF SessionsWithinOverlap
<1>10. QED
  BY <1>4, <1>6, <1>7, <1>8, <1>9
     DEF Next, vars, StartExisting, StartJoin, StopCall, Reap, Closed, GoIdle, ChildDies,
         Restart, Exit, Crash

\* The limit of start() is overshot by at most one session for each start that
\* overlaps another: exact when starts do not overlap (MaxInFlightStarts = 1).
THEOREM WithinOverlap == Spec => []SessionsWithinOverlap
<1>1. Init => SessionsWithinOverlap
  <2> SUFFICES ASSUME Init PROVE SessionsWithinOverlap
    OBVIOUS
  <2>1. Started = {} /\ Pending = {}
    BY DEF Init, Started, Pending
  <2>2. QED
    BY <2>1, FS_EmptySet, ConstantsAssumption DEF SessionsWithinOverlap
<1>2. QED
  BY <1>1, AlwaysTracking, OverlapStep, PTL DEF Spec
-----------------------------------------------------------------------------
(* The worker implements AccountSession                                     *)

UsedRuns == {r \in Runs : stage[r] # "unused"}

\* A step of the worker begins, readies or ends abstract sessions, or none.
LEMMA RefinementStep == Tracking /\ Tracking' /\ [Next]_vars => [Abstract!Next]_(Abstract!vars)
<1> SUFFICES ASSUME Tracking, Tracking', [Next]_vars
             PROVE  Abstract!Next \/ UNCHANGED <<Phase, Serving, UsedRuns>>
  BY DEF Abstract!vars, UsedRuns
<1> USE ConstantsAssumption DEF Tracking, TypeOK
<1>1. ASSUME NEW S \in SUBSET Accounts, UsedRuns' = UsedRuns,
             \A a \in S : sessions'[a] = None /\ starting'[a] = None,
             \A a \in Accounts \ S : sessions'[a] = sessions[a] /\ starting'[a] = starting[a]
      PROVE  Abstract!Next
  <2>1. Phase' = [a \in Accounts |-> IF a \in S THEN "STOPPED" ELSE Phase[a]]
    BY <1>1 DEF Phase
  <2>2. Serving' = [a \in Accounts |-> IF a \in S THEN None ELSE Serving[a]]
    BY <1>1 DEF Serving
  <2>3. Abstract!End(S)
    BY <1>1, <2>1, <2>2 DEF Abstract!End, UsedRuns
  <2>4. QED
    BY <2>3 DEF Abstract!Next
<1>2. ASSUME UNCHANGED <<sessions, starting>>, UsedRuns' = UsedRuns
      PROVE  UNCHANGED <<Phase, Serving, UsedRuns>>
  BY <1>2 DEF Phase, Serving
<1>3. ASSUME NEW c \in Callers, NEW a \in Accounts, NEW r \in Runs, StartNew(c, a, r)
      PROVE  Abstract!Next
  <2>1. UsedRuns' = UsedRuns \union {r} /\ r \notin UsedRuns
    BY <1>3 DEF StartNew, UsedRuns
  <2>2. /\ sessions' = sessions /\ sessions[a] = None /\ starting[a] = None
        /\ starting' = [starting EXCEPT ![a] = r] /\ r # None
    BY <1>3 DEF StartNew, FreeToStart
  <2>3. Phase[a] = "STOPPED" /\ Phase' = [Phase EXCEPT ![a] = "STARTING"]
    BY <2>2 DEF Phase
  <2>4. Serving' = [Serving EXCEPT ![a] = r]
    BY <2>2 DEF Serving
  <2>5. Abstract!Begin(a, r)
    BY <2>1, <2>3, <2>4 DEF Abstract!Begin, UsedRuns
  <2>6. QED
    BY <2>5 DEF Abstract!Next
<1>4. ASSUME NEW r \in Runs, WsReady(r) PROVE Abstract!Next
  <2>1. acct[r] \in Accounts /\ starting[acct[r]] = r /\ sessions[acct[r]] = None
    BY <1>4 DEF WsReady, InFlight, RunsTracked, MapsDisjoint
  <2>2. UsedRuns' = UsedRuns
    BY <1>4 DEF WsReady, UsedRuns
  <2>3. Phase[acct[r]] = "STARTING" /\ Phase' = [Phase EXCEPT ![acct[r]] = "RUNNING"]
    BY <1>4, <2>1 DEF WsReady, ForgetStart, Phase
  <2>4. Serving' = Serving
    BY <1>4, <2>1 DEF WsReady, ForgetStart, Serving
  <2>5. Abstract!Ready(acct[r])
    BY <2>2, <2>3, <2>4 DEF Abstract!Ready, UsedRuns
  <2>6. QED
    BY <2>1, <2>5 DEF Abstract!Next
<1>5. ASSUME NEW r \in Runs, StartStep(r)
      PROVE  Abstract!Next \/ UNCHANGED <<Phase, Serving, UsedRuns>>
  <2>1. ASSUME NEW from \in InFlight, NEW to \in InFlight, NEW alive,
               Advance(r, from, to, alive)
        PROVE  UNCHANGED <<Phase, Serving, UsedRuns>>
    <3>1. UsedRuns' = UsedRuns
      BY <2>1 DEF Advance, UsedRuns, InFlight
    <3>2. QED
      BY <1>2, <2>1, <3>1 DEF Advance
  <2>2. ASSUME NEW from \in InFlight, NEW left, Rejects(r, from, left)
        PROVE  Abstract!Next
    <3>1. acct[r] \in Accounts /\ starting[acct[r]] = r /\ sessions[acct[r]] = None
      BY <2>2 DEF Rejects, RunsTracked, MapsDisjoint
    <3>2. UsedRuns' = UsedRuns
      BY <2>2 DEF Rejects, UsedRuns, InFlight
    <3>3. {acct[r]} \in SUBSET Accounts
      BY <3>1
    <3>4. /\ sessions' = sessions /\ starting'[acct[r]] = None
          /\ \A a \in Accounts \ {acct[r]} : starting'[a] = starting[a]
      BY <2>2, <3>1 DEF Rejects, ForgetStart
    <3>5. QED
      BY <1>1, <3>1, <3>2, <3>3, <3>4
  <2> HIDE DEF Tracking
  <2>3. QED
    BY <1>4, <1>5, <2>1, <2>2, StartStepKinds DEF Tracking
<1>6. ASSUME NEW a \in Accounts, BeginStop(a) PROVE Abstract!Next
  <2>1. starting[a] = None /\ stage[sessions[a]] = "running"
    BY <1>6 DEF BeginStop, RunsTracked, MapsDisjoint, Started
  <2>2. UsedRuns' = UsedRuns
    BY <1>6, <2>1 DEF BeginStop, UsedRuns
  <2>3. {a} \in SUBSET Accounts
    OBVIOUS
  <2>4. /\ starting' = starting /\ sessions'[a] = None
        /\ \A b \in Accounts \ {a} : sessions'[b] = sessions[b]
    BY <1>6 DEF BeginStop, Forget
  <2>5. QED
    BY <1>1, <2>1, <2>2, <2>3, <2>4
<1>7. ASSUME Shutdown PROVE Abstract!Next
  <2>1. UsedRuns' = UsedRuns
    BY <1>7 DEF Shutdown, UsedRuns, RunsTracked, Started
  <2>2. \A a \in Started : starting[a] = None
    BY DEF Started, MapsDisjoint
  <2>3. Started \in SUBSET Accounts
    BY DEF Started
  <2>4. /\ \A a \in Started : sessions'[a] = None /\ starting'[a] = None
        /\ \A a \in Accounts \ Started : sessions'[a] = sessions[a] /\ starting'[a] = starting[a]
    BY <1>7, <2>2 DEF Shutdown, Started
  <2>5. QED
    BY <1>1, <2>1, <2>3, <2>4
<1>8. ASSUME KillAll PROVE Abstract!Next
  <2>1. UsedRuns' = UsedRuns
    BY <1>8 DEF KillAll, UsedRuns
  <2>2. QED
    BY <1>1, <1>8, <2>1 DEF KillAll
<1>9. ASSUME NEW r \in Runs, Closed(r) PROVE UNCHANGED <<Phase, Serving, UsedRuns>>
  <2>1. UsedRuns' = UsedRuns
    BY <1>9 DEF Closed, UsedRuns
  <2>2. QED
    BY <1>2, <1>9, <2>1 DEF Closed
<1>10. ASSUME UNCHANGED <<sessions, starting, stage>>
       PROVE  UNCHANGED <<Phase, Serving, UsedRuns>>
  BY <1>2, <1>10 DEF UsedRuns
<1> HIDE DEF Tracking, TypeOK
<1>11. QED
  BY <1>3, <1>5, <1>6, <1>7, <1>8, <1>9, <1>10
     DEF Next, vars, StartExisting, StartJoin, StopCall, Reap, GoIdle, ChildDies,
         Restart, Exit, Crash

\* The worker implements the abstract session of every account: one incarnation
\* at a time, the one served being the one that was starting, none served twice.
THEOREM Implements == Spec => ImplementsAccountSession
<1>1. Init => Abstract!Init
  BY DEF Init, Abstract!Init, Phase, Serving
<1>2. QED
  BY <1>1, AlwaysTracking, RefinementStep, PTL DEF Spec, ImplementsAccountSession, Abstract!Spec
-----------------------------------------------------------------------------
(* The children of a run                                                    *)

Display == {"xvfb"}
Browser == Display \union {"chromium"}
Viewed  == Browser \union {"x11vnc"}

\* The children doStart has spawned by each of its awaits, none of which dies
\* while it is in flight without failing it.
Staged ==
  \A r \in Runs :
    /\ stage[r] \in {"unused", "volume"} => procs[r] = {}
    /\ stage[r] = "xvfb" => procs[r] = Display
    /\ stage[r] \in {"launch", "page"} => procs[r] = Browser
    /\ stage[r] = "vnc" => procs[r] = Viewed
    /\ stage[r] = "websockify" => procs[r] = Child

\* Every run that is registered has its four children.
Served == \A r \in Runs : stage[r] = "running" => procs[r] = Child

\* A start being undone has its display and browser left, and nothing after.
Undone ==
  \A r \in Runs :
    /\ stage[r] = "abort" => procs[r] = Browser
    /\ stage[r] = "ended" => procs[r] = {}

\* The failures after which doStart leaves nothing behind.
CleanFailure == {"volume", "xvfbExit", "launch", "vncExit"}

\* What a step of doStart does to the children of its run.
LEMMA StartStepChildren ==
  ASSUME TypeOK, Staged, NEW r \in Runs, StartStep(r)
  PROVE  /\ Staged'
         /\ Served => Served'
         /\ FailSteps \subseteq CleanFailure /\ Undone => Undone'
<1> USE DEF TypeOK, Staged, Served, Undone, Display, Browser, Viewed, Child, CleanFailure
<1>1. CASE VolumeReady(r) \/ VolumeFails(r)
  BY <1>1 DEF VolumeReady, VolumeFails, Advance, Rejects
<1>2. CASE XvfbReady(r) \/ XvfbFails(r)
  BY <1>2 DEF XvfbReady, XvfbFails, Advance, Rejects
<1>3. CASE LaunchDone(r) \/ LaunchFails(r)
  BY <1>3 DEF LaunchDone, LaunchFails, Advance, Rejects
<1>4. CASE PageReady(r) \/ PageFails(r)
  BY <1>4 DEF PageReady, PageFails, Advance, Rejects
<1>5. CASE VncReady(r) \/ VncFails(r)
  BY <1>5 DEF VncReady, VncFails, Advance
<1>6. CASE WsReady(r) \/ WsFails(r)
  BY <1>6 DEF WsReady, WsFails, Advance
<1>7. CASE Aborted(r) \/ AbortFails(r)
  BY <1>7 DEF Aborted, AbortLeaves, AbortFails, Rejects
<1> HIDE DEF Staged, Served, Undone, TypeOK
<1>8. QED
  BY <1>1, <1>2, <1>3, <1>4, <1>5, <1>6, <1>7 DEF StartStep

\* The other steps spawn nothing and stop the children of a closing run only.
LEMMA ChildrenStep ==
  Tracking /\ Staged /\ [Next]_vars
  => /\ Staged'
     /\ Crashable = {} /\ Served => Served'
     /\ FailSteps \subseteq CleanFailure /\ Undone => Undone'
<1> DEFINE Kept == /\ Staged'
                   /\ Crashable = {} /\ Served => Served'
                   /\ FailSteps \subseteq CleanFailure /\ Undone => Undone'
<1> SUFFICES ASSUME Tracking, Staged, [Next]_vars PROVE Kept
  OBVIOUS
<1>0. TypeOK /\ RunsTracked
  BY DEF Tracking
<1> USE <1>0 DEF TypeOK, Staged, Served, Undone
<1>1. ASSUME UNCHANGED <<stage, procs>> PROVE Kept
  BY <1>1
<1>2. ASSUME NEW a \in Accounts, BeginStop(a) PROVE Kept
  <2>1. sessions[a] \in Runs /\ stage[sessions[a]] = "running"
    BY <1>2 DEF BeginStop, RunsTracked, Started
  <2>2. QED
    BY <1>2, <2>1 DEF BeginStop
<1>3. ASSUME NEW c \in Callers, NEW a \in Accounts, NEW r \in Runs, StartNew(c, a, r)
      PROVE Kept
  BY <1>3 DEF StartNew
<1>4. ASSUME NEW r \in Runs, StartStep(r) PROVE Kept
  <2> HIDE DEF TypeOK, Staged, Served, Undone
  <2>1. QED
    BY <1>4, StartStepChildren
<1>5. ASSUME NEW r \in Runs, Closed(r) PROVE Kept
  BY <1>5 DEF Closed
<1>6. ASSUME NEW r \in Runs, NEW p \in Child, ChildDies(r, p) PROVE Kept
  BY <1>6 DEF ChildDies
<1>7. ASSUME Shutdown PROVE Kept
  <2>1. \A r \in Runs : (\E a \in Started : sessions[a] = r) => stage[r] = "running"
    BY DEF RunsTracked
  <2>2. QED
    BY <1>7, <2>1 DEF Shutdown
<1>8. ASSUME KillAll PROVE Kept
  BY <1>8 DEF KillAll
<1> HIDE DEF Kept, TypeOK, Staged, Served, Undone
<1>9. QED
  BY <1>1, <1>2, <1>3, <1>4, <1>5, <1>6, <1>7, <1>8
     DEF Next, vars, StartExisting, StartJoin, StopCall, Reap, GoIdle, Restart, Exit, Crash

LEMMA ChildrenInit == Init => Staged /\ Served /\ Undone
BY DEF Init, Staged, Served, Undone

\* As long as no child dies by itself, a session that start() or status() hands
\* out has its four processes, whatever starts fail and stops interleave.
THEOREM Serves == Crashable = {} => (Spec => []HandedOutIsServing)
<1>1. Tracking /\ Served => HandedOutIsServing
  BY DEF Tracking, TypeOK, RunsTracked, Started, Served, HandedOutIsServing
<1>2. CASE Crashable = {}
  <2>1. Tracking /\ Staged /\ Served /\ [Next]_vars => Staged' /\ Served'
    BY <1>2, ChildrenStep
  <2>2. QED
    BY <1>1, <2>1, ChildrenInit, AlwaysTracking, PTL DEF Spec
<1>3. QED
  BY <1>2

\* If starts fail only in the ways doStart undoes, no run that ended left a
\* process behind, whatever children die and requests interleave.
THEOREM LeavesNothing == FailSteps \subseteq CleanFailure => (Spec => []NoOrphans)
<1>1. Undone => NoOrphans
  BY DEF Undone, NoOrphans
<1>2. CASE FailSteps \subseteq CleanFailure
  <2>1. Tracking /\ Staged /\ Undone /\ [Next]_vars => Staged' /\ Undone'
    BY <1>2, ChildrenStep
  <2>2. QED
    BY <1>1, <2>1, ChildrenInit, AlwaysTracking, PTL DEF Spec
<1>3. QED
  BY <1>2
=============================================================================
