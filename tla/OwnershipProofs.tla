---------------------------- MODULE OwnershipProofs ---------------------------
(***************************************************************************)
(* Nobody gets what belongs to somebody else.  First the screens: what a   *)
(* page shows and whose screen it gets, for any number of pages, effects,  *)
(* accounts and ports (VncPath).  Then the rows: which customers and       *)
(* accounts a request is told and changes, for any number of users and     *)
(* requests (AccountRecords).                                              *)
(***************************************************************************)
EXTENDS VncPath, AccountRecords, Integers, Sequences, TLAPS

USE DEF phoneVars, apiVars, workerVars, wireVars

\* The effect of a page is its own; an effect that ran has a page and an account.
Owned ==
  /\ \A v \in Viewers : cur[v] # None => view[cur[v]] = v /\ step[cur[v]] # "unused"
  /\ \A e \in Effects : step[e] # "unused" => view[e] \in Viewers /\ acct[e] \in Accounts

\* A page that closed a socket has left the effect behind, and no picture is left of it.
ClosedLeft ==
  \A e \in closed : Cancelled(e) /\ step[e] \notin {"unused", "connected", "broken"}
\* A session's port is that of its own websockify, and a port about to be dialled is
\* that of the effect's account unless it was given up.
PortsKept ==
  /\ \A a \in Accounts : session[a] # None => listens[session[a]] = a
  /\ \A e \in Effects : step[e] = "dialing" =>
       dial[e] \in Ports /\ (listens[dial[e]] = acct[e] \/ e \in overtaken)

Screens == PortsKept /\ SeesOwnAccount
Pages == Owned /\ ClosedLeft /\ NoLeakedViewer /\ ShownIsCurrent

IInv == TypeOK /\ Pages /\ Screens
-----------------------------------------------------------------------------
\* What a page shows of an effect.
Shows(s) == CASE s \in Opening -> "loading"
              [] s \in Proxied \union {"import"} -> "connecting"
              [] s \in {"connected", "broken"} -> "connected"
              [] OTHER -> "error"

\* One effect goes on to its next await, and its page shows it unless it was cleaned up.
Moved(e, s) ==
  /\ step[e] # "unused" /\ s \in Steps \ {"unused"}
  /\ step' = [step EXCEPT ![e] = s]
  /\ UNCHANGED <<cur, view, acct, closed>>
  /\ IF Cancelled(e)
       THEN shown' = shown /\ (s \in HasSocket => e \in closed /\ s \in Proxied)
       ELSE shown' = [shown EXCEPT ![view[e]] = Shows(s)]

LEMMA MovedKeeps ==
  ASSUME IInv, NEW e \in Effects, NEW s, Moved(e, s)
  PROVE  /\ Pages'
         /\ cur' \in [Viewers -> Effects \union {None}]
         /\ shown' \in [Viewers -> {"none", "loading", "connecting", "connected", "error"}]
         /\ step' \in [Effects -> Steps]
         /\ view' \in [Effects -> Viewers \union {None}]
         /\ acct' \in [Effects -> Accounts \union {None}]
<1> USE PathAssumption DEF IInv, TypeOK, Pages, Moved, Cancelled
<1>1. view[e] \in Viewers
  BY DEF Owned
<1>2. Owned'
  BY DEF Owned
<1>3. ClosedLeft' /\ NoLeakedViewer'
  BY DEF ClosedLeft, NoLeakedViewer, HasSocket, Proxied
<1>4. ShownIsCurrent'
  <2> SUFFICES ASSUME NEW v \in Viewers, cur[v] # None PROVE shown'[v] = Shows(step'[cur[v]])
    BY DEF ShownIsCurrent, Shows
  <2>1. view[cur[v]] = v /\ shown[v] = Shows(step[cur[v]]) /\ cur[v] \in Effects
    BY DEF Owned, ShownIsCurrent, Shows
  <2>2. CASE cur[v] = e
    BY <1>1, <2>1, <2>2
  <2>3. CASE cur[v] # e
    BY <1>1, <2>1, <2>3
  <2>4. QED
    BY <2>2, <2>3
<1>5. shown' \in [Viewers -> {"none", "loading", "connecting", "connected", "error"}]
  BY <1>1 DEF Shows
<1>6. QED
  BY <1>2, <1>3, <1>4, <1>5

\* The screens depend on the effects that dial or are connected only.
LEMMA ScreensKept ==
  ASSUME IInv, NEW e \in Effects, NEW s \in Steps \ {"dialing", "connected", "broken"},
         step' = [step EXCEPT ![e] = s],
         UNCHANGED <<acct, session, listens, dial, sees, closed, overtaken>>
  PROVE  Screens'
BY DEF IInv, TypeOK, Screens, PortsKept, SeesOwnAccount

\* The error of an effect, and its end when it was cleaned up.
LEMMA ErrsMoves ==
  ASSUME IInv, NEW e \in Effects, step[e] # "unused", Errs(e), UNCHANGED <<cur, view, acct, closed>>
  PROVE  \E s \in {"gone", "failed"} : Moved(e, s)
BY DEF Errs, To, Sets, Moved, Shows, HasSocket, Steps, Opening, Proxied
-----------------------------------------------------------------------------
LEMMA InitIInv == Init => IInv
BY PathAssumption DEF Init, IInv, TypeOK, Pages, ClosedLeft, Screens, Owned, PortsKept, NoLeakedViewer,
   ShownIsCurrent, SeesOwnAccount, HasSocket, Steps, Opening, Proxied

LEMMA MountKeeps ==
  ASSUME IInv, NEW v \in Viewers, NEW e \in Effects, NEW a \in Accounts, Mount(v, e, a)
  PROVE  IInv'
<1> USE PathAssumption DEF IInv, TypeOK, Mount
<1>1. /\ CleanedUp(v) \subseteq Effects \intersect {cur[v]}
      /\ closed' = closed \union CleanedUp(v)
  BY DEF CleanedUp
<1>2. /\ step' \in [Effects -> Steps]
      /\ step'[e] = "opening" /\ step[e] = "unused" /\ e \notin closed'
      /\ \A x \in Effects \ {e} : step'[x] = Hangs(x, CleanedUp(v))
  BY <1>1 DEF Steps, Opening, Hangs, CleanedUp, HasSocket, Proxied, Pages, ClosedLeft
<1>3. TypeOK'
  BY <1>1, <1>2
<1>4. Owned'
  BY <1>1, <1>2 DEF Pages, Owned, Hangs
<1>5. ClosedLeft' /\ NoLeakedViewer'
  <2>1. \A x \in closed : x # e /\ Cancelled(x)'
    BY <1>2 DEF Pages, Owned, ClosedLeft, Cancelled
  <2>2. \A x \in CleanedUp(v) : x = cur[v] /\ step[x] \in HasSocket /\ Cancelled(x)'
    BY <1>2 DEF Pages, Owned, CleanedUp, HasSocket, Proxied, Cancelled
  <2>3. ClosedLeft'
    BY <1>1, <1>2, <2>1, <2>2 DEF Pages, ClosedLeft, Hangs, HasSocket, Proxied
  <2>4. \A x \in Effects \ {e} :
          step'[x] \in HasSocket /\ Cancelled(x)' => x \in closed' /\ step'[x] \in Proxied
    BY <1>1, <1>2 DEF Pages, Owned, NoLeakedViewer, Cancelled, HasSocket, Proxied, Hangs, CleanedUp
  <2>5. NoLeakedViewer'
    BY <1>2, <2>4 DEF NoLeakedViewer, Cancelled, HasSocket, Proxied
  <2>6. QED
    BY <2>3, <2>5
<1>6. ShownIsCurrent'
  <2> SUFFICES ASSUME NEW w \in Viewers, cur'[w] # None PROVE shown'[w] = Shows(step'[cur'[w]])
    BY DEF ShownIsCurrent, Shows
  <2>1. CASE w = v
    BY <1>2, <2>1 DEF Shows, Opening, Proxied
  <2>2. CASE w # v
    <3>1. cur'[w] = cur[w] /\ cur[w] \in Effects /\ cur[w] # cur[v] /\ cur[w] # e
      BY <1>2, <2>2 DEF Pages, Owned
    <3>2. shown'[w] = shown[w] /\ shown[w] = Shows(step[cur[w]])
      BY <2>2, <3>1 DEF Pages, ShownIsCurrent, Shows
    <3>3. step'[cur[w]] = step[cur[w]]
      BY <1>1, <1>2, <3>1 DEF Hangs
    <3>4. QED
      BY <3>1, <3>2, <3>3
  <2>3. QED
    BY <2>1, <2>2
<1>7. Screens'
  BY <1>1, <1>2 DEF Hangs, Screens, PortsKept, SeesOwnAccount
<1>8. QED
  BY <1>3, <1>4, <1>5, <1>6, <1>7 DEF Pages

LEMMA LeaveKeeps ==
  ASSUME IInv, NEW v \in Viewers, Leave(v)
  PROVE  IInv'
<1> USE PathAssumption DEF IInv, TypeOK, Leave
<1>1. cur[v] \in Effects /\ view[cur[v]] = v /\ step[cur[v]] # "unused"
  BY DEF Pages, Owned
<1>2. /\ CleanedUp(v) \subseteq {cur[v]} /\ closed' = closed \union CleanedUp(v)
      /\ step[cur[v]] \in HasSocket => cur[v] \in closed'
      /\ step'[cur[v]] \in {step[cur[v]], "gone"}
      /\ step'[cur[v]] \in HasSocket => step'[cur[v]] \in Proxied
      /\ \A x \in Effects \ {cur[v]} : step'[x] = step[x]
      /\ step' \in [Effects -> Steps]
  BY <1>1 DEF CleanedUp, Hangs, HasSocket, Steps, Proxied
<1>3. TypeOK'
  BY <1>1, <1>2
<1>4. Owned'
  BY <1>1, <1>2 DEF Pages, Owned
<1>5. ClosedLeft' /\ NoLeakedViewer'
  <2>1. \A x \in closed' : Cancelled(x)'
    BY <1>1, <1>2 DEF Pages, ClosedLeft, Cancelled
  <2>2. \A x \in CleanedUp(v) : step[x] \in HasSocket
    BY DEF CleanedUp
  <2>3. ClosedLeft'
    BY <1>1, <1>2, <2>1, <2>2 DEF Pages, ClosedLeft, HasSocket, Proxied
  <2>4. NoLeakedViewer'
    BY <1>1, <1>2 DEF Pages, Owned, NoLeakedViewer, Cancelled, HasSocket, Proxied
  <2>5. QED
    BY <2>3, <2>4
<1>6. ShownIsCurrent'
  <2> SUFFICES ASSUME NEW w \in Viewers, cur'[w] # None PROVE shown'[w] = Shows(step'[cur'[w]])
    BY DEF ShownIsCurrent, Shows
  <2>1. w # v /\ cur'[w] = cur[w] /\ cur[w] \in Effects /\ cur[w] # cur[v]
    BY DEF Pages, Owned
  <2>2. shown'[w] = shown[w] /\ shown[w] = Shows(step[cur[w]])
    BY <2>1 DEF Pages, ShownIsCurrent, Shows
  <2>3. QED
    BY <1>2, <2>1, <2>2
<1>7. Screens'
  BY <1>1, <1>2 DEF Screens, PortsKept, SeesOwnAccount
<1>8. QED
  BY <1>3, <1>4, <1>5, <1>6, <1>7 DEF Pages

LEMMA OpenKeeps ==
  ASSUME IInv, NEW e \in Effects,
         \/ OpenStarts(e) \/ OpenWrites(e) \/ OpenFails(e) \/ Opened(e) \/ Imported(e) \/ Disconnected(e)
  PROVE  IInv'
<1> USE PathAssumption DEF IInv
<1>1. CASE OpenStarts(e)
  <2> USE <1>1 DEF OpenStarts, To
  <2>1. Moved(e, "started")
    BY DEF Moved, HasSocket, Steps, Opening, Proxied, Shows, TypeOK, Pages, Owned, ShownIsCurrent, Cancelled
  <2>2. acct[e] \in Accounts
    BY DEF Pages, Owned
  <2>3. TypeOK'
    BY <2>1, <2>2, MovedKeeps DEF TypeOK
  <2>4. PortsKept'
    <3>1. CASE UNCHANGED workerVars
      BY <3>1 DEF TypeOK, Screens, PortsKept
    <3>2. ASSUME NEW p \in Ports, session[acct[e]] = None, listens[p] = None,
                 session' = [session EXCEPT ![acct[e]] = p],
                 listens' = [listens EXCEPT ![p] = acct[e]]
          PROVE  PortsKept'
      BY <2>2, <3>2 DEF TypeOK, Pages, Owned, Screens, PortsKept
    <3>3. QED
      BY <3>1, <3>2
  <2>5. SeesOwnAccount'
    BY DEF TypeOK, Screens, SeesOwnAccount
  <2>6. QED
    BY <2>1, <2>3, <2>4, <2>5, MovedKeeps DEF Screens
<1>2. CASE OpenWrites(e)
  <2> USE <1>2 DEF OpenWrites, To
  <2>1. Moved(e, "answered")
    BY DEF Moved, HasSocket, Steps, Opening, Proxied, Shows, TypeOK, Pages, Owned, ShownIsCurrent, Cancelled
  <2>2. TypeOK'
    BY <2>1, MovedKeeps DEF TypeOK, Pages, Owned
  <2>3. Screens'
    BY ScreensKept DEF Steps, Opening
  <2>4. QED
    BY <2>1, <2>2, <2>3, MovedKeeps
<1>3. CASE OpenFails(e) \/ Disconnected(e)
  <2>1. /\ step[e] # "unused" /\ Errs(e)
        /\ UNCHANGED <<cur, view, acct, apiVars, workerVars, wireVars>>
    BY <1>3 DEF OpenFails, Disconnected, Opening
  <2>2. PICK s \in {"gone", "failed"} : Moved(e, s)
    BY <2>1, ErrsMoves
  <2>3. TypeOK'
    BY <2>1, <2>2, MovedKeeps DEF TypeOK
  <2>4. Screens'
    BY <2>1, <2>2, ScreensKept DEF Steps, Moved
  <2>5. QED
    BY <2>2, <2>3, <2>4, MovedKeeps
<1>4. CASE Opened(e) \/ Imported(e)
  <2>1. /\ step[e] \in Opening \union {"import"} /\ view[e] \in Viewers /\ acct[e] \in Accounts
        /\ ~Cancelled(e) => shown[view[e]] = Shows(step[e])
    BY <1>4 DEF Opened, Imported, Opening, TypeOK, Pages, Owned, ShownIsCurrent, Cancelled, Shows
  <2>2. PICK s \in {"gone", "import", "upgrade"} :
          Moved(e, s) /\ UNCHANGED <<apiVars, workerVars, wireVars>>
    <3>1. CASE Opened(e)
      BY <2>1, <3>1 DEF Opened, To, Sets, Moved, HasSocket, Steps, Opening, Proxied, Shows, TypeOK
    <3>2. CASE Imported(e)
      <4>1. CASE Cancelled(e)
        BY <2>1, <3>2, <4>1 DEF Imported, To, Moved, HasSocket, Steps, Opening, Proxied
      <4>2. CASE ~Cancelled(e)
        BY <2>1, <3>2, <4>2 DEF Imported, To, Moved, Steps, Opening, Proxied, Shows, TypeOK
      <4>3. QED
        BY <4>1, <4>2
    <3>3. QED
      BY <1>4, <3>1, <3>2
  <2>3. TypeOK'
    BY <2>2, MovedKeeps DEF TypeOK
  <2>4. Screens'
    BY <2>2, ScreensKept DEF Steps, Moved, Proxied
  <2>5. QED
    BY <2>2, <2>3, <2>4, MovedKeeps
<1>5. QED
  BY <1>1, <1>2, <1>3, <1>4

LEMMA ProxyKeeps ==
  ASSUME IInv, NEW e \in Effects,
         ResolveTicket(e) \/ AskWorker(e) \/ ProxyFails(e) \/ Dial(e)
  PROVE  IInv'
<1> USE PathAssumption DEF IInv
<1>1. /\ step[e] \in Proxied /\ (Cancelled(e) <=> e \in closed)
      /\ view[e] \in Viewers /\ acct[e] \in Accounts
      /\ ~Cancelled(e) => shown[view[e]] = "connecting"
  BY DEF HasSocket, ClosedLeft, ResolveTicket, AskWorker, ProxyFails, Dial, Pages, NoLeakedViewer, Owned,
         ShownIsCurrent, Cancelled, Proxied, Opening, TypeOK
<1>2. CASE /\ Errs(e)
           /\ UNCHANGED <<cur, view, acct, apiVars, workerVars, wireVars>>
  <2>1. PICK s \in {"gone", "failed"} : Moved(e, s)
    BY <1>1, <1>2, ErrsMoves DEF Proxied
  <2>2. TypeOK'
    BY <1>2, <2>1, MovedKeeps DEF TypeOK
  <2>3. Screens'
    BY <1>2, <2>1, ScreensKept DEF Steps, Moved
  <2>4. QED
    BY <2>1, <2>2, <2>3, MovedKeeps
<1>3. CASE /\ To(e, "asking")
           /\ UNCHANGED <<shown, cur, view, acct, apiVars, workerVars, wireVars>>
  <2>1. Moved(e, "asking")
    BY <1>1, <1>3 DEF To, Moved, Shows, Steps, Proxied, Opening, TypeOK
  <2>2. TypeOK'
    BY <1>3, <2>1, MovedKeeps DEF TypeOK
  <2>3. Screens'
    BY <1>3, <2>1, ScreensKept DEF Steps, Moved, Proxied
  <2>4. QED
    BY <2>1, <2>2, <2>3, MovedKeeps
<1>4. CASE AskWorker(e) /\ PortOf(e) # None /\ To(e, "dialing") /\ UNCHANGED shown
           /\ dial' = [dial EXCEPT ![e] = PortOf(e)]
  <2> USE <1>4 DEF AskWorker, PortOf, To
  <2>1. Moved(e, "dialing")
    BY <1>1 DEF Moved, Shows, Steps, Proxied, Opening, TypeOK
  <2>2. TypeOK'
    BY <1>1, <2>1, MovedKeeps DEF TypeOK
  <2>3. Screens'
    BY <1>1 DEF TypeOK, Screens, PortsKept, SeesOwnAccount
  <2>4. QED
    BY <2>1, <2>2, <2>3, MovedKeeps
<1>5. CASE /\ Dial(e)
           /\ listens[dial[e]] # None /\ e \notin closed
           /\ sees' = [sees EXCEPT ![e] = listens[dial[e]]]
           /\ To(e, "connected")
           /\ Sets(e, "connected")
  <2> USE <1>5 DEF Dial, To, Sets
  <2>1. Moved(e, "connected")
    BY <1>1 DEF Moved, Shows, Steps, Proxied, Opening
  <2>2. dial[e] \in Ports /\ listens[dial[e]] \in Accounts
    BY DEF TypeOK, Screens, PortsKept
  <2>3. TypeOK'
    BY <2>1, <2>2, MovedKeeps DEF TypeOK
  <2>4. Screens'
    BY <2>2 DEF TypeOK, Screens, PortsKept, SeesOwnAccount
  <2>5. QED
    BY <2>1, <2>3, <2>4, MovedKeeps
<1>6. CASE Dial(e) /\ e \in closed /\ To(e, "gone") /\ UNCHANGED <<shown, sees>>
  <2> USE <1>6 DEF Dial, To
  <2>1. Moved(e, "gone")
    BY <1>1 DEF Moved, HasSocket, Proxied, Steps
  <2>2. TypeOK'
    BY <2>1, MovedKeeps DEF TypeOK
  <2>3. Screens'
    BY ScreensKept DEF Steps
  <2>4. QED
    BY <2>1, <2>2, <2>3, MovedKeeps
<1>7. QED
  <2>1. CASE ResolveTicket(e)
    BY <2>1, <1>2, <1>3 DEF ResolveTicket, Refuses
  <2>2. CASE AskWorker(e)
    BY <2>2, <1>2, <1>4 DEF AskWorker, Refuses
  <2>3. CASE ProxyFails(e)
    BY <2>3, <1>2 DEF ProxyFails, Refuses
  <2>4. CASE Dial(e)
    BY <2>4, <1>2, <1>5, <1>6 DEF Dial, Refuses
  <2>5. QED
    BY <2>1, <2>2, <2>3, <2>4

LEMMA WorkerKeeps ==
  ASSUME IInv,
         \/ \E a \in Accounts : TicketEnds(a) \/ SessionStops(a)
         \/ \E p \in Ports : PortFreed(p)
  PROVE  IInv'
<1> USE PathAssumption DEF IInv
<1>1. ASSUME NEW a \in Accounts, TicketEnds(a)
      PROVE  IInv'
  BY <1>1 DEF TicketEnds, TypeOK, Pages, ClosedLeft, Screens, Owned, PortsKept, SeesOwnAccount,
              NoLeakedViewer, ShownIsCurrent, Cancelled
<1>2. ASSUME NEW a \in Accounts, SessionStops(a)
      PROVE  IInv'
  BY <1>2 DEF SessionStops, TypeOK, Pages, ClosedLeft, Screens, Owned, PortsKept, SeesOwnAccount,
              NoLeakedViewer, ShownIsCurrent, Cancelled
<1>3. ASSUME NEW p \in Ports, PortFreed(p)
      PROVE  IInv'
  <2> USE <1>3 DEF PortFreed
  <2>1. /\ \A x \in Effects : \/ step'[x] = step[x]
                              \/ step[x] = "connected" /\ step'[x] = "broken"
        /\ step' \in [Effects -> Steps]
    BY DEF TypeOK, Steps
  <2>2. TypeOK'
    BY <2>1 DEF TypeOK
  <2>3. Pages'
    <3>1. Owned'
      BY <2>1 DEF TypeOK, Pages, Owned
    <3>2. ClosedLeft' /\ NoLeakedViewer'
      BY <2>1 DEF TypeOK, Pages, ClosedLeft, NoLeakedViewer, Cancelled, HasSocket, Proxied
    <3>3. ShownIsCurrent'
      <4> SUFFICES ASSUME NEW v \in Viewers, cur[v] # None PROVE shown[v] = Shows(step'[cur[v]])
        BY DEF ShownIsCurrent, Shows
      <4>1. cur[v] \in Effects /\ shown[v] = Shows(step[cur[v]])
        BY DEF TypeOK, Pages, ShownIsCurrent, Shows
      <4>2. QED
        BY <2>1, <4>1 DEF Shows, Opening, Proxied
    <3>4. QED
      BY <3>1, <3>2, <3>3 DEF Pages
  <2>4. PortsKept'
    BY <2>1 DEF TypeOK, Screens, PortsKept
  <2>5. SeesOwnAccount'
    BY <2>1 DEF TypeOK, Screens, SeesOwnAccount
  <2>6. QED
    BY <2>2, <2>3, <2>4, <2>5 DEF Screens
<1>4. QED
  BY <1>1, <1>2, <1>3

LEMMA Inductive == Spec => []IInv
<1>1. IInv /\ [Next]_vars => IInv'
  <2> SUFFICES ASSUME IInv, [Next]_vars PROVE IInv'
    OBVIOUS
  <2>1. CASE \E v \in Viewers, e \in Effects, a \in Accounts : Mount(v, e, a)
    BY <2>1, MountKeeps
  <2>2. CASE \E v \in Viewers : Leave(v)
    BY <2>2, LeaveKeeps
  <2>3. CASE \E e \in Effects : Progress(e)
    BY <2>3, OpenKeeps, ProxyKeeps DEF Progress
  <2>4. CASE \/ \E a \in Accounts : TicketEnds(a) \/ SessionStops(a)
             \/ \E p \in Ports : PortFreed(p)
    BY <2>4, WorkerKeeps
  <2>5. CASE UNCHANGED vars
    BY <2>5 DEF vars, IInv, TypeOK, Pages, ClosedLeft, Screens, Owned, PortsKept, SeesOwnAccount,
                NoLeakedViewer, ShownIsCurrent, Cancelled
  <2>6. QED
    BY <2>1, <2>2, <2>3, <2>4, <2>5 DEF Next, Settled
<1>2. QED
  BY <1>1, InitIInv, PTL DEF Spec
-----------------------------------------------------------------------------
\* Type correctness of pages, effects, tickets, sessions and ports.
THEOREM Typed == Spec => []TypeOK
<1>1. IInv => TypeOK
  BY DEF IInv
<1>2. QED
  BY <1>1, Inductive, PTL

\* A ticket leads to the screen of its own account (browser.service.ts,
\* vnc-proxy.service.ts), however sessions stop and ports are used again, unless the
\* port was given up between the worker's answer and the connection.
THEOREM OwnScreen == Spec => []SeesOwnAccount
<1>1. IInv => SeesOwnAccount
  BY DEF IInv, Screens
<1>2. QED
  BY <1>1, Inductive, PTL

\* The cleanup of VncViewer and its tests of "cancelled" reach every connection: none
\* stays open behind a page that was left or started over.
THEOREM NoneLeaked == Spec => []NoLeakedViewer
<1>1. IInv => NoLeakedViewer
  BY DEF IInv, Pages
<1>2. QED
  BY <1>1, Inductive, PTL

\* VncViewer shows the state of its present effect, whatever late answers and events
\* of earlier ones arrive.
THEOREM Current == Spec => []ShownIsCurrent
<1>1. IInv => ShownIsCurrent
  BY DEF IInv, Pages
<1>2. QED
  BY <1>1, Inductive, PTL

-----------------------------------------------------------------------------
(* What a request has checked at the statement it is at                     *)

\* What request q asks and was told, by the statement it is at.
Shape(q) ==
  /\ pc[q] = "idle" => result[q] = "none"
  /\ pc[q] # "done" => answered[q] = {} /\ wrote[q] = {}
  /\ pc[q] # "idle" =>
       /\ op[q] \in Ops /\ user[q] \in Users
       /\ row[q] # Null => row[q] \in Known
       /\ op[q] \in {"create", "list"} => row[q] \in CustomerIds \union {Null}
       /\ op[q] \notin {"create", "list"} => row[q] # Null
  /\ pc[q] = "own" => row[q] # Null
  /\ pc[q] \in {"list", "create", "update", "remove"} => op[q] = pc[q]
  /\ pc[q] = "audit" => op[q] = "reveal"
  /\ result[q] = "ok" => pc[q] = "done"

\* Past the check of the owner, the row is one the caller made, there or not.
Checked(q) ==
  pc[q] \in Statements \ {"own"} /\ row[q] # Null => maker[row[q]] = user[q]

\* A row belongs to who made it: ids are never reused and accounts never move.
MakerOwns ==
  /\ \A c \in CustomerIds : owner[c] # Null => maker[c] = owner[c]
  /\ \A a \in AccountIds : customerOf[a] # Null => maker[a] = owner[customerOf[a]]

\* What an update wrote stays until a later one, also answered, replaces it.
Kept ==
  \A q \in Requests : \A f \in gives[q] :
    result[q] = "ok" /\ op[q] = "update" =>
      \E r \in Requests : /\ content[row[q]][f] = r /\ pc[r] = "done"
                          /\ op[r] = "update" /\ row[r] = row[q] /\ f \in gives[r]

\* What OwnerOnly says of one request.
Own(q) ==
  /\ \A k \in answered[q] \union wrote[q] : maker[k] = user[q]
  /\ op[q] = "reveal" /\ result[q] = "ok" => q \in log

Sound(q) == Shape(q) /\ Checked(q) /\ Own(q)

RecordsInv == RecordsTypeOK /\ MakerOwns /\ Kept /\ \A q \in Requests : Sound(q)

LEMMA RecordsInitHolds == RecordsInit => RecordsInv
<1> SUFFICES ASSUME RecordsInit PROVE RecordsInv
  OBVIOUS
<1> DEFINE Its(k) == CHOOSE u \in Users : HasFrom(k, u)
           Has(k) == \E u \in Users : HasFrom(k, u)
<1>1. \A k : Has(k) => Its(k) \in Users /\ HasFrom(k, Its(k))
  OBVIOUS
<1>2. /\ \A c \in CustomerIds : owner[c] = IF Has(c) THEN Its(c) ELSE Null
      /\ \A a \in AccountIds : customerOf[a] = IF Has(a) THEN Legacy[Its(a)].customer ELSE Null
      /\ \A k \in Rows : maker[k] = IF Has(k) THEN Its(k) ELSE Null
  BY DEF RecordsInit
<1>3. /\ owner = [c \in CustomerIds |-> owner[c]]
      /\ customerOf = [a \in AccountIds |-> customerOf[a]]
      /\ maker = [k \in Rows |-> maker[k]]
  BY DEF RecordsInit
<1> HIDE DEF Its, Has
<1>4. \A u \in Users : HasFrom(Legacy[u].customer, u) /\ Has(Legacy[u].customer)
  BY DEF HasFrom, Has
<1>5. \A u \in Users : Its(Legacy[u].customer) = u
  BY <1>1, <1>4, RecordsAssumption DEF HasFrom
<1>6. Null \notin Users /\ Null \notin CustomerIds
  BY RecordsAssumption
<1>7. \A u \in Users : Legacy[u].customer \in CustomerIds
  BY RecordsAssumption
<1>8. \A a \in AccountIds : customerOf[a] # Null =>
        /\ Its(a) \in Users /\ customerOf[a] = Legacy[Its(a)].customer
        /\ owner[customerOf[a]] = Its(a) /\ maker[a] = Its(a)
  BY <1>1, <1>2, <1>4, <1>5, <1>7 DEF Rows
<1>9. /\ owner \in [CustomerIds -> Users \union {Null}]
      /\ customerOf \in [AccountIds -> CustomerIds \union {Null}]
      /\ maker \in [Rows -> Users \union {Null}]
  BY <1>1, <1>2, <1>3, <1>7
<1>10. MakerOwns
  BY <1>2, <1>8 DEF MakerOwns, Rows
<1>11. \A a \in AccountIds : customerOf[a] # Null => owner[customerOf[a]] # Null
  BY <1>6, <1>8
<1>12. content \in [Rows -> Contents]
  BY DEF RecordsInit, Contents
<1>13. RecordsTypeOK
  BY <1>9, <1>11, <1>12 DEF RecordsInit, RecordsTypeOK
<1>14. Kept /\ \A q \in Requests : Sound(q)
  BY DEF RecordsInit, Kept, Sound, Shape, Checked, Own, Statements
<1>15. QED
  BY <1>10, <1>13, <1>14 DEF RecordsInv

-----------------------------------------------------------------------------
(* One request does a statement                                             *)

\* Nothing but request q moves, and no row gets another maker.
Moves(q) ==
  /\ \A r \in Requests \ {q} :
       /\ pc'[r] = pc[r] /\ op'[r] = op[r] /\ user'[r] = user[r] /\ row'[r] = row[r]
       /\ gives'[r] = gives[r] /\ result'[r] = result[r]
       /\ answered'[r] = answered[r] /\ wrote'[r] = wrote[r]
  /\ \A k \in Known : maker'[k] = maker[k]
  /\ log \subseteq log'

LEMMA OthersSound ==
  ASSUME RecordsTypeOK, NEW q \in Requests, Moves(q), NEW r \in Requests \ {q}, Sound(r)
  PROVE  Sound(r)'
<1> USE DEF Moves, Sound
<1>1. \A k \in Known : maker'[k] = maker[k] /\ k \in Known'
  <2>1. Known' = {k \in Rows : maker'[k] # Null}
    BY DEF Known, Rows
  <2>2. QED
    BY <2>1 DEF Known
<1>2. Shape(r)'
  BY <1>1 DEF Shape
<1>3. Checked(r)'
  BY <1>1 DEF Checked, Shape, Statements
<1>4. Own(r)'
  <2>1. \A k \in answered[r] \union wrote[r] : k \in Known
    BY RecordsAssumption DEF Own, Shape, Known, RecordsTypeOK
  <2>2. QED
    BY <1>1, <2>1 DEF Own
<1>5. QED
  BY <1>2, <1>3, <1>4

LEMMA OthersKept ==
  ASSUME RecordsInv, NEW q \in Requests, Moves(q), pc[q] # "done",
         \A k \in Known : content'[k] = content[k],
         ~(result'[q] = "ok" /\ op'[q] = "update")
  PROVE  Kept'
<1> SUFFICES ASSUME NEW p \in Requests, NEW f \in gives'[p],
                    result'[p] = "ok", op'[p] = "update"
             PROVE  \E r \in Requests : /\ content'[row'[p]][f] = r /\ pc'[r] = "done"
                                        /\ op'[r] = "update" /\ row'[r] = row'[p]
                                        /\ f \in gives'[r]
  BY DEF Kept
<1>1. p # q
  OBVIOUS
<1>2. result[p] = "ok" /\ op[p] = "update" /\ f \in gives[p] /\ row'[p] = row[p]
  BY <1>1 DEF Moves
<1>3. PICK r \in Requests : /\ content[row[p]][f] = r /\ pc[r] = "done"
                            /\ op[r] = "update" /\ row[r] = row[p] /\ f \in gives[r]
  BY <1>2 DEF RecordsInv, Kept
<1>4. row[p] \in Known
  BY <1>2 DEF RecordsInv, Sound, Shape
<1>5. r # q
  BY <1>3
<1>6. QED
  BY <1>2, <1>3, <1>4, <1>5 DEF Moves

LEMMA BeginHolds ==
  ASSUME RecordsInv, NEW q \in Requests, NEW u \in Users, NEW o \in Ops, Begin(q, u, o)
  PROVE  RecordsInv'
<1> USE DEF tables, past
<1>1. PICK k \in About(o), F \in Provides(o) :
        /\ row' = [row EXCEPT ![q] = k]
        /\ gives' = [gives EXCEPT ![q] = F]
        /\ pc' = [pc EXCEPT ![q] = IF k = Null THEN o ELSE "own"]
  BY DEF Begin
<1>2. /\ k # Null => k \in Known
      /\ o \in {"create", "list"} => k \in CustomerIds \union {Null}
      /\ o \notin {"create", "list"} => k # Null
      /\ F \in SUBSET Fields
  BY RecordsAssumption DEF About, Known, Rows, Ops, Provides
<1>3. RecordsTypeOK'
  <2>1. pc' \in [Requests -> Statements \union {"idle", "done"}]
    BY <1>1, <1>2 DEF RecordsInv, RecordsTypeOK, Ops, Statements
  <2>2. row' \in [Requests -> Rows \union {Null}] /\ gives' \in [Requests -> SUBSET Fields]
    BY <1>1, <1>2 DEF RecordsInv, RecordsTypeOK, Known
  <2>3. op' \in [Requests -> Ops \union {Null}] /\ user' \in [Requests -> Users \union {Null}]
    BY DEF Begin, RecordsInv, RecordsTypeOK
  <2>4. QED
    BY <2>1, <2>2, <2>3 DEF Begin, RecordsInv, RecordsTypeOK
<1>4. Moves(q)
  BY <1>1 DEF Begin, Moves, RecordsInv, RecordsTypeOK
<1>5. pc[q] = "idle" /\ result'[q] = "none"
  BY DEF Begin, RecordsInv, Sound, Shape
<1>6. Kept'
  BY <1>4, <1>5, OthersKept DEF Begin
<1>7. Sound(q)'
  <2>1. pc'[q] = (IF k = Null THEN o ELSE "own") /\ op'[q] = o /\ user'[q] = u /\ row'[q] = k
    BY <1>1 DEF Begin, RecordsInv, RecordsTypeOK
  <2>2. answered'[q] = {} /\ wrote'[q] = {} /\ Known' = Known
    BY DEF Begin, RecordsInv, Sound, Shape, Known
  <2>3. Shape(q)'
    BY <1>2, <1>5, <2>1, <2>2 DEF Shape, Ops
  <2>4. Checked(q)' /\ Own(q)'
    BY <1>2, <1>5, <2>1, <2>2 DEF Checked, Own, Ops, Statements
  <2>5. QED
    BY <2>3, <2>4 DEF Sound
<1>8. MakerOwns'
  BY DEF Begin, RecordsInv, MakerOwns
<1>9. QED
  BY <1>3, <1>4, <1>6, <1>7, <1>8, OthersSound DEF RecordsInv

\* A SELECT that finds the row of the caller: the caller made it.
LEMMA OwnedMade ==
  ASSUME RecordsTypeOK, MakerOwns, NEW u \in Users, NEW k \in Rows, OwnedBy(u, k)
  PROVE  maker[k] = u
BY DEF OwnedBy, Exists, MakerOwns, RecordsTypeOK, Rows

LEMMA FindsHolds == ASSUME RecordsInv, NEW q \in Requests, Finds(q) PROVE RecordsInv'
<1> USE DEF tables, asked
<1>1. /\ pc[q] = "own" /\ Shape(q) /\ Checked(q) /\ Own(q)
      /\ row[q] \in Known /\ row[q] \in Rows /\ user[q] \in Users /\ op[q] \in Ops
  BY DEF Finds, RecordsInv, Sound, Shape, Known
<1>2. UNCHANGED <<owner, customerOf, content, log, op, user, row, gives, wrote, maker>>
  BY DEF Finds
<1>3. \/ /\ pc'[q] = "done" /\ result'[q] = "notFound" /\ answered' = answered
      \/ /\ pc'[q] = "done" /\ result'[q] = "ok" /\ answered'[q] = {row[q]} /\ op[q] = "get"
         /\ OwnedBy(user[q], row[q])
      \/ /\ pc'[q] = (IF op[q] = "reveal" THEN "audit" ELSE op[q]) /\ op[q] # "get"
         /\ result' = result /\ answered' = answered
         /\ OwnedBy(user[q], row[q])
  BY DEF Finds, Ends, Told, MayUse, RecordsInv, RecordsTypeOK
<1>4. RecordsTypeOK'
  <2>1. pc' \in [Requests -> Statements \union {"idle", "done"}]
    BY <1>1 DEF Finds, Ends, Told, RecordsInv, RecordsTypeOK, Ops, Statements
  <2>2. seen' \in [Requests -> Contents \union {Null}]
    BY <1>1 DEF Finds, RecordsInv, RecordsTypeOK
  <2>3. /\ result' \in [Requests -> {"none", "ok", "notFound", "error"}]
        /\ answered' \in [Requests -> SUBSET Rows]
    BY <1>1 DEF Finds, Ends, Told, RecordsInv, RecordsTypeOK
  <2>4. QED
    BY <1>2, <2>1, <2>2, <2>3 DEF RecordsInv, RecordsTypeOK
<1>5. Moves(q)
  BY <1>2 DEF Finds, Ends, Told, Moves, RecordsInv, RecordsTypeOK
<1>6. Kept'
  BY <1>1, <1>2, <1>3, <1>5, OthersKept DEF Shape
<1>7. Sound(q)'
  <2>1. OwnedBy(user[q], row[q]) => maker[row[q]] = user[q]
    BY <1>1, OwnedMade DEF RecordsInv
  <2>2. Known' = Known
    BY <1>2 DEF Known
  <2>3. Shape(q)'
    BY <1>1, <1>2, <1>3, <2>2 DEF Shape, Ops
  <2>4. Checked(q)'
    BY <1>1, <1>2, <1>3, <2>1 DEF Checked, Statements
  <2>5. Own(q)'
    BY <1>1, <1>2, <1>3, <2>1 DEF Own, Shape
  <2>6. QED
    BY <2>3, <2>4, <2>5 DEF Sound
<1>8. MakerOwns'
  BY <1>2 DEF RecordsInv, MakerOwns
<1>9. QED
  BY <1>4, <1>5, <1>6, <1>7, <1>8, OthersSound DEF RecordsInv

LEMMA ReadsHold == ASSUME RecordsInv, NEW q \in Requests, Lists(q) \/ Audits(q)
                   PROVE  RecordsInv'
<1> USE DEF tables, asked
<1> DEFINE S == IF Audits(q) THEN IF result'[q] = "ok" THEN {row[q]} ELSE {}
                ELSE IF row[q] = Null THEN {k \in Rows : OwnedBy(user[q], k)}
                ELSE {a \in AccountIds : customerOf[a] = row[q]}
<1>1. /\ pc[q] \in {"list", "audit"} /\ Shape(q) /\ Checked(q) /\ Own(q)
      /\ row[q] # Null => row[q] \in Known
      /\ user[q] \in Users
  BY DEF Lists, Audits, RecordsInv, Sound, Shape
<1>2. /\ UNCHANGED <<owner, customerOf, content, op, user, row, gives, seen, wrote, maker>>
      /\ log' = (IF Audits(q) THEN log \union {q} ELSE log)
      /\ pc' = [pc EXCEPT ![q] = "done"]
      /\ \E r \in {"ok", "error"} : result' = [result EXCEPT ![q] = r]
      /\ answered' = [answered EXCEPT ![q] = S]
  <2>1. answered[q] = {} /\ answered \in [Requests -> SUBSET Rows]
        /\ result \in [Requests -> {"none", "ok", "notFound", "error"}]
    BY <1>1 DEF RecordsInv, RecordsTypeOK, Shape
  <2>2. CASE Audits(q)
    BY <2>1, <2>2, <1>1 DEF Audits, Told, Ends
  <2>3. CASE Lists(q) /\ ~Audits(q)
    BY <2>1, <2>3, <1>1 DEF Lists, Told, Ends
  <2>4. QED
    BY <2>2, <2>3
<1>3. \A k \in S : k \in Rows /\ maker[k] = user[q]
  <2>1. CASE Audits(q)
    BY <1>1, <2>1 DEF Audits, Checked, Shape, Statements, Known
  <2>2. CASE ~Audits(q) /\ row[q] = Null
    BY <1>1, <2>2, OwnedMade DEF RecordsInv
  <2>3. CASE ~Audits(q) /\ row[q] # Null
    <3>1. row[q] \in CustomerIds /\ maker[row[q]] = user[q]
      BY <1>1, <2>3 DEF Lists, Shape, Checked, Statements
    <3>2. \A a \in AccountIds : customerOf[a] = row[q] => maker[a] = user[q]
      BY <2>3, <3>1 DEF RecordsInv, MakerOwns, RecordsTypeOK
    <3>3. QED
      BY <2>3, <3>2 DEF Rows
  <2>4. QED
    BY <2>1, <2>2, <2>3
<1> HIDE DEF S
<1>4. RecordsTypeOK'
  BY <1>2, <1>3 DEF RecordsInv, RecordsTypeOK
<1>5. Moves(q)
  BY <1>2 DEF Moves, RecordsInv, RecordsTypeOK
<1>6. op[q] # "update"
  BY <1>1 DEF Shape
<1>7. Kept'
  BY <1>1, <1>2, <1>5, <1>6, OthersKept
<1>8. Sound(q)'
  <2>1. pc'[q] = "done" /\ answered'[q] = S /\ Known' = Known
    BY <1>2 DEF RecordsInv, RecordsTypeOK, Known
  <2>2. Shape(q)' /\ Checked(q)'
    BY <1>1, <1>2, <2>1 DEF Shape, Checked, Statements
  <2>3. op[q] = "reveal" => Audits(q)
    BY <1>1 DEF Lists, Audits, Shape
  <2>4. Own(q)'
    BY <1>1, <1>2, <1>3, <2>1, <2>3 DEF Own
  <2>5. QED
    BY <2>2, <2>4 DEF Sound
<1>9. MakerOwns'
  BY <1>2 DEF RecordsInv, MakerOwns
<1>10. QED
  BY <1>4, <1>5, <1>7, <1>8, <1>9, OthersSound DEF RecordsInv

\* A statement that fails answers with an error and leaves the rows alone.
LEMMA ErrorHolds ==
  ASSUME RecordsInv, NEW q \in Requests, pc[q] \in Statements, Ends(q, "error"),
         UNCHANGED <<tables, asked, seen, past>>
  PROVE  RecordsInv'
<1> USE DEF tables, asked, past, Ends
<1>1. RecordsTypeOK' /\ MakerOwns'
  BY DEF RecordsInv, RecordsTypeOK, MakerOwns
<1>2. Moves(q)
  BY DEF Moves, RecordsInv, RecordsTypeOK
<1>3. pc'[q] = "done" /\ result'[q] = "error"
  BY DEF RecordsInv, RecordsTypeOK
<1>4. Kept'
  BY <1>2, <1>3, OthersKept DEF Statements
<1>5. Sound(q)'
  <2>1. Shape(q) /\ Own(q) /\ Known' = Known
    BY DEF RecordsInv, Sound, Known
  <2>2. Shape(q)'
    BY <1>3, <2>1 DEF Shape, Statements
  <2>3. Checked(q)' /\ Own(q)'
    BY <1>3, <2>1 DEF Checked, Own, Statements
  <2>4. QED
    BY <2>2, <2>3 DEF Sound
<1>6. QED
  BY <1>1, <1>2, <1>4, <1>5, OthersSound DEF RecordsInv

LEMMA FailsHolds ==
  ASSUME RecordsInv, NEW q \in Requests, pc[q] \in Statements, Fails(q), UNCHANGED <<log,
         asked, seen>>
  PROVE  RecordsInv'
BY ErrorHolds DEF Fails, tables, past, asked

\* What every statement that writes leaves to show for its own request.
LEMMA WriterSound ==
  ASSUME RecordsInv, NEW q \in Requests, pc[q] \in {"create", "update", "remove"},
         NEW S, UNCHANGED <<log, asked, seen>>,
         pc'[q] = "done", answered'[q] \in SUBSET S, wrote'[q] = S,
         \A k \in S : maker'[k] = user[q],
         \A k \in Known : maker'[k] = maker[k]
  PROVE  Sound(q)'
<1> USE DEF asked
<1>1. Shape(q)
  BY DEF RecordsInv, Sound
<1>2. \A k \in Known : k \in Known'
  <2>1. Known' = {k \in Rows : maker'[k] # Null}
    BY DEF Known, Rows
  <2>2. QED
    BY <2>1 DEF Known
<1>3. Shape(q)'
  BY <1>1, <1>2 DEF Shape
<1>4. Checked(q)'
  BY DEF Checked, Statements
<1>5. Own(q)'
  BY <1>1 DEF Own, Shape
<1>6. QED
  BY <1>3, <1>4, <1>5 DEF Sound

LEMMA NewHolds ==
  ASSUME RecordsInv, NEW q \in Requests, pc[q] = "create", NEW k \in Rows, New(q, k),
         UNCHANGED <<log, asked, seen>>, RecordsTypeOK', MakerOwns'
  PROVE  RecordsInv'
<1> USE DEF asked
<1>1. /\ maker[k] = Null /\ maker' = [maker EXCEPT ![k] = user[q]]
      /\ content' = [content EXCEPT ![k] = [f \in Fields |-> q]]
      /\ wrote' = [wrote EXCEPT ![q] = {k}] /\ answered' = [answered EXCEPT ![q] = {k}]
      /\ pc' = [pc EXCEPT ![q] = "done"] /\ result' = [result EXCEPT ![q] = "ok"]
  BY DEF New, Wrote, Told, Ends
<1>2. \A j \in Known : j # k /\ maker'[j] = maker[j] /\ content'[j] = content[j]
  BY <1>1 DEF Known, RecordsInv, RecordsTypeOK
<1>3. Moves(q)
  BY <1>1, <1>2 DEF Moves, RecordsInv, RecordsTypeOK
<1>4. op[q] = "create"
  BY DEF RecordsInv, Sound, Shape
<1>5. Kept'
  BY <1>2, <1>3, <1>4, OthersKept
<1>6. Sound(q)'
  <2>1. maker'[k] = user[q] /\ pc'[q] = "done" /\ answered'[q] = {k} /\ wrote'[q] = {k}
    BY <1>1 DEF RecordsInv, RecordsTypeOK
  <2>2. QED
    BY <1>2, <2>1, WriterSound
<1>7. QED
  BY <1>3, <1>5, <1>6, OthersSound DEF RecordsInv

LEMMA CreatesHolds == ASSUME RecordsInv, NEW q \in Requests, Creates(q) PROVE RecordsInv'
<1> USE DEF asked
<1>1. /\ pc[q] = "create" /\ UNCHANGED <<log, asked, seen>> /\ user[q] \in Users
      /\ row[q] \in CustomerIds \union {Null} /\ (row[q] # Null => maker[row[q]] = user[q])
      /\ RecordsTypeOK /\ MakerOwns
  BY DEF Creates, RecordsInv, Sound, Shape, Checked, Statements
<1>2. ASSUME NEW c \in CustomerIds, New(q, c), owner' = [owner EXCEPT ![c] = user[q]],
             customerOf' = customerOf
      PROVE  RecordsInv'
  <2>1. /\ maker[c] = Null /\ maker' = [maker EXCEPT ![c] = user[q]]
        /\ content' = [content EXCEPT ![c] = [f \in Fields |-> q]]
        /\ wrote' = [wrote EXCEPT ![q] = {c}] /\ answered' = [answered EXCEPT ![q] = {c}]
        /\ pc' = [pc EXCEPT ![q] = "done"] /\ result' = [result EXCEPT ![q] = "ok"]
    BY <1>2 DEF New, Wrote, Told, Ends
  <2>2. /\ c \in Rows /\ owner[c] = Null /\ CustomerIds \intersect AccountIds = {}
        /\ Null \notin Users \union CustomerIds
    BY <1>1, <2>1, RecordsAssumption DEF Rows, MakerOwns, RecordsTypeOK
  <2>3. RecordsTypeOK'
    <3>1. \A a \in AccountIds : customerOf'[a] # Null => owner'[customerOf'[a]] # Null
      BY <1>1, <1>2, <2>2 DEF RecordsTypeOK
    <3>2. [f \in Fields |-> q] \in Contents
      BY DEF Contents
    <3>3. QED
      BY <1>1, <1>2, <2>1, <2>2, <3>1, <3>2 DEF RecordsTypeOK
  <2>4. \A a \in AccountIds : maker'[a] = maker[a] /\ customerOf[a] # c
    BY <1>1, <2>1, <2>2 DEF RecordsTypeOK, Rows
  <2>5. \A d \in CustomerIds : owner'[d] # Null => maker'[d] = owner'[d]
    BY <1>1, <1>2, <2>1 DEF RecordsTypeOK, MakerOwns, Rows
  <2>6. \A a \in AccountIds : customerOf'[a] # Null => maker'[a] = owner'[customerOf'[a]]
    BY <1>1, <1>2, <2>4 DEF RecordsTypeOK, MakerOwns
  <2>7. QED
    BY <1>1, <1>2, <2>2, <2>3, <2>5, <2>6, NewHolds DEF MakerOwns
<1>3. ASSUME row[q] # Null, ReferenceHolds(row[q]), NEW a \in AccountIds, New(q, a),
             customerOf' = [customerOf EXCEPT ![a] = row[q]], owner' = owner
      PROVE  RecordsInv'
  <2>1. /\ maker[a] = Null /\ maker' = [maker EXCEPT ![a] = user[q]]
        /\ content' = [content EXCEPT ![a] = [f \in Fields |-> q]]
        /\ wrote' = [wrote EXCEPT ![q] = {a}] /\ answered' = [answered EXCEPT ![q] = {a}]
        /\ pc' = [pc EXCEPT ![q] = "done"] /\ result' = [result EXCEPT ![q] = "ok"]
    BY <1>3 DEF New, Wrote, Told, Ends
  <2>2. a \in Rows /\ CustomerIds \intersect AccountIds = {} /\ row[q] \in CustomerIds
    BY <1>1, <1>3, RecordsAssumption DEF Rows
  <2>3. owner[row[q]] # Null /\ owner[row[q]] = user[q]
    BY <1>1, <1>3, <2>2 DEF ReferenceHolds, Exists, MakerOwns
  <2>4. RecordsTypeOK'
    <3>1. \A b \in AccountIds : customerOf'[b] # Null => owner'[customerOf'[b]] # Null
      BY <1>1, <1>3, <2>3 DEF RecordsTypeOK
    <3>2. [f \in Fields |-> q] \in Contents
      BY DEF Contents
    <3>3. QED
      BY <1>1, <1>3, <2>1, <2>2, <3>1, <3>2 DEF RecordsTypeOK
  <2>5. \A c \in CustomerIds : maker'[c] = maker[c]
    BY <1>1, <2>1, <2>2 DEF RecordsTypeOK, Rows
  <2>6. \A b \in AccountIds : customerOf'[b] # Null => maker'[b] = owner'[customerOf'[b]]
    BY <1>1, <1>3, <2>1, <2>3 DEF RecordsTypeOK, MakerOwns, Rows
  <2>7. \A c \in CustomerIds : owner'[c] # Null => maker'[c] = owner'[c]
    BY <1>1, <1>3, <2>5 DEF MakerOwns
  <2>8. QED
    BY <1>1, <1>3, <2>2, <2>4, <2>6, <2>7, NewHolds DEF MakerOwns
<1>4. ASSUME Fails(q) PROVE RecordsInv'
  BY <1>1, <1>4, FailsHolds DEF Statements
<1>5. QED
  BY <1>2, <1>3, <1>4 DEF Creates

LEMMA UpdatesHolds == ASSUME RecordsInv, NEW q \in Requests, Updates(q) PROVE RecordsInv'
<1> USE DEF asked
<1> DEFINE k == row[q]
<1>1. /\ pc[q] = "update" /\ op[q] = "update" /\ UNCHANGED <<log, asked, seen>>
      /\ k \in Known /\ k \in Rows /\ maker[k] = user[q] /\ RecordsTypeOK
  BY DEF Updates, RecordsInv, Sound, Shape, Checked, Statements, Known
<1>2. CASE ~Exists(k)
  BY <1>1, <1>2, FailsHolds DEF Updates, Statements
<1>3. CASE Exists(k)
  <2>1. /\ content' = [content EXCEPT ![k] = Merged(q)] /\ wrote' = [wrote EXCEPT ![q] = {k}]
        /\ pc' = [pc EXCEPT ![q] = "done"] /\ result' = [result EXCEPT ![q] = "ok"]
        /\ answered' = [answered EXCEPT ![q] = {k}]
        /\ UNCHANGED <<owner, customerOf, maker>>
    BY <1>3 DEF Updates, Wrote, Told, Ends
  <2>2. Merged(q) \in Contents
    BY <1>1 DEF Merged, Contents, RecordsTypeOK
  <2>3. RecordsTypeOK' /\ MakerOwns'
    <3>1. RecordsTypeOK'
      BY <1>1, <2>1, <2>2 DEF RecordsTypeOK
    <3>2. MakerOwns'
      BY <2>1 DEF RecordsInv, MakerOwns
    <3>3. QED
      BY <3>1, <3>2
  <2>4. Moves(q)
    BY <1>1, <2>1 DEF Moves, RecordsTypeOK
  <2>5. Sound(q)'
    <3>1. pc'[q] = "done" /\ answered'[q] = {k} /\ wrote'[q] = {k}
      BY <1>1, <2>1 DEF RecordsTypeOK
    <3>2. QED
      BY <1>1, <2>1, <3>1, WriterSound
  <2>6. Kept'
    <3> SUFFICES ASSUME NEW p \in Requests, NEW f \in gives[p],
                        result'[p] = "ok", op[p] = "update"
                 PROVE  \E r \in Requests : /\ content'[row[p]][f] = r /\ pc'[r] = "done"
                                            /\ op[r] = "update" /\ row[r] = row[p]
                                            /\ f \in gives[r]
      BY <1>1 DEF Kept
    <3>1. f \in Fields /\ pc'[q] = "done"
      BY <1>1, <2>1 DEF RecordsTypeOK
    <3>2. CASE row[p] = k /\ f \in gives[q]
      <4>1. content'[row[p]][f] = q
        BY <1>1, <2>1, <3>1, <3>2 DEF Merged, RecordsTypeOK
      <4>2. QED
        BY <1>1, <3>1, <3>2, <4>1
    <3>3. CASE ~(row[p] = k /\ f \in gives[q])
      <4>1. p # q
        BY <3>3
      <4>2. result[p] = "ok"
        BY <1>1, <2>1, <4>1 DEF RecordsTypeOK
      <4>3. PICK r \in Requests : /\ content[row[p]][f] = r /\ pc[r] = "done"
                                  /\ op[r] = "update" /\ row[r] = row[p] /\ f \in gives[r]
        BY <1>1, <4>2 DEF RecordsInv, Kept
      <4>4. pc'[r] = "done"
        BY <1>1, <2>1, <4>3 DEF RecordsTypeOK
      <4>5. content'[row[p]][f] = content[row[p]][f]
        BY <1>1, <2>1, <3>1, <3>3 DEF Merged, RecordsTypeOK
      <4>6. QED
        BY <4>3, <4>4, <4>5
    <3>4. QED
      BY <3>2, <3>3
  <2>7. QED
    BY <2>3, <2>4, <2>5, <2>6, OthersSound DEF RecordsInv
<1>4. QED
  BY <1>2, <1>3

LEMMA RemovesHolds == ASSUME RecordsInv, NEW q \in Requests, Removes(q) PROVE RecordsInv'
<1> USE DEF asked
<1> DEFINE k == row[q]
           gone == {k} \union {a \in AccountIds : customerOf[a] = k}
<1>1. /\ pc[q] = "remove" /\ op[q] = "remove" /\ UNCHANGED <<log, asked, seen>>
      /\ k \in Known /\ k \in Rows /\ maker[k] = user[q] /\ RecordsTypeOK /\ MakerOwns
      /\ k # Null
  BY DEF Removes, RecordsInv, Sound, Shape, Checked, Statements, Known
<1>2. CASE ~Exists(k)
  BY <1>1, <1>2, FailsHolds DEF Removes, Statements
<1>3. CASE Exists(k)
  <2>1. /\ owner' = [c \in CustomerIds |-> IF c \in gone THEN Null ELSE owner[c]]
        /\ customerOf' = [a \in AccountIds |-> IF a \in gone THEN Null ELSE customerOf[a]]
        /\ wrote' = [wrote EXCEPT ![q] = gone]
        /\ pc' = [pc EXCEPT ![q] = "done"] /\ result' = [result EXCEPT ![q] = "ok"]
        /\ UNCHANGED <<content, answered, maker>>
    BY <1>3 DEF Removes, Wrote, Ends
  <2>2. CustomerIds \intersect AccountIds = {} /\ gone \subseteq Rows
    BY <1>1, RecordsAssumption DEF Rows
  <2>3. \A c \in CustomerIds : c \in gone <=> c = k
    BY <2>2
  <2>4. \A a \in AccountIds : customerOf'[a] # Null =>
          /\ customerOf'[a] = customerOf[a] /\ customerOf[a] # Null
          /\ customerOf[a] \in CustomerIds /\ owner'[customerOf[a]] = owner[customerOf[a]]
    BY <1>1, <2>1, <2>3 DEF RecordsTypeOK
  <2>5. RecordsTypeOK'
    <3>1. \A a \in AccountIds : customerOf'[a] # Null => owner'[customerOf'[a]] # Null
      BY <1>1, <2>4 DEF RecordsTypeOK
    <3>2. /\ owner' \in [CustomerIds -> Users \union {Null}]
          /\ customerOf' \in [AccountIds -> CustomerIds \union {Null}]
          /\ wrote' \in [Requests -> SUBSET Rows]
      <4> HIDE DEF gone
      <4> QED
        BY <1>1, <2>1, <2>2 DEF RecordsTypeOK
    <3>3. QED
      BY <1>1, <2>1, <3>1, <3>2 DEF RecordsTypeOK
  <2>6. MakerOwns'
    BY <1>1, <2>1, <2>4 DEF MakerOwns
  <2>7. Moves(q)
    BY <1>1, <2>1 DEF Moves, RecordsTypeOK
  <2>8. Kept'
    BY <1>1, <2>1, <2>7, OthersKept
  <2>9. \A j \in gone : maker[j] = user[q]
    <3>1. ASSUME NEW a \in AccountIds, customerOf[a] = k PROVE maker[a] = user[q]
      BY <1>1, <3>1 DEF MakerOwns, RecordsTypeOK
    <3>2. QED
      BY <1>1, <3>1
  <2>10. Sound(q)'
    <3>1. pc'[q] = "done" /\ wrote'[q] = gone
      BY <1>1, <2>1 DEF RecordsTypeOK
    <3>2. answered'[q] = {}
      BY <1>1, <2>1 DEF RecordsInv, Sound, Shape
    <3>3. QED
      BY <1>1, <2>1, <2>9, <3>1, <3>2, WriterSound
  <2>11. QED
    BY <2>5, <2>6, <2>7, <2>8, <2>10, OthersSound DEF RecordsInv
<1>4. QED
  BY <1>2, <1>3

LEMMA RecordsStep == RecordsInv /\ [RecordsNext]_recordsVars => RecordsInv'
<1> SUFFICES ASSUME RecordsInv, [RecordsNext]_recordsVars PROVE RecordsInv'
  OBVIOUS
<1>1. ASSUME NEW q \in Requests, DbFails(q) PROVE RecordsInv'
  BY <1>1, ErrorHolds DEF DbFails
<1>2. CASE UNCHANGED recordsVars
  BY <1>2 DEF recordsVars, tables, asked, past, RecordsInv, RecordsTypeOK, MakerOwns, Kept, Sound, Shape, Checked,
              Own, Known, Contents
<1>3. QED
  BY <1>1, <1>2, BeginHolds, FindsHolds, ReadsHold, CreatesHolds, UpdatesHolds, RemovesHolds
     DEF RecordsNext, AllAnswered

LEMMA RecordsAlways == RecordsSpec => []RecordsInv
BY RecordsInitHolds, RecordsStep, PTL DEF RecordsSpec

\* The tables keep their foreign key, whatever is deleted meanwhile.
THEOREM RecordsTyped == RecordsSpec => []RecordsTypeOK
<1>1. RecordsInv => RecordsTypeOK
  BY DEF RecordsInv
<1>2. QED
  BY <1>1, RecordsAlways, PTL

\* Any number of users and requests, statement by statement: one is told and changes
\* rows its caller made only.
THEOREM OwnersApart == RecordsSpec => []OwnerOnly
<1>1. RecordsInv => OwnerOnly
  BY DEF RecordsInv, Sound, Own, OwnerOnly
<1>2. QED
  BY <1>1, RecordsAlways, PTL

\* Updates that overlap lose none of the fields another one provided.
THEOREM Merges == RecordsSpec => []UpdatesMerge
<1>1. RecordsInv => UpdatesMerge
  BY DEF RecordsInv, Kept, UpdatesMerge
<1>2. QED
  BY <1>1, RecordsAlways, PTL
=============================================================================
