------------------------- MODULE BrowserServiceProofs -------------------------
(***************************************************************************)
(* The per-account lock of BrowserService and what it protects, for any    *)
(* accounts and requests.                                                  *)
(***************************************************************************)
EXTENDS BrowserService, TLAPS

USE DEF Goes, Answers, row, lock, asked, outside

\* Every step keeps the row, the lock and the requests in their types.
LEMMA TypedStep == TypeOK /\ [Next]_vars => TypeOK'
<1> SUFFICES ASSUME TypeOK, [Next]_vars PROVE TypeOK'
  OBVIOUS
<1> USE ConstantsAssumption DEF TypeOK, Active, InLock, Results
<1>1. ASSUME NEW q \in Requests, Begin(q) PROVE TypeOK'
  BY <1>1 DEF Begin
<1>2. ASSUME NEW q \in Requests, AssertOwned(q) PROVE TypeOK'
  BY <1>2 DEF AssertOwned
<1>3. ASSUME NEW q \in Requests, FindRow(q) \/ InsertRow(q) \/ FindAgain(q) PROVE TypeOK'
  BY <1>3 DEF FindRow, InsertRow, FindAgain, AfterEnsure, OnP2002, Reads
<1>4. ASSUME NEW q \in Requests, AcquireLock(q) PROVE TypeOK'
  BY <1>4 DEF AcquireLock
<1>5. ASSUME NEW q \in Requests, ReleaseLock(q) PROVE TypeOK'
  BY <1>5 DEF ReleaseLock, Unlock
<1>6. ASSUME NEW q \in Requests, WorkerServes(q) PROVE TypeOK'
  BY <1>6 DEF WorkerServes, CarriedOut
<1>7. ASSUME NEW q \in Requests, WorkerRefuses(q) \/ CallLost(q) PROVE TypeOK'
  BY <1>7 DEF WorkerRefuses, CallLost, OnRefusal
<1>8. ASSUME NEW q \in Requests, LateCall(q) PROVE TypeOK'
  BY <1>8 DEF LateCall, CarriedOut
<1>9. ASSUME NEW q \in Requests, WriteRow(q) PROVE TypeOK'
  BY <1>9 DEF WriteRow, NewTicket
<1>10. ASSUME NEW q \in Requests, WriteAudit(q) \/ AnswerStatus(q) PROVE TypeOK'
  BY <1>10 DEF WriteAudit, AnswerStatus
<1>11. ASSUME NEW q \in Requests, DbFails(q) PROVE TypeOK'
  BY <1>11 DEF DbFails
<1>12. ASSUME NEW a \in Accounts, LockLapses(a) PROVE TypeOK'
  BY <1>12 DEF LockLapses
<1>13. ASSUME NEW a \in Accounts, TicketExpires(a) PROVE TypeOK'
  BY <1>13 DEF TicketExpires
<1>14. ASSUME NEW a \in Accounts, Reaped(a) PROVE TypeOK'
  BY <1>14 DEF Reaped
<1>15. ASSUME NEW a \in Accounts, RemoveAccount(a) PROVE TypeOK'
  BY <1>15 DEF RemoveAccount
<1>16. ASSUME Crash PROVE TypeOK'
  BY <1>16 DEF Crash
<1>17. ASSUME UNCHANGED vars PROVE TypeOK'
  BY <1>17 DEF vars
<1> HIDE DEF TypeOK
<1>18. QED
  BY <1>1, <1>2, <1>3, <1>4, <1>5, <1>6, <1>7, <1>8, <1>9, <1>10, <1>11, <1>12, <1>13,
     <1>14, <1>15, <1>16, <1>17 DEF Next, Step, Finished

\* The database row, the lock and the requests keep their types.
THEOREM Typed == Spec => []TypeOK
<1>1. Init => TypeOK
  <2> SUFFICES ASSUME Init PROVE TypeOK
    OBVIOUS
  <2>1. op \in [Requests -> {"open", "stop", "status"}] /\ acct \in [Requests -> Accounts]
    <3>1. op \in [Requests -> Ops] /\ Ops \subseteq {"open", "stop", "status"}
      BY ConstantsAssumption DEF Init
    <3>2. QED
      BY <3>1 DEF Init
  <2>2. QED
    BY <2>1 DEF Init, TypeOK, Results
<1>2. QED
  BY <1>1, TypedStep, PTL DEF Spec

-----------------------------------------------------------------------------
(* Who may touch the lock                                                   *)

\* A lock is lost only to its own release, to the TTL or with its account,
\* under every fault.
THEOREM HolderKeeps == Spec => HolderKeepsLock
<1> DEFINE Kept == \A a \in Accounts :
                     lockedBy[a] # None /\ lockedBy'[a] # lockedBy[a]
                       => \/ a \in lapsed \/ a \notin rows'
                          \/ acct[lockedBy[a]] = a /\ pc[lockedBy[a]] = "release"
<1>1. TypeOK /\ TypeOK' /\ [Next]_vars => [Kept]_vars
  <2> SUFFICES ASSUME TypeOK, TypeOK', Next PROVE Kept
    OBVIOUS
  <2>1. ASSUME NEW q \in Requests, AcquireLock(q) PROVE Kept
    BY <2>1 DEF AcquireLock, CanLock, TypeOK
  <2>2. ASSUME NEW q \in Requests, ReleaseLock(q) PROVE Kept
    BY <2>2 DEF ReleaseLock, Unlock, TypeOK
  <2>3. ASSUME NEW a \in Accounts, RemoveAccount(a) PROVE Kept
    BY <2>3 DEF RemoveAccount, TypeOK
  <2>4. ASSUME UNCHANGED lockedBy PROVE Kept
    BY <2>4
  <2> HIDE DEF Kept
  <2>5. QED
    BY <2>1, <2>2, <2>3, <2>4
       DEF Next, Step, Begin, AssertOwned, FindRow, InsertRow, FindAgain, WorkerServes,
           WorkerRefuses, CallLost, LateCall, WriteRow, WriteAudit, AnswerStatus, DbFails,
           LockLapses, TicketExpires, Reaped, Crash, Finished, vars
<1>2. QED
  BY <1>1, Typed, TypedStep, PTL DEF Spec, HolderKeepsLock
-----------------------------------------------------------------------------
(* Mutual exclusion                                                         *)

\* The faults that break it: a lock that lapses under its request, and a call
\* the worker carries out after the API gave it up.
CallsAreTimely == {"slow", "lost", "crash"} \intersect Faults = {}

\* The inductive invariant.  A request inside the try holds a lock that has not
\* lapsed, as long as the row exists; removing the account takes the lock away
\* but lets nobody else in, which the second conjunct remembers.
Exclusion ==
  /\ late = {}
  /\ \A q \in Requests : pc[q] \in InLock /\ acct[q] \in accounts
                           => lockedBy[acct[q]] = q /\ acct[q] \notin lapsed
  /\ \A q, r \in Requests : pc[q] \in InLock /\ pc[r] \in InLock /\ acct[q] = acct[r]
                              => q = r

LEMMA ExclusionStep == CallsAreTimely /\ TypeOK /\ Exclusion /\ [Next]_vars => Exclusion'
<1> SUFFICES ASSUME CallsAreTimely, TypeOK, Exclusion, [Next]_vars PROVE Exclusion'
  OBVIOUS
<1> USE ConstantsAssumption DEF Exclusion, TypeOK, InLock
<1>1. ASSUME NEW q \in Requests,
             \A p \in Requests \ {q} : pc'[p] = pc[p],
             pc'[q] \in InLock => pc[q] \in InLock,
             UNCHANGED <<accounts, lockedBy, lapsed, acct, late>>
      PROVE  Exclusion'
  BY <1>1
<1>2. ASSUME NEW q \in Requests, Begin(q) \/ AssertOwned(q) \/ FindRow(q) \/ FindAgain(q)
      PROVE  Exclusion'
  BY <1>1, <1>2 DEF Begin, AssertOwned, FindRow, FindAgain, AfterEnsure
<1>3. ASSUME NEW q \in Requests, InsertRow(q) PROVE Exclusion'
  BY <1>1, <1>3 DEF InsertRow, AfterEnsure, OnP2002
<1>4. ASSUME NEW q \in Requests, AcquireLock(q) PROVE Exclusion'
  BY <1>4 DEF AcquireLock, CanLock
<1>5. ASSUME NEW q \in Requests, ReleaseLock(q) PROVE Exclusion'
  BY <1>5 DEF ReleaseLock, Unlock
<1>6. ASSUME NEW q \in Requests, WorkerServes(q) \/ WorkerRefuses(q) PROVE Exclusion'
  BY <1>1, <1>6 DEF WorkerServes, WorkerRefuses, OnRefusal
<1>7. ASSUME NEW q \in Requests, WriteRow(q) \/ WriteAudit(q) \/ AnswerStatus(q)
      PROVE  Exclusion'
  BY <1>1, <1>7 DEF WriteRow, WriteAudit, AnswerStatus
<1>8. ASSUME NEW q \in Requests, DbFails(q) PROVE Exclusion'
  BY <1>1, <1>8 DEF DbFails
<1>9. ASSUME NEW q \in Requests, CallLost(q) \/ LateCall(q) PROVE Exclusion'
  BY <1>9 DEF CallLost, LateCall, CallsAreTimely
<1>10. ASSUME NEW a \in Accounts, LockLapses(a) PROVE Exclusion'
  BY <1>10 DEF LockLapses, CallsAreTimely
<1>11. ASSUME NEW a \in Accounts, TicketExpires(a) \/ Reaped(a) PROVE Exclusion'
  BY <1>11 DEF TicketExpires, Reaped
<1>12. ASSUME NEW a \in Accounts, RemoveAccount(a) PROVE Exclusion'
  BY <1>12 DEF RemoveAccount
<1>13. ASSUME Crash PROVE Exclusion'
  BY <1>13 DEF Crash, CallsAreTimely
<1>14. ASSUME UNCHANGED vars PROVE Exclusion'
  BY <1>14 DEF vars
<1> HIDE DEF Exclusion, TypeOK
<1>15. QED
  BY <1>2, <1>3, <1>4, <1>5, <1>6, <1>7, <1>8, <1>9, <1>10, <1>11, <1>12, <1>13, <1>14
     DEF Next, Step, Finished

\* As long as calls are timely, the lock lets one request at a time talk to the
\* worker for an account, with account removals, refusals, reaps and failing
\* statements (a failed release included).
THEOREM MutualExclusion == CallsAreTimely => (Spec => []WorkerCallsExclusive)
<1> SUFFICES ASSUME CallsAreTimely PROVE Spec => []WorkerCallsExclusive
  OBVIOUS
<1>1. Init => Exclusion
  BY DEF Init, Exclusion, InLock
<1>2. Exclusion => WorkerCallsExclusive
  BY DEF Exclusion, WorkerCallsExclusive, WorkerCalls, InLock
<1>3. TypeOK /\ Exclusion /\ [Next]_vars => Exclusion'
  BY ExclusionStep
<1>4. QED
  BY <1>1, <1>2, <1>3, Typed, PTL DEF Spec
-----------------------------------------------------------------------------
(* No lock is left behind                                                   *)

\* The faults after which a lock has to wait for its TTL.
ReleasesRun == {"db", "crash"} \intersect Faults = {}

\* The holder of a lock is inside the try of a request for that account.
Held == \A a \in Accounts :
          lockedBy[a] # None => pc[lockedBy[a]] \in InLock /\ acct[lockedBy[a]] = a

LEMMA HeldStep == ReleasesRun /\ TypeOK /\ Held /\ [Next]_vars => Held'
<1> SUFFICES ASSUME ReleasesRun, TypeOK, Held, [Next]_vars PROVE Held'
  OBVIOUS
<1> USE ConstantsAssumption DEF Held, TypeOK, InLock
<1>1. ASSUME NEW q \in Requests, \A p \in Requests \ {q} : pc'[p] = pc[p],
             pc[q] \in InLock => pc'[q] \in InLock,
             UNCHANGED <<lockedBy, acct>>
      PROVE  Held'
  BY <1>1
<1>2. ASSUME NEW q \in Requests, Begin(q) \/ AssertOwned(q) \/ FindRow(q) \/ FindAgain(q)
      PROVE  Held'
  BY <1>1, <1>2 DEF Begin, AssertOwned, FindRow, FindAgain
<1>3. ASSUME NEW q \in Requests, InsertRow(q) PROVE Held'
  BY <1>1, <1>3 DEF InsertRow
<1>4. ASSUME NEW q \in Requests, AcquireLock(q) PROVE Held'
  BY <1>4 DEF AcquireLock
<1>5. ASSUME NEW q \in Requests, ReleaseLock(q) PROVE Held'
  BY <1>5 DEF ReleaseLock, Unlock
<1>6. ASSUME NEW q \in Requests, WorkerServes(q) \/ WorkerRefuses(q) \/ CallLost(q)
      PROVE  Held'
  BY <1>1, <1>6 DEF WorkerServes, WorkerRefuses, CallLost, OnRefusal
<1>7. ASSUME NEW q \in Requests, WriteRow(q) \/ WriteAudit(q) \/ AnswerStatus(q)
      PROVE  Held'
  BY <1>1, <1>7 DEF WriteRow, WriteAudit, AnswerStatus
<1>8. ASSUME NEW q \in Requests, LateCall(q) PROVE Held'
  BY <1>8 DEF LateCall
<1>9. ASSUME NEW a \in Accounts, LockLapses(a) \/ TicketExpires(a) \/ Reaped(a) PROVE Held'
  BY <1>9 DEF LockLapses, TicketExpires, Reaped
<1>10. ASSUME NEW a \in Accounts, RemoveAccount(a) PROVE Held'
  BY <1>10 DEF RemoveAccount
<1>11. ASSUME UNCHANGED vars PROVE Held'
  BY <1>11 DEF vars
<1> HIDE DEF Held, TypeOK
<1>12. QED
  BY <1>2, <1>3, <1>4, <1>5, <1>6, <1>7, <1>8, <1>9, <1>10, <1>11
     DEF Next, Step, Finished, DbFails, Crash, ReleasesRun

\* While the API stays up and its statements succeed, every way out of open()
\* and stop() releases the lock: no account waits for the TTL.
THEOREM NoneAbandoned == ReleasesRun => (Spec => []NoAbandonedLock)
<1> SUFFICES ASSUME ReleasesRun PROVE Spec => []NoAbandonedLock
  OBVIOUS
<1>1. Init => Held
  BY DEF Init, Held
<1>2. Held => NoAbandonedLock
  BY DEF Held, NoAbandonedLock
<1>3. TypeOK /\ Held /\ [Next]_vars => Held'
  BY HeldStep
<1>4. QED
  BY <1>1, <1>2, <1>3, Typed, PTL DEF Spec
-----------------------------------------------------------------------------
(* Tickets                                                                  *)

\* While calls are timely a device loses its ticket only to the request that holds
\* the lock of the account, or with the account.
THEOREM TicketsUnderLock == CallsAreTimely => (Spec => TicketUnderLock)
<1> SUFFICES ASSUME CallsAreTimely PROVE Spec => TicketUnderLock
  OBVIOUS
<1> DEFINE Taken ==
      \A a \in Accounts :
        ticket[a] # None /\ ticket'[a] # ticket[a]
          => \/ a \notin rows'
             \/ lockedBy[a] # None /\ acct[lockedBy[a]] = a /\ pc[lockedBy[a]] = "write"
<1>1. Init => Exclusion
  BY DEF Init, Exclusion, InLock
<1>2. TypeOK /\ Exclusion /\ [Next]_vars => Exclusion'
  BY ExclusionStep
<1>3. TypeOK /\ Exclusion /\ [Next]_vars => Taken
  <2> SUFFICES ASSUME TypeOK, Exclusion, [Next]_vars PROVE Taken
    OBVIOUS
  <2>1. ASSUME NEW q \in Requests, WriteRow(q) PROVE Taken
    <3>1. CASE acct[q] \notin rows
      BY <2>1, <3>1 DEF WriteRow, row
    <3>2. CASE acct[q] \in rows
      <4>1. pc[q] = "write" /\ \A a \in Accounts : a # acct[q] => ticket'[a] = ticket[a]
        BY <2>1, <3>2 DEF WriteRow, Goes, TypeOK
      <4>2. lockedBy[acct[q]] = q
        BY <3>2, <4>1 DEF Exclusion, InLock, TypeOK
      <4>3. QED
        BY <4>1, <4>2, ConstantsAssumption
    <3>3. QED
      BY <3>1, <3>2
  <2>2. ASSUME NEW a \in Accounts, RemoveAccount(a) PROVE Taken
    BY <2>2 DEF RemoveAccount, TypeOK
  <2>3. ASSUME UNCHANGED ticket PROVE Taken
    BY <2>3
  <2> HIDE DEF Taken
  <2>4. QED
    BY <2>1, <2>2, <2>3
       DEF Next, Step, Begin, AssertOwned, FindRow, InsertRow, FindAgain, AcquireLock,
           ReleaseLock, LockLapses, WorkerServes, WorkerRefuses, CallLost, LateCall,
           WriteAudit, AnswerStatus, DbFails, Crash, TicketExpires, Reaped, Finished, vars, row
<1>4. QED
  BY <1>1, <1>2, <1>3, Typed, PTL DEF Spec, TicketUnderLock
-----------------------------------------------------------------------------
(* Internal errors                                                          *)

\* A request past its INSERT has a row to work on unless the account was deleted,
\* and rows go with their accounts only.
Rowed ==
  /\ \A q \in Requests :
       pc[q] \in {"find", "acquire", "live"} \union InLock => acct[q] \in rows \/ acct[q] \notin accounts
  /\ ErrorOnlyIfDeleted

LEMMA RowedStep == "db" \notin Faults /\ TypeOK /\ Rowed /\ [Next]_vars => Rowed'
<1> SUFFICES ASSUME "db" \notin Faults, TypeOK, Rowed, [Next]_vars PROVE Rowed'
  OBVIOUS
<1> USE ConstantsAssumption DEF Rowed, TypeOK, InLock, ErrorOnlyIfDeleted, asked, row
<1>1. ASSUME NEW q \in Requests, Begin(q) \/ AssertOwned(q) \/ FindRow(q) \/ FindAgain(q) PROVE Rowed'
  BY <1>1 DEF Begin, AssertOwned, FindRow, FindAgain, Goes, Answers, AfterEnsure
<1>2. ASSUME NEW q \in Requests, InsertRow(q) PROVE Rowed'
  BY <1>2 DEF InsertRow, Goes, Answers, AfterEnsure, OnP2002
<1>3. ASSUME NEW q \in Requests, AcquireLock(q) \/ ReleaseLock(q) PROVE Rowed'
  BY <1>3 DEF AcquireLock, ReleaseLock, Goes, Answers
<1>4. ASSUME NEW q \in Requests, WorkerServes(q) \/ WorkerRefuses(q) \/ CallLost(q) \/ LateCall(q)
      PROVE  Rowed'
  BY <1>4 DEF WorkerServes, WorkerRefuses, CallLost, LateCall, OnRefusal, Goes, Answers
<1>5. ASSUME NEW q \in Requests, WriteRow(q) \/ WriteAudit(q) \/ AnswerStatus(q) PROVE Rowed'
  BY <1>5 DEF WriteRow, WriteAudit, AnswerStatus, Goes, Answers
<1>6. ASSUME NEW q \in Requests, DbFails(q) PROVE Rowed'
  BY <1>6 DEF DbFails
<1>7. ASSUME NEW a \in Accounts, LockLapses(a) \/ TicketExpires(a) \/ Reaped(a) PROVE Rowed'
  BY <1>7 DEF LockLapses, TicketExpires, Reaped
<1>8. ASSUME NEW a \in Accounts, RemoveAccount(a) PROVE Rowed'
  BY <1>8 DEF RemoveAccount
<1>9. ASSUME Crash PROVE Rowed'
  BY <1>9 DEF Crash, Active
<1>10. ASSUME UNCHANGED vars PROVE Rowed'
  BY <1>10 DEF vars
<1> HIDE DEF Rowed, TypeOK
<1>11. QED
  BY <1>1, <1>2, <1>3, <1>4, <1>5, <1>6, <1>7, <1>8, <1>9, <1>10 DEF Next, Step, Finished

\* As long as no statement fails, racing requests get a conflict and not an internal
\* error, unless their account is deleted under them.
THEOREM NoInternalErrors == "db" \notin Faults => (Spec => []ErrorOnlyIfDeleted)
<1> SUFFICES ASSUME "db" \notin Faults PROVE Spec => []ErrorOnlyIfDeleted
  OBVIOUS
<1>1. Init => Rowed
  BY DEF Init, Rowed, InLock, ErrorOnlyIfDeleted
<1>2. TypeOK /\ Rowed /\ [Next]_vars => Rowed'
  BY RowedStep
<1>3. Rowed => ErrorOnlyIfDeleted
  BY DEF Rowed
<1>4. QED
  BY <1>1, <1>2, <1>3, Typed, PTL DEF Spec
-----------------------------------------------------------------------------
(* The row and the worker                                                   *)

\* Calls, statements and the API process do not fail; the worker may refuse calls,
\* stop idle sessions and restart, and accounts may be deleted.
TellsAll == {"lost", "db", "slow", "crash"} \intersect Faults = {}

\* What the worker runs after the call of request q.
ToldBy(q) == IF op[q] = "open" THEN "RUNNING" ELSE "STOPPED"

\* Between the call and the row the two differ; then the request that is about to
\* write the row is the one that made the last call.  A session that the worker
\* stopped by itself leaves a row that says RUNNING.
Honest ==
  \A a \in accounts :
    /\ ticket[a] # None => status[a] = "RUNNING"
    /\ a \in reaped => worker[a] = "STOPPED"
    /\ \A q \in Requests : acct[q] = a /\ pc[q] = "write"
                            => worker[a] = ToldBy(q) \/ (a \in reaped /\ op[q] = "open")
    /\ (\A q \in Requests : acct[q] = a => pc[q] # "write")
         => status[a] = worker[a] \/ (a \in reaped /\ status[a] = "RUNNING")

LEMMA HonestStep ==
  TellsAll /\ TypeOK /\ Exclusion /\ Rowed /\ Honest /\ [Next]_vars => Honest'
<1> SUFFICES ASSUME TellsAll, TypeOK, Exclusion, Rowed, Honest, [Next]_vars PROVE Honest'
  OBVIOUS
<1> USE ConstantsAssumption DEF TypeOK
<1>1. ASSUME NEW q \in Requests,
             \A p \in Requests \ {q} : pc'[p] = pc[p], pc[q] # "write", pc'[q] # "write",
             UNCHANGED <<accounts, status, ticket, worker, reaped, op, acct>>
      PROVE  Honest'
  BY <1>1 DEF Honest, ToldBy
<1>2. ASSUME NEW q \in Requests, Begin(q) \/ AssertOwned(q) \/ FindRow(q) \/ FindAgain(q)
      PROVE  Honest'
  BY <1>1, <1>2 DEF Begin, AssertOwned, FindRow, FindAgain, AfterEnsure
<1>3. ASSUME NEW q \in Requests, InsertRow(q) \/ AcquireLock(q) \/ ReleaseLock(q) PROVE Honest'
  BY <1>1, <1>3 DEF InsertRow, AcquireLock, ReleaseLock, AfterEnsure, OnP2002
<1>4. ASSUME NEW q \in Requests, WorkerRefuses(q) \/ WriteAudit(q) \/ AnswerStatus(q)
      PROVE  Honest'
  BY <1>1, <1>4 DEF WorkerRefuses, WriteAudit, AnswerStatus, OnRefusal
<1>5. ASSUME NEW q \in Requests, WorkerServes(q) PROVE Honest'
  <2>1. \A p \in Requests : pc[p] = "write" => acct[p] # acct[q]
    BY <1>5 DEF WorkerServes, Exclusion, InLock
  <2>2. QED
    BY <1>5, <2>1 DEF WorkerServes, CarriedOut, Honest, ToldBy
<1>6. ASSUME NEW q \in Requests, WriteRow(q) PROVE Honest'
  <2>1. \A p \in Requests : pc[p] = "write" /\ acct[p] = acct[q] => p = q
    BY <1>6 DEF WriteRow, Exclusion, InLock
  <2>2. CASE acct[q] \in rows
    BY <1>6, <2>1, <2>2 DEF WriteRow, NewTicket, Honest, ToldBy
  <2>3. CASE acct[q] \notin rows
    <3>1. acct[q] \notin accounts
      BY <1>6, <2>3 DEF WriteRow, Rowed, InLock
    <3>2. QED
      BY <1>6, <2>3, <3>1 DEF WriteRow, Honest, ToldBy
  <2>4. QED
    BY <2>2, <2>3
<1>7. ASSUME NEW a \in Accounts, LockLapses(a) \/ TicketExpires(a) PROVE Honest'
  BY <1>7 DEF LockLapses, TicketExpires, Honest, ToldBy
<1>12. ASSUME NEW a \in Accounts, Reaped(a) PROVE Honest'
  <2>1. /\ worker[a] = "RUNNING" /\ worker' = [worker EXCEPT ![a] = "STOPPED"]
        /\ reaped' = reaped \union {a}
        /\ UNCHANGED <<accounts, status, ticket, op, acct, pc>>
    BY <1>12 DEF Reaped
  <2>2. QED
    BY <2>1 DEF Honest, ToldBy
<1>8. ASSUME NEW a \in Accounts, RemoveAccount(a) PROVE Honest'
  BY <1>8 DEF RemoveAccount, Honest, ToldBy
<1>9. ASSUME UNCHANGED vars PROVE Honest'
  BY <1>9 DEF vars, Honest, ToldBy
<1>10. ASSUME NEW q \in Requests, LateCall(q) PROVE FALSE
  BY <1>10 DEF LateCall, Exclusion
<1> HIDE DEF TypeOK
<1>11. QED
  BY <1>2, <1>3, <1>4, <1>5, <1>6, <1>7, <1>8, <1>9, <1>10, <1>12
     DEF Next, Step, Finished, CallLost, DbFails, Crash, TellsAll

\* While calls, statements and the API do not fail: whatever requests race for an
\* account, are refused or lose their account, and whatever the worker stops by
\* itself, the row misses no running session once nobody is busy with it, and it is
\* wrong about none but one that the worker stopped.
THEOREM RowTrue == TellsAll => (Spec => []RowMatchesWorker)
<1> SUFFICES ASSUME TellsAll PROVE Spec => []RowMatchesWorker
  OBVIOUS
<1>1. CallsAreTimely /\ "db" \notin Faults
  BY DEF TellsAll, CallsAreTimely
<1>2. Init => Exclusion /\ Rowed /\ Honest
  BY DEF Init, Exclusion, InLock, Rowed, ErrorOnlyIfDeleted, Honest
<1>3. TypeOK /\ Exclusion /\ Rowed /\ Honest /\ [Next]_vars => (Exclusion /\ Rowed /\ Honest)'
  BY <1>1, ExclusionStep, RowedStep, HonestStep
<1>4. TypeOK /\ Honest => RowMatchesWorker
  BY DEF TypeOK, Honest, RowMatchesWorker
<1>5. QED
  BY <1>2, <1>3, <1>4, Typed, PTL DEF Spec
-----------------------------------------------------------------------------
(* Conflicts                                                                *)

\* Whoever was told of a conflict met somebody who has the lock or had it.
Met ==
  /\ \A q \in Requests : pc[q] = "acquire" \/ pc[q] \in InLock => op[q] # "status"
  /\ \A q \in Requests : pc[q] \in InLock => result[q] # "conflict"
  /\ \A q \in Requests : pc[q] # "done" => result[q] # "conflict"
  /\ \A q \in Requests :
       result[q] = "conflict" /\ acct[q] \in accounts =>
         \E r \in Requests : /\ acct[r] = acct[q] /\ op[r] # "status"
                             /\ pc[r] \in InLock \/ (pc[r] = "done" /\ result[r] # "conflict")

LEMMA MetStep == ReleasesRun /\ TypeOK /\ Held /\ Rowed /\ Met /\ [Next]_vars => Met'
<1> SUFFICES ASSUME ReleasesRun, TypeOK, Held, Rowed, Met, [Next]_vars PROVE Met'
  OBVIOUS
<1> USE ConstantsAssumption DEF TypeOK, InLock
<1>1. ASSUME NEW q \in Requests,
             \A p \in Requests \ {q} : pc'[p] = pc[p] /\ result'[p] = result[p],
             pc[q] # "done", result'[q] # "conflict",
             pc[q] \in InLock => pc'[q] \in InLock \union {"done"},
             pc'[q] = "acquire" \/ pc'[q] \in InLock => op[q] # "status",
             UNCHANGED <<accounts, op, acct>>
      PROVE  Met'
  BY <1>1 DEF Met
<1>2. ASSUME NEW q \in Requests, Begin(q) \/ AssertOwned(q) \/ FindRow(q) \/ FindAgain(q)
      PROVE  Met'
  BY <1>1, <1>2 DEF Begin, AssertOwned, FindRow, FindAgain, AfterEnsure, Met
<1>3. ASSUME NEW q \in Requests, InsertRow(q) PROVE Met'
  BY <1>1, <1>3 DEF InsertRow, AfterEnsure, OnP2002, Met
<1>4. ASSUME NEW q \in Requests, ReleaseLock(q) \/ WorkerServes(q) \/ WorkerRefuses(q) \/ CallLost(q)
      PROVE  Met'
  BY <1>1, <1>4 DEF ReleaseLock, WorkerServes, WorkerRefuses, CallLost, OnRefusal, Met
<1>5. ASSUME NEW q \in Requests, WriteRow(q) \/ WriteAudit(q) \/ AnswerStatus(q) PROVE Met'
  BY <1>1, <1>5 DEF WriteRow, WriteAudit, AnswerStatus, Met
<1>6. ASSUME NEW q \in Requests, AcquireLock(q) PROVE Met'
  <2>1. CASE acct[q] \in rows /\ CanLock(acct[q])
    BY <1>1, <1>6, <2>1 DEF AcquireLock, Met
  <2>2. CASE ~(acct[q] \in rows /\ CanLock(acct[q]))
    <3>1. /\ pc[q] = "acquire" /\ pc' = [pc EXCEPT ![q] = "done"]
          /\ result' = [result EXCEPT ![q] = "conflict"] /\ UNCHANGED <<accounts, op, acct>>
      BY <1>6, <2>2 DEF AcquireLock
    <3>2. ASSUME acct[q] \in accounts
          PROVE  \E r \in Requests : pc[r] \in InLock /\ acct[r] = acct[q]
      <4>1. acct[q] \in rows
        BY <3>1, <3>2 DEF Rowed
      <4>2. lockedBy[acct[q]] # None
        BY <2>2, <4>1 DEF CanLock
      <4>3. QED
        BY <4>2 DEF Held
    <3>3. \A r \in Requests : r # q /\ (pc[r] \in InLock \/ (pc[r] = "done" /\ result[r] # "conflict"))
            => pc'[r] \in InLock \/ (pc'[r] = "done" /\ result'[r] # "conflict")
      BY <3>1
    <3>4. QED
      BY <3>1, <3>2, <3>3 DEF Met
  <2>3. QED
    BY <2>1, <2>2
<1>7. ASSUME NEW q \in Requests, LateCall(q) PROVE Met'
  BY <1>7 DEF LateCall, Met
<1>8. ASSUME NEW a \in Accounts, LockLapses(a) \/ TicketExpires(a) \/ Reaped(a) PROVE Met'
  BY <1>8 DEF LockLapses, TicketExpires, Reaped, Met
<1>9. ASSUME NEW a \in Accounts, RemoveAccount(a) PROVE Met'
  BY <1>9 DEF RemoveAccount, Met
<1>10. ASSUME UNCHANGED vars PROVE Met'
  BY <1>10 DEF vars, Met
<1> HIDE DEF TypeOK
<1>11. QED
  BY <1>2, <1>3, <1>4, <1>5, <1>6, <1>7, <1>8, <1>9, <1>10
     DEF Next, Step, Finished, DbFails, Crash, ReleasesRun

\* Of requests that race for an account one gets the lock, even when it is taken over
\* from a slow one: they do not all send each other away.
THEOREM OneGetsLock == ReleasesRun => (Spec => []SomeoneGetsLock)
<1> SUFFICES ASSUME ReleasesRun PROVE Spec => []SomeoneGetsLock
  OBVIOUS
<1>1. "db" \notin Faults
  BY DEF ReleasesRun
<1>2. Init => Held /\ Rowed /\ Met
  BY DEF Init, Held, Rowed, ErrorOnlyIfDeleted, InLock, Met
<1>3. TypeOK /\ Held /\ Rowed /\ Met /\ [Next]_vars => (Held /\ Rowed /\ Met)'
  BY <1>1, HeldStep, RowedStep, MetStep
<1>4. TypeOK /\ Met => SomeoneGetsLock
  BY DEF TypeOK, Met, SomeoneGetsLock, InLock
<1>5. QED
  BY <1>2, <1>3, <1>4, Typed, PTL DEF Spec
=============================================================================
