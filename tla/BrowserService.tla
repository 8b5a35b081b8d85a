---------------------------- MODULE BrowserService ----------------------------
(***************************************************************************)
(* The API's BrowserService: open, stop and status of the session of an    *)
(* account, the Postgres row with the per-account lock and the VNC ticket, *)
(* and the calls to the worker.  Requests run concurrently; an action is   *)
(* what a request does between two awaits, which is one SQL statement or   *)
(* one HTTP call.  The worker appears as the status of each account; what  *)
(* is behind it is module SessionManager.                                  *)
(***************************************************************************)
EXTENDS Naturals, FiniteSets

CONSTANTS Accounts,
          Requests,   \* one id for each request: its randomUUID and its ticket
          None,
          Ops,        \* the operations requests ask for
          Faults      \* what may go wrong

\* refuse: the worker answers with an error; lost: the connection fails, and the
\* worker may carry the call out all the same; db: a statement fails; slow: a
\* request holds the lock for longer than LOCK_TTL_MS; crash: the API restarts;
\* reap: the worker stops a session by itself; delete: the account is removed.
FaultKinds == {"refuse", "lost", "db", "slow", "crash", "reap", "delete"}

ASSUME ConstantsAssumption ==
  /\ None \notin Requests
  /\ Ops \subseteq {"open", "stop", "status"}
  /\ Faults \subseteq FaultKinds

VARIABLES
  accounts,   \* rows of starlink_accounts
  rows,       \* accounts that have a row in browser_sessions
  status,     \* its status
  ticket,     \* its vncTicketHash: the open that issued the ticket, or None
  expired,    \* the tickets whose vncTicketExpiresAt has passed
  lockedBy,   \* its lockedByRequestId, None when lockedAt is null
  lapsed,     \* accounts whose lockedAt is older than LOCK_TTL_MS
  op, acct,   \* what request q asks for
  pc,         \* the await request q is at
  result,     \* what it answered
  read,       \* the status in the row as ensureSessionRow returned it to status()
  worker,     \* worker[a]: the status of the worker's session
  late,       \* calls the API gave up on and the worker may still carry out
  reaped      \* history: accounts whose session the worker stopped by itself since
              \* the last call it carried out for them

vars == <<accounts, rows, status, ticket, expired, lockedBy, lapsed, op, acct, pc,
          result, read, worker, late, reaped>>

\* `finally` has yet to release the lock of a request in one of these.
InLock == {"call", "write", "audit", "release"}
Active == {"assert", "ensure", "insert", "find", "acquire", "live"} \union InLock
Results == {"none", "ok", "conflict", "notfound", "unavailable", "error", "aborted",
            "RUNNING", "STOPPED"}

TypeOK ==
  /\ rows \subseteq accounts /\ accounts \subseteq Accounts
  /\ status \in [Accounts -> {"RUNNING", "STOPPED"}]
  /\ ticket \in [Accounts -> Requests \union {None}]
  /\ expired \subseteq Requests
  /\ lockedBy \in [Accounts -> Requests \union {None}]
  /\ lapsed \subseteq Accounts
  /\ op \in [Requests -> {"open", "stop", "status"}]
  /\ acct \in [Requests -> Accounts]
  /\ pc \in [Requests -> Active \union {"idle", "done"}]
  /\ result \in [Requests -> Results]
  /\ read \in [Requests -> {"RUNNING", "STOPPED"}]
  /\ worker \in [Accounts -> {"RUNNING", "STOPPED"}]
  /\ late \subseteq Requests
  /\ reaped \subseteq Accounts

Init ==
  /\ accounts = Accounts
  /\ rows = {}
  /\ status = [a \in Accounts |-> "STOPPED"]
  /\ ticket = [a \in Accounts |-> None]
  /\ expired = {}
  /\ lockedBy = [a \in Accounts |-> None]
  /\ lapsed = {}
  /\ op \in [Requests -> Ops]
  /\ acct \in [Requests -> Accounts]
  /\ pc = [q \in Requests |-> "idle"]
  /\ result = [q \in Requests |-> "none"]
  /\ read = [q \in Requests |-> "STOPPED"]
  /\ worker = [a \in Accounts |-> "STOPPED"]
  /\ late = {}
  /\ reaped = {}

row == <<status, ticket, expired>>
lock == <<lockedBy, lapsed>>
asked == <<op, acct>>
outside == <<worker, late, reaped>>

-----------------------------------------------------------------------------
(* Plausible bugs, one for each property the runs check.                    *)

OnlyExpiredLocks(a) == a \in lapsed
NoLockCheck(a) == TRUE
ReleasesAnyLock(q) == /\ lockedBy' = [lockedBy EXCEPT ![acct[q]] = None]
                      /\ lapsed' = lapsed \ {acct[q]}
UpsertOnly(q) == "error"
SkipsFinally == "done"
StopKeepsTicket(q) == IF op[q] = "open" THEN q ELSE ticket[acct[q]]
RetriesForever == "call"
-----------------------------------------------------------------------------
Goes(q, from, to) == pc[q] = from /\ pc' = [pc EXCEPT ![q] = to]

\* The request answers r; `to` is "release" inside the try of open() and stop().
Answers(q, from, to, r) == /\ Goes(q, from, to)
                           /\ result' = [result EXCEPT ![q] = r]

Begin(q) ==
  /\ Goes(q, "idle", "assert")
  /\ UNCHANGED <<accounts, rows, row, lock, asked, read, result, outside>>

\* assertOwnedAccount (the owner of an account does not change; see AccountRecords
\* in README.md)
AssertOwned(q) ==
  /\ \/ acct[q] \in accounts /\ Goes(q, "assert", "ensure") /\ UNCHANGED result
     \/ acct[q] \notin accounts /\ Answers(q, "assert", "done", "notfound")
  /\ UNCHANGED <<accounts, rows, row, lock, asked, read, outside>>

-----------------------------------------------------------------------------
(* ensureSessionRow: the upsert is a SELECT, then an INSERT                 *)

AfterEnsure(q) == IF op[q] = "status" THEN "live" ELSE "acquire"

\* Only status() uses the row it is given.
Reads(q, s) == read' = [read EXCEPT ![q] = IF op[q] = "status" THEN s ELSE @]

FindRow(q) ==
  /\ \/ /\ acct[q] \in rows
        /\ Goes(q, "ensure", AfterEnsure(q))
        /\ Reads(q, status[acct[q]])
     \/ acct[q] \notin rows /\ Goes(q, "ensure", "insert") /\ UNCHANGED read
  /\ UNCHANGED <<accounts, rows, row, lock, asked, result, outside>>

\* A unique violation (P2002) is caught: another request inserted the row.
OnP2002(q) == "find"

InsertRow(q) ==
  /\ \/ /\ acct[q] \in accounts \ rows
        /\ rows' = rows \union {acct[q]}
        /\ Goes(q, "insert", AfterEnsure(q))
        /\ Reads(q, "STOPPED")
        /\ UNCHANGED result
     \/ /\ acct[q] \in rows
        /\ UNCHANGED <<rows, read>>
        /\ IF OnP2002(q) = "find" THEN Goes(q, "insert", "find") /\ UNCHANGED result
           ELSE Answers(q, "insert", "done", OnP2002(q))
     \/ /\ acct[q] \notin accounts   \* foreign key violation
        /\ UNCHANGED <<rows, read>>
        /\ Answers(q, "insert", "done", "error")
  /\ UNCHANGED <<accounts, row, lock, asked, outside>>

\* findUniqueOrThrow
FindAgain(q) ==
  /\ \/ /\ acct[q] \in rows
        /\ Goes(q, "find", AfterEnsure(q))
        /\ Reads(q, status[acct[q]])
        /\ UNCHANGED result
     \/ acct[q] \notin rows /\ Answers(q, "find", "done", "error") /\ UNCHANGED read
  /\ UNCHANGED <<accounts, rows, row, lock, asked, outside>>
-----------------------------------------------------------------------------
(* The lock                                                                 *)

CanLock(a) == lockedBy[a] = None \/ a \in lapsed

\* One UPDATE ... WHERE: it matches the row or not.
AcquireLock(q) ==
  /\ \/ /\ acct[q] \in rows /\ CanLock(acct[q])
        /\ Goes(q, "acquire", "call")
        /\ lockedBy' = [lockedBy EXCEPT ![acct[q]] = q]
        /\ lapsed' = lapsed \ {acct[q]}
        /\ UNCHANGED result
     \/ /\ ~(acct[q] \in rows /\ CanLock(acct[q]))
        /\ Answers(q, "acquire", "done", "conflict")
        /\ UNCHANGED lock
  /\ UNCHANGED <<accounts, rows, row, asked, read, outside>>

\* UPDATE ... WHERE lockedByRequestId = requestId
Unlock(q) == IF lockedBy[acct[q]] = q
             THEN /\ lockedBy' = [lockedBy EXCEPT ![acct[q]] = None]
                  /\ lapsed' = lapsed \ {acct[q]}
             ELSE UNCHANGED lock

ReleaseLock(q) ==
  /\ Goes(q, "release", "done")
  /\ Unlock(q)
  /\ UNCHANGED <<accounts, rows, row, asked, read, result, outside>>

\* The lock gets older than its TTL: because its request was slow, or because it
\* died or failed to release it.
LockLapses(a) ==
  /\ lockedBy[a] # None
  /\ "slow" \in Faults \/ pc[lockedBy[a]] \notin InLock
  /\ lapsed' = lapsed \union {a}
  /\ UNCHANGED <<accounts, rows, row, lockedBy, asked, read, pc, result, outside>>
-----------------------------------------------------------------------------
(* The call to the worker, then the row, then the audit log                 *)

CarriedOut(q) ==
  /\ worker' = [worker EXCEPT ![acct[q]] = IF op[q] = "open" THEN "RUNNING" ELSE "STOPPED"]
  /\ reaped' = reaped \ {acct[q]}

OnRefusal == "release"

WorkerServes(q) ==
  /\ Goes(q, "call", "write")
  /\ CarriedOut(q)
  /\ UNCHANGED <<accounts, rows, row, lock, asked, read, result, late>>

\* 503 at the concurrency limit, 500 when the start failed.
WorkerRefuses(q) ==
  /\ "refuse" \in Faults
  /\ Answers(q, "call", OnRefusal, "unavailable")
  /\ UNCHANGED <<accounts, rows, row, lock, asked, read, outside>>

\* fetch rejects: "Browser worker is unreachable"; the worker may not know.
CallLost(q) ==
  /\ "lost" \in Faults
  /\ Answers(q, "call", OnRefusal, "unavailable")
  /\ late' = late \union {q}
  /\ UNCHANGED <<accounts, rows, row, lock, asked, read, worker, reaped>>

LateCall(q) ==
  /\ q \in late
  /\ late' = late \ {q}
  /\ CarriedOut(q) \/ UNCHANGED <<worker, reaped>>
  /\ UNCHANGED <<accounts, rows, row, lock, asked, read, pc, result>>

\* The ticket of an open is fresh; a stop clears it.
NewTicket(q) == IF op[q] = "open" THEN q ELSE None

WriteRow(q) ==
  /\ \/ /\ acct[q] \in rows
        /\ Goes(q, "write", "audit")
        /\ status' = [status EXCEPT ![acct[q]] = IF op[q] = "open" THEN "RUNNING" ELSE "STOPPED"]
        /\ ticket' = [ticket EXCEPT ![acct[q]] = NewTicket(q)]
        /\ UNCHANGED <<expired, result>>
     \/ /\ acct[q] \notin rows   \* update() of a row that is gone
        /\ Answers(q, "write", "release", "error")
        /\ UNCHANGED row
  /\ UNCHANGED <<accounts, rows, lock, asked, read, outside>>

WriteAudit(q) ==
  /\ Answers(q, "audit", "release", "ok")
  /\ UNCHANGED <<accounts, rows, row, lock, asked, read, outside>>

\* status(): the worker's answer, else (it cannot be reached or refuses) the row as
\* it was read before the call.
AnswerStatus(q) ==
  /\ \/ Answers(q, "live", "done", worker[acct[q]])
     \/ /\ {"lost", "refuse"} \intersect Faults # {}
        /\ Answers(q, "live", "done", read[q])
  /\ UNCHANGED <<accounts, rows, row, lock, asked, read, outside>>

\* A statement fails: inside the try `finally` still runs; when it is the release
\* that fails the lock stays.
DbFails(q) ==
  /\ "db" \in Faults
  /\ \/ \E s \in {"write", "audit"} : Answers(q, s, "release", "error")
     \/ \E s \in {"assert", "ensure", "insert", "find", "acquire", "release"} :
           Answers(q, s, "done", "error")
  /\ UNCHANGED <<accounts, rows, row, lock, asked, read, outside>>
-----------------------------------------------------------------------------
(* Around the requests                                                      *)

\* The API process restarts: its requests are gone, their locks and calls stay.
Crash ==
  /\ "crash" \in Faults
  /\ pc' = [q \in Requests |-> IF pc[q] \in Active THEN "done" ELSE pc[q]]
  /\ result' = [q \in Requests |-> IF pc[q] \in Active THEN "aborted" ELSE result[q]]
  /\ late' = late \union {q \in Requests : pc[q] = "call"}
  /\ UNCHANGED <<accounts, rows, row, lock, asked, read, worker, reaped>>

TicketExpires(a) ==
  /\ ticket[a] # None
  /\ expired' = expired \union {ticket[a]}
  /\ UNCHANGED <<accounts, rows, status, ticket, lock, asked, read, pc, result, outside>>

\* The worker reaps an idle session, or restarts.
Reaped(a) ==
  /\ "reap" \in Faults
  /\ worker[a] = "RUNNING"
  /\ worker' = [worker EXCEPT ![a] = "STOPPED"]
  /\ reaped' = reaped \union {a}
  /\ UNCHANGED <<accounts, rows, row, lock, asked, read, pc, result, late>>

\* AccountsService.remove: the row of the session goes with the account, the
\* worker is not told.
RemoveAccount(a) ==
  /\ "delete" \in Faults
  /\ a \in accounts
  /\ accounts' = accounts \ {a}
  /\ rows' = rows \ {a}
  /\ status' = [status EXCEPT ![a] = "STOPPED"]
  /\ ticket' = [ticket EXCEPT ![a] = None]
  /\ lockedBy' = [lockedBy EXCEPT ![a] = None]
  /\ lapsed' = lapsed \ {a}
  /\ UNCHANGED <<expired, asked, read, pc, result, outside>>

Step(q) ==
  \/ AssertOwned(q) \/ FindRow(q) \/ InsertRow(q) \/ FindAgain(q)
  \/ AcquireLock(q) \/ ReleaseLock(q)
  \/ WorkerServes(q) \/ WorkerRefuses(q) \/ CallLost(q)
  \/ WriteRow(q) \/ WriteAudit(q) \/ AnswerStatus(q) \/ DbFails(q)

\* Every request has been answered: nothing need happen any more.
Quiet == \A q \in Requests : pc[q] = "done"
Finished == Quiet /\ UNCHANGED vars

Next ==
  \/ \E q \in Requests : Begin(q) \/ Step(q) \/ LateCall(q)
  \/ \E a \in Accounts : LockLapses(a) \/ TicketExpires(a) \/ Reaped(a) \/ RemoveAccount(a)
  \/ Crash
  \/ Finished

Spec == Init /\ [][Next]_vars

\* Statements and calls return (fetch gives up by itself); time passes.
Fairness == /\ \A q \in Requests : WF_vars(Step(q))
            /\ \A a \in Accounts : WF_vars(LockLapses(a))

FairSpec == Spec /\ Fairness
-----------------------------------------------------------------------------
(* Properties                                                               *)

\* The calls the worker is carrying out, or may yet carry out, for account a.
WorkerCalls(a) == {q \in Requests : acct[q] = a /\ (pc[q] = "call" \/ q \in late)}

\* The lock "stops two requests (...) from both talking to the worker for the
\* same account concurrently".
WorkerCallsExclusive ==
  \A q, r \in Requests : pc[q] = "call" /\ r \in WorkerCalls(acct[q]) => q = r

\* Whatever happens, a lock is lost only by the release of its own request, by
\* its TTL or with its account: a request that overstayed does not free the lock
\* of the one that took over.
HolderKeepsLock ==
  [][\A a \in Accounts :
       lockedBy[a] # None /\ lockedBy'[a] # lockedBy[a]
         => \/ a \in lapsed \/ a \notin rows'
            \/ acct[lockedBy[a]] = a /\ pc[lockedBy[a]] = "release"]_vars

\* Every way out of open() and stop() releases the lock, so that nobody has to
\* wait for the TTL while the API and its database work.
NoAbandonedLock ==
  \A a \in Accounts : lockedBy[a] # None => pc[lockedBy[a]] \in InLock

\* While calls, statements and the API do not fail: when no request for an account
\* is under way, its row never misses a session the worker runs, and it tells the
\* worker's status, with a ticket for a running session only, unless the worker
\* stopped that session by itself, which it tells nobody.
RowMatchesWorker ==
  \A a \in rows :
    (\A q \in Requests : acct[q] = a => pc[q] \in {"idle", "done"})
      => /\ worker[a] = "RUNNING" => status[a] = "RUNNING"
         /\ \/ a \in reaped
            \/ status[a] = worker[a] /\ (ticket[a] # None => worker[a] = "RUNNING")

\* Requests that race fail with a conflict and never with an internal error,
\* even when none of them finds the row of the session; only those whose account
\* is deleted under them do.
ErrorOnlyIfDeleted == \A q \in Requests : result[q] = "error" => acct[q] \notin accounts

\* Of the opens and stops of an account that have all been answered not all were
\* told that another one is in progress: one of them got the lock.
SomeoneGetsLock ==
  \A a \in accounts :
    LET Contenders == {q \in Requests : acct[q] = a /\ op[q] # "status"}
    IN  Contenders # {} /\ (\A q \in Contenders : pc[q] = "done")
          => \E q \in Contenders : result[q] # "conflict"

\* The ticket a device was given is replaced or cleared only by a request that
\* holds the lock of the account, or goes with the account.
TicketUnderLock ==
  [][\A a \in Accounts :
       ticket[a] # None /\ ticket'[a] # ticket[a]
         => \/ a \notin rows'
            \/ lockedBy[a] # None /\ acct[lockedBy[a]] = a /\ pc[lockedBy[a]] = "write"]_vars

\* Every request is answered, refused or not, whatever fails.
RequestsFinish == \A q \in Requests : pc[q] \in Active ~> pc[q] = "done"
=============================================================================
