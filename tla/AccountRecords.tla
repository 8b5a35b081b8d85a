----------------------------- MODULE AccountRecords ---------------------------
(***************************************************************************)
(* AccountsService and CustomersService: the rows of several users and the *)
(* requests that read and write them.  Both look a row up with its owner   *)
(* and then write it by its id alone, in a second statement.  A request    *)
(* does one statement at a time.                                           *)
(***************************************************************************)
EXTENDS Naturals, FiniteSets

CONSTANTS Users, CustomerIds, AccountIds,
          Fields,     \* of a row; secrets are fields, encrypted or not
          Requests,
          Legacy,     \* Legacy[u]: the customer and account user u starts with
          Null,
          Faults      \* what may go wrong

\* db: a statement fails; vault: a secret does not decrypt.
FaultKinds == {"db", "vault"}

ASSUME RecordsAssumption ==
  /\ Null \notin Users \union CustomerIds \union AccountIds \union Requests
  /\ CustomerIds \intersect AccountIds = {}
  /\ Legacy \in [Users -> [customer : CustomerIds, account : AccountIds]]
  /\ \A u, v \in Users : u # v => Legacy[u].customer # Legacy[v].customer
                                  /\ Legacy[u].account # Legacy[v].account
  /\ Faults \subseteq FaultKinds

Rows == CustomerIds \union AccountIds

VARIABLES
  owner,      \* ownerUserId of each customer, Null if there is no such row
  customerOf, \* customerId of each account, Null if there is no such row
  content,    \* content[k][f]: the request that wrote field f of row k, Null at first
  pc, op,     \* the statement request q is at, and what it asks for
  user,       \* the caller
  row,        \* the row it is about
  gives,      \* the fields it provides
  seen,       \* the row as it read it
  result,
  answered,   \* history: the rows q was told
  wrote,      \* history: the rows q changed, added or removed
  maker,      \* history: who created row k
  log         \* audit_log: the reveals it has an entry of

tables == <<owner, customerOf, content, log>>
asked == <<op, user, row, gives>>
past == <<answered, wrote, maker>>
recordsVars == <<tables, pc, asked, seen, result, past>>

Ops == {"create", "get", "list", "reveal", "update", "remove"}
Statements == {"own", "create", "list", "audit", "update", "remove"}
Contents == [Fields -> Requests \union {Null}]

Exists(k) == IF k \in CustomerIds THEN owner[k] # Null ELSE customerOf[k] # Null

\* where: { id, ownerUserId } and where: { id, customer: { ownerUserId } }
OwnedBy(u, k) == Exists(k) /\ owner[IF k \in CustomerIds THEN k ELSE customerOf[k]] = u

\* An account is always an account of some customer.
RecordsTypeOK ==
  /\ owner \in [CustomerIds -> Users \union {Null}]
  /\ customerOf \in [AccountIds -> CustomerIds \union {Null}]
  /\ \A a \in AccountIds : customerOf[a] # Null => owner[customerOf[a]] # Null
  /\ content \in [Rows -> Contents]
  /\ log \subseteq Requests
  /\ pc \in [Requests -> Statements \union {"idle", "done"}]
  /\ op \in [Requests -> Ops \union {Null}]
  /\ user \in [Requests -> Users \union {Null}]
  /\ row \in [Requests -> Rows \union {Null}]
  /\ gives \in [Requests -> SUBSET Fields]
  /\ seen \in [Requests -> Contents \union {Null}]
  /\ result \in [Requests -> {"none", "ok", "notFound", "error"}]
  /\ answered \in [Requests -> SUBSET Rows]
  /\ wrote \in [Requests -> SUBSET Rows]
  /\ maker \in [Rows -> Users \union {Null}]

HasFrom(k, u) == k \in {Legacy[u].customer, Legacy[u].account}

RecordsInit ==
  /\ owner = [c \in CustomerIds |-> IF \E u \in Users : HasFrom(c, u)
                                  THEN CHOOSE u \in Users : HasFrom(c, u) ELSE Null]
  /\ customerOf = [a \in AccountIds |-> IF \E u \in Users : HasFrom(a, u)
                     THEN Legacy[CHOOSE u \in Users : HasFrom(a, u)].customer ELSE Null]
  /\ content = [k \in Rows |-> [f \in Fields |-> Null]]
  /\ maker = [k \in Rows |-> IF \E u \in Users : HasFrom(k, u)
                             THEN CHOOSE u \in Users : HasFrom(k, u) ELSE Null]
  /\ log = {}
  /\ pc = [q \in Requests |-> "idle"]
  /\ op = [q \in Requests |-> Null]
  /\ user = [q \in Requests |-> Null]
  /\ row = [q \in Requests |-> Null]
  /\ gives = [q \in Requests |-> {}]
  /\ seen = [q \in Requests |-> Null]
  /\ result = [q \in Requests |-> "none"]
  /\ answered = [q \in Requests |-> {}]
  /\ wrote = [q \in Requests |-> {}]

-----------------------------------------------------------------------------
(* Plausible bugs, one for each property the runs check.                    *)

NoForeignKey(c) == TRUE
ForgetsOwner(u, k) == Exists(k)
WholeRow(q) == [f \in Fields |-> IF f \in gives[q] THEN q ELSE seen[q][f]]
-----------------------------------------------------------------------------
(* Requests                                                                 *)

Known == {k \in Rows : maker[k] # Null}

\* The row each request is about: accounts are created in and listed by a customer,
\* customers are created and everything is searched without one.
About(o) ==
  CASE o \in {"create", "list"} -> {Null} \union (CustomerIds \intersect Known)
    [] o = "reveal" -> AccountIds \intersect Known
    [] OTHER -> Known

Provides(o) == CASE o = "create" -> {Fields}
                 [] o = "update" -> SUBSET Fields \ {{}}
                 [] OTHER -> {{}}

Begin(q, u, o) ==
  /\ pc[q] = "idle"
  /\ \E k \in About(o), F \in Provides(o) :
       /\ row' = [row EXCEPT ![q] = k]
       /\ gives' = [gives EXCEPT ![q] = F]
       /\ pc' = [pc EXCEPT ![q] = IF k = Null THEN o ELSE "own"]
  /\ op' = [op EXCEPT ![q] = o]
  /\ user' = [user EXCEPT ![q] = u]
  /\ UNCHANGED <<tables, seen, result, past>>

Ends(q, r) == /\ pc' = [pc EXCEPT ![q] = "done"]
              /\ result' = [result EXCEPT ![q] = r]

Told(q, S) == Ends(q, "ok") /\ answered' = [answered EXCEPT ![q] = S]

\* assertCustomerOwned, findOwned and CustomersService.get.
MayUse(u, k) == OwnedBy(u, k)

Finds(q) ==
  /\ pc[q] = "own"
  /\ IF ~MayUse(user[q], row[q]) THEN Ends(q, "notFound") /\ UNCHANGED <<seen, answered>>
     ELSE /\ seen' = [seen EXCEPT ![q] = content[row[q]]]
          /\ IF op[q] = "get" THEN Told(q, {row[q]})
             ELSE /\ pc' = [pc EXCEPT ![q] = IF op[q] = "reveal" THEN "audit" ELSE op[q]]
                  /\ UNCHANGED <<result, answered>>
  /\ UNCHANGED <<tables, asked, wrote, maker>>

\* One SELECT: by owner, or by the customer that was found to be the caller's.
Lists(q) ==
  /\ pc[q] = "list"
  /\ Told(q, IF row[q] = Null THEN {k \in Rows : OwnedBy(user[q], k)}
             ELSE {a \in AccountIds : customerOf[a] = row[q]})
  /\ UNCHANGED <<tables, asked, seen, wrote, maker>>

\* The audit entry comes before the answer, and stays when a secret of the row, which
\* is answered as it was read, was encrypted with another key and decrypt throws.
Audits(q) ==
  /\ pc[q] = "audit"
  /\ log' = log \union {q}
  /\ \/ Told(q, {row[q]})
     \/ "vault" \in Faults /\ Ends(q, "error") /\ UNCHANGED answered
  /\ UNCHANGED <<owner, customerOf, content, asked, seen, wrote, maker>>

-----------------------------------------------------------------------------
(* The statements that write                                                *)

Wrote(q, S) == wrote' = [wrote EXCEPT ![q] = S]

\* The row, or the customer of a new account, is gone: Prisma throws.
Fails(q) == Ends(q, "error") /\ UNCHANGED <<owner, customerOf, content, answered, wrote, maker>>

New(q, k) ==
  /\ maker[k] = Null
  /\ maker' = [maker EXCEPT ![k] = user[q]]
  /\ content' = [content EXCEPT ![k] = [f \in Fields |-> q]]
  /\ Wrote(q, {k})
  /\ Told(q, {k})

ReferenceHolds(c) == Exists(c)

Creates(q) ==
  /\ pc[q] = "create"
  /\ \/ /\ row[q] = Null
        /\ \E c \in CustomerIds : New(q, c) /\ owner' = [owner EXCEPT ![c] = user[q]]
        /\ UNCHANGED customerOf
     \/ /\ row[q] # Null /\ ReferenceHolds(row[q])
        /\ \E a \in AccountIds : New(q, a) /\ customerOf' = [customerOf EXCEPT ![a] = row[q]]
        /\ UNCHANGED owner
     \/ row[q] # Null /\ ~ReferenceHolds(row[q]) /\ Fails(q)
  /\ UNCHANGED <<log, asked, seen>>

\* Only the fields the request provides are in the statement.
Merged(q) == [f \in Fields |-> IF f \in gives[q] THEN q ELSE content[row[q]][f]]

Updates(q) ==
  /\ pc[q] = "update"
  /\ IF ~Exists(row[q]) THEN Fails(q)
     ELSE /\ content' = [content EXCEPT ![row[q]] = Merged(q)]
          /\ Wrote(q, {row[q]})
          /\ Told(q, {row[q]})
          /\ UNCHANGED <<owner, customerOf, maker>>
  /\ UNCHANGED <<log, asked, seen>>

\* The accounts of a customer go with it; audit entries stay.
Removes(q) ==
  /\ pc[q] = "remove"
  /\ IF ~Exists(row[q]) THEN Fails(q)
     ELSE LET k == row[q]
              gone == {k} \union {a \in AccountIds : customerOf[a] = k}
          IN /\ owner' = [c \in CustomerIds |-> IF c \in gone THEN Null ELSE owner[c]]
             /\ customerOf' = [a \in AccountIds |-> IF a \in gone THEN Null ELSE customerOf[a]]
             /\ Wrote(q, gone)
             /\ Ends(q, "ok")
             /\ UNCHANGED <<content, answered, maker>>
  /\ UNCHANGED <<log, asked, seen>>

\* A statement fails, in the API or after Postgres carried out the ones before it.
DbFails(q) ==
  /\ "db" \in Faults
  /\ pc[q] \in Statements
  /\ Ends(q, "error")
  /\ UNCHANGED <<tables, asked, seen, past>>

AllAnswered == (\A q \in Requests : pc[q] \notin Statements) /\ UNCHANGED recordsVars

RecordsNext ==
  \/ \E q \in Requests :
       \/ \E u \in Users, o \in Ops : Begin(q, u, o)
       \/ Finds(q) \/ Lists(q) \/ Audits(q)
       \/ Creates(q) \/ Updates(q) \/ Removes(q)
       \/ DbFails(q)
  \/ AllAnswered

RecordsSpec == RecordsInit /\ [][RecordsNext]_recordsVars
-----------------------------------------------------------------------------
(* Properties                                                               *)

\* "Prevents one owner from reading, updating or deleting another owner's customer",
\* and the accounts of it: whatever is deleted or created between the statement that
\* checks the owner and the one that works by the id, a request is told and changes
\* rows of its caller only; and secrets that were revealed are in the audit log.
OwnerOnly ==
  \A q \in Requests :
    /\ \A k \in answered[q] \union wrote[q] : maker[k] = user[q]
    /\ op[q] = "reveal" /\ result[q] = "ok" => q \in log

\* "Updates only the fields provided": after an update was answered, what it provided
\* is there until a request that provides the same field replaces it, however requests
\* that provide other fields overlap with it.
UpdatesMerge ==
  \A q \in Requests : \A f \in gives[q] :
    result[q] = "ok" /\ op[q] = "update" /\ Exists(row[q]) =>
      \E r \in Requests : /\ content[row[q]][f] = r
                          /\ op[r] = "update" /\ row[r] = row[q] /\ f \in gives[r]
=============================================================================
