--------------------------- MODULE UserAccessProofs ---------------------------
(***************************************************************************)
(* Registration, the second factor and the login limit of one user, for    *)
(* any number of requests, passwords and secrets, whatever statements fail *)
(* and whenever the process restarts.                                      *)
(***************************************************************************)
EXTENDS UserAccess, FiniteSetTheorems, TLAPS

USE DEF row, limiter, asked, seen, past

\* What one request does at a time, by the await it is at.
Asking(q) ==
  \/ \E w \in Passwords : BeginRegister(q, w)
  \/ \E w \in Passwords, c \in Secrets \union {None} : BeginLogin(q, w, c)
  \/ \E o \in {"setup", "enable", "disable"}, c \in Secrets \union {None} : BeginTotp(q, o, c)
  \/ LoginThrottled(q)

\* Steps that write neither the row nor the limiter.
Quietly(q) ==
  \/ RegisterFinds(q) \/ LoginFinds(q) \/ LoginChecks(q) \/ Issues(q)
  \/ EnableFinds(q) \/ DisableFinds(q) \/ DbFails(q) \/ VaultFails(q)

Factor(q) ==
  \/ \E s \in Secrets : SetupWrites(q, s)
  \/ EnableWrites(q) \/ DisableWrites(q)

LEMMA Steps ==
  ASSUME [Next]_vars
  PROVE  \/ \E q \in Requests : Asking(q) \/ RegisterCreates(q) \/ Quietly(q) \/ Factor(q)
         \/ Restart \/ Tick \/ UNCHANGED vars
<1>1. ASSUME Next
      PROVE  \/ \E q \in Requests : Asking(q) \/ RegisterCreates(q) \/ Quietly(q) \/ Factor(q)
             \/ Restart \/ Tick \/ UNCHANGED vars
  <2>1. ASSUME NEW q \in Requests,
               \/ \E w \in Passwords :
                    BeginRegister(q, w) \/ \E c \in Secrets \union {None} : BeginLogin(q, w, c)
               \/ \E c \in Secrets \union {None} : BeginTotp(q, "enable", c) \/ BeginTotp(q, "disable", c)
               \/ BeginTotp(q, "setup", None) \/ LoginThrottled(q)
        PROVE  Asking(q)
    BY <2>1, Zenon DEF Asking
  <2>2. QED
    BY <1>1, <2>1, Zenon DEF Next, Quietly, Factor, AllAnswered
<1>2. QED
  BY <1>1, Zenon

-----------------------------------------------------------------------------
(* Type correctness                                                         *)

LEMMA AskingTyped ==
  ASSUME TypeOK, NEW q \in Requests, Asking(q)
  PROVE  TypeOK'
<1> USE ConstantsAssumption DEF TypeOK, Asks, SecondFactor, Awaits
<1>1. CASE \E w \in Passwords : BeginRegister(q, w)
  BY <1>1 DEF BeginRegister
<1>2. CASE \E w \in Passwords, c \in Secrets \union {None} : BeginLogin(q, w, c)
  BY <1>2 DEF BeginLogin, Counted, Recent
<1>3. CASE \E o \in {"setup", "enable", "disable"}, c \in Secrets \union {None} : BeginTotp(q, o, c)
  BY <1>3 DEF BeginTotp
<1>4. CASE LoginThrottled(q)
  BY <1>4 DEF LoginThrottled
<1>5. QED
  BY <1>1, <1>2, <1>3, <1>4 DEF Asking

LEMMA QuietlyTyped ==
  ASSUME TypeOK, NEW q \in Requests, Quietly(q)
  PROVE  TypeOK'
<1> USE DEF TypeOK, Answers, Goes, Reads, Awaits
<1>1. CASE RegisterFinds(q)
  BY <1>1 DEF RegisterFinds
<1>2. CASE LoginFinds(q)
  BY <1>2 DEF LoginFinds
<1>3. CASE LoginChecks(q)
  BY <1>3 DEF LoginChecks
<1>4. CASE Issues(q)
  BY <1>4 DEF Issues
<1>5. CASE EnableFinds(q)
  BY <1>5 DEF EnableFinds, CodeMatches, SecondFactor
<1>6. CASE DisableFinds(q)
  BY <1>6 DEF DisableFinds
<1>7. CASE DbFails(q)
  BY <1>7 DEF DbFails
<1>8. CASE VaultFails(q)
  BY <1>8 DEF VaultFails
<1>9. QED
  BY <1>1, <1>2, <1>3, <1>4, <1>5, <1>6, <1>7, <1>8 DEF Quietly

LEMMA WrittenTyped ==
  ASSUME TypeOK, NEW f \in SecondFactor, Writes(f)
  PROVE  totp' \in SecondFactor /\ gates' \in [Requests -> SUBSET SecondFactor]
<1>1. \A q \in Requests : gates[q] \union {f} \in SUBSET SecondFactor
  BY DEF TypeOK
<1>2. QED
  BY <1>1 DEF TypeOK, Writes

LEMMA FactorTyped ==
  ASSUME TypeOK, NEW q \in Requests, Factor(q)
  PROVE  TypeOK'
<1> USE DEF TypeOK, Answers
<1>1. \A s \in Secrets : [totp EXCEPT !.secret = s] \in SecondFactor
  BY DEF SecondFactor
<1>2. [totp EXCEPT !.on = TRUE] \in SecondFactor /\ Off \in SecondFactor
  BY DEF SecondFactor, Off
<1>3. totp.on \in BOOLEAN
  BY DEF SecondFactor
<1>4. ASSUME NEW s \in Secrets, SetupWrites(q, s) PROVE TypeOK'
  BY <1>1, <1>3, <1>4, WrittenTyped DEF SetupWrites, Enabling
<1>5. CASE EnableWrites(q)
  BY <1>2, <1>5, WrittenTyped DEF EnableWrites, AfterWrite
<1>6. CASE DisableWrites(q)
  <2>1. Writes(Off)
    BY <1>6 DEF DisableWrites, DisabledFactor
  <2>2. totp' \in SecondFactor /\ gates' \in [Requests -> SUBSET SecondFactor]
    BY <1>2, <2>1, WrittenTyped
  <2>3. PICK r \in {"ok", "error"} : Answers(q, r)
    BY <1>6 DEF DisableWrites, AfterWrite
  <2>4. QED
    BY <1>6, <2>2, <2>3 DEF DisableWrites, Enabling
<1>7. QED
  BY <1>4, <1>5, <1>6 DEF Factor

LEMMA StepTyped == TypeOK /\ [Next]_vars => TypeOK'
<1> SUFFICES ASSUME TypeOK, [Next]_vars PROVE TypeOK'
  OBVIOUS
<1>1. ASSUME NEW q \in Requests, RegisterCreates(q) PROVE TypeOK'
  BY <1>1 DEF TypeOK, RegisterCreates, AddressFree, Answers, Goes, Awaits
<1>2. CASE Restart
  BY <1>2 DEF TypeOK, Restart
<1>3. CASE Tick
  BY <1>3 DEF TypeOK, Tick
<1>4. CASE UNCHANGED vars
  BY <1>4 DEF TypeOK, vars
<1>5. QED
  BY <1>1, <1>2, <1>3, <1>4, Steps, AskingTyped, QuietlyTyped, FactorTyped

LEMMA InitTyped == Init => TypeOK
<1> SUFFICES ASSUME Init PROVE TypeOK
  OBVIOUS
<1>1. Off \in SecondFactor
  BY DEF SecondFactor, Off
<1>2. \A s \in Secrets : [on |-> TRUE, secret |-> s] \in SecondFactor
  BY DEF SecondFactor
<1>3. totp \in SecondFactor /\ made \subseteq Secrets
  BY <1>1, <1>2 DEF Init
<1>4. QED
  BY <1>1, <1>3 DEF Init, TypeOK

\* The variables keep their types for every value of the constants.
THEOREM Typed == Spec => []TypeOK
<1>1. QED
  BY InitTyped, StepTyped, PTL DEF Spec

-----------------------------------------------------------------------------
(* The inductive invariant                                                  *)

\* Where a request may be, by what it asks for.
Shape ==
  \A q \in Requests :
    /\ pc[q] # "done" => result[q] = "none"
    /\ pc[q] = "create" => op[q] = "register"
    /\ pc[q] = "check" => op[q] = "login"
    /\ pc[q] = "issue" => op[q] \in {"login", "register"}
    /\ pc[q] \in {"setup", "enable", "disable"} => op[q] \notin {"login", "register"}
    /\ op[q] = "register" => pass[q] \in Passwords
    /\ op[q] = "login" => pass[q] \in Passwords \/ (pc[q] = "done" /\ result[q] = "refused")

\* The registration that created the row.
Created(q) == op[q] = "register" /\ (pc[q] = "issue" \/ result[q] = "ok")

OneCreated ==
  \A p, q \in Requests : Created(p) /\ Created(q) => p = q /\ pass[q] = password

\* What a login has seen and what it has passed.
Opened(q) == pass[q] = password /\ \E f \in gates[q] : ~f.on \/ CodeMatches(q, f)

GateKept ==
  \A q \in Requests :
    /\ q \in Running => totp \in gates[q]
    /\ pc[q] = "check" => seenTotp[q] \in gates[q] /\ seenPw[q] \in {None, password}
    /\ op[q] = "login" /\ (pc[q] = "issue" \/ result[q] = "ok") => Opened(q)

\* An enable that nobody overtook holds a code of the secret in force.
FactorKept ==
  /\ UsableSecondFactor
  /\ \A q \in Requests : pc[q] = "enable" /\ q \notin stale => totp.secret \in confirmed

IInv == TypeOK /\ Shape /\ OneCreated /\ GateKept /\ FactorKept

LEMMA InitKept == Init => IInv
<1> SUFFICES ASSUME Init PROVE IInv
  OBVIOUS
<1>1. Shape /\ OneCreated /\ GateKept
  BY DEF Init, Shape, OneCreated, Created, GateKept, Running, Awaits
<1>2. FactorKept
  BY DEF Init, FactorKept, UsableSecondFactor, Off
<1>3. QED
  BY <1>1, <1>2, InitTyped DEF IInv

LEMMA AskingKeeps ==
  ASSUME IInv, NEW q \in Requests, Asking(q)
  PROVE  Shape' /\ OneCreated' /\ GateKept' /\ FactorKept'
<1> USE DEF IInv, TypeOK
<1> DEFINE Begun ==
             /\ pc[q] = "idle" /\ pc' = [pc EXCEPT ![q] = pc'[q]]
             /\ pc'[q] \in {"find", "setup", "done"} /\ gates' = [gates EXCEPT ![q] = {totp}]
             /\ op' = [op EXCEPT ![q] = op'[q]] /\ pass' = [pass EXCEPT ![q] = pass'[q]]
             /\ code' = [code EXCEPT ![q] = code'[q]]
             /\ pc'[q] = "setup" => op'[q] = "setup"
             /\ op'[q] = "register" => pass'[q] \in Passwords
             /\ op'[q] = "login" => pass'[q] \in Passwords \/ (pc'[q] = "done" /\ result'[q] = "refused")
             /\ result' = [result EXCEPT ![q] = result'[q]] /\ result'[q] # "ok"
             /\ pc'[q] # "done" => result' = result
             /\ UNCHANGED <<row, seen, confirmed, loose, stale>>
\* The request begins, or is refused at once; nothing else changes.
<1>1. Begun
  <2> USE DEF Asks, Shape
  <2>1. CASE \E w \in Passwords : BeginRegister(q, w)
    BY <2>1 DEF BeginRegister
  <2>2. CASE \E w \in Passwords, c \in Secrets \union {None} : BeginLogin(q, w, c)
    <3>1. PICK w \in Passwords, c \in Secrets \union {None} : BeginLogin(q, w, c)
      BY <2>2
    <3>2. Asks(q, "login", "find", w, c) /\ UNCHANGED result
      BY <3>1 DEF BeginLogin
    <3>3. QED
      BY <3>1, <3>2
  <2>3. CASE \E o \in {"setup", "enable", "disable"}, c \in Secrets \union {None} : BeginTotp(q, o, c)
    BY <2>3 DEF BeginTotp
  <2>4. CASE LoginThrottled(q)
    BY <2>4 DEF LoginThrottled
  <2>5. QED
    BY <2>1, <2>2, <2>3, <2>4 DEF Asking
<1>2. Shape'
  BY <1>1 DEF Shape
<1>3. OneCreated'
  BY <1>1 DEF OneCreated, Created
<1>4. GateKept'
  <2> SUFFICES ASSUME NEW r \in Requests
               PROVE  /\ r \in Running' => totp' \in gates'[r]
                      /\ pc'[r] = "check" => seenTotp'[r] \in gates'[r] /\ seenPw'[r] \in {None, password'}
                      /\ op'[r] = "login" /\ (pc'[r] = "issue" \/ result'[r] = "ok") => Opened(r)'
    BY DEF GateKept
  <2>1. CASE r = q
    BY <1>1, <2>1
  <2>2. CASE r # q
    BY <1>1, <2>2 DEF GateKept, Running, Opened, CodeMatches
  <2>3. QED
    BY <2>1, <2>2
<1>5. FactorKept'
  BY <1>1 DEF FactorKept, UsableSecondFactor
<1>6. QED
  BY <1>2, <1>3, <1>4, <1>5

LEMMA CreatesKeeps ==
  ASSUME IInv, NEW q \in Requests, RegisterCreates(q)
  PROVE  Shape' /\ OneCreated' /\ GateKept' /\ FactorKept'
<1> USE DEF IInv, TypeOK
<1>1. CASE ~AddressFree(q)
  BY <1>1 DEF RegisterCreates, Answers, Shape, OneCreated, Created, GateKept, Running, Awaits,
              Opened, CodeMatches, FactorKept, UsableSecondFactor
<1>2. CASE AddressFree(q)
  <2>1. /\ pc[q] = "create" /\ password = None /\ password' = pass[q]
        /\ pc' = [pc EXCEPT ![q] = "issue"]
        /\ UNCHANGED <<totp, asked, seen, past, result>>
    BY <1>2 DEF RegisterCreates, AddressFree, Goes
  <2>2. op[q] = "register" /\ result[q] = "none" /\ pass[q] \in Passwords
    BY <2>1 DEF Shape
  \* Nobody created the row or signed in before: there was no password.
  <2>3. \A r \in Requests : ~Created(r)
    BY <2>1, ConstantsAssumption DEF OneCreated, Created, Shape
  <2>4. \A r \in Requests : op[r] = "login" => pc[r] # "issue" /\ result[r] # "ok"
    BY <2>1, ConstantsAssumption DEF GateKept, Opened, Shape
  <2>5. Shape'
    BY <2>1, <2>2 DEF Shape
  <2>6. OneCreated'
    BY <2>1, <2>2, <2>3 DEF OneCreated, Created
  <2>7. GateKept'
    BY <2>1, <2>2, <2>4 DEF GateKept, Running, Awaits
  <2>8. FactorKept'
    BY <2>1 DEF FactorKept, UsableSecondFactor
  <2>9. QED
    BY <2>5, <2>6, <2>7, <2>8
<1>3. QED
  BY <1>1, <1>2

LEMMA QuietlyKeeps ==
  ASSUME IInv, NEW q \in Requests, Quietly(q)
  PROVE  Shape' /\ OneCreated' /\ GateKept' /\ FactorKept'
<1> USE DEF IInv, TypeOK, Shape, OneCreated, Created, GateKept, FactorKept, UsableSecondFactor,
            Running, Awaits, Opened, CodeMatches, Answers, Goes, Reads
<1>1. CASE RegisterFinds(q)
  BY <1>1 DEF RegisterFinds
<1>2. CASE LoginFinds(q)
  BY <1>2 DEF LoginFinds
<1>3. CASE LoginChecks(q)
  BY <1>3, ConstantsAssumption DEF LoginChecks, SecondFactorOK
<1>4. CASE Issues(q)
  BY <1>4 DEF Issues
<1>5. CASE EnableFinds(q)
  BY <1>5 DEF EnableFinds
<1>6. CASE DisableFinds(q)
  BY <1>6 DEF DisableFinds
<1>7. CASE DbFails(q)
  BY <1>7 DEF DbFails
<1>8. CASE VaultFails(q)
  BY <1>8 DEF VaultFails
<1>9. QED
  BY <1>1, <1>2, <1>3, <1>4, <1>5, <1>6, <1>7, <1>8 DEF Quietly

\* A write adds to what the logins under way may have met.
LEMMA WritesKeep ==
  ASSUME IInv, NEW q \in Requests, NEW f, Writes(f), pc[q] \in {"setup", "enable", "disable"},
         NEW r, r \in {"ok", "error"}, Answers(q, r), UNCHANGED <<password, asked, seen>>
  PROVE  Shape' /\ OneCreated' /\ GateKept'
<1> USE DEF IInv, TypeOK, Answers, Writes
<1>1. op[q] \notin {"login", "register"}
  BY DEF Shape
<1>2. Shape'
  BY <1>1 DEF Shape
<1>3. OneCreated'
  BY <1>1 DEF OneCreated, Created
<1>4. GateKept'
  BY <1>1 DEF GateKept, Running, Awaits, Opened, CodeMatches
<1>5. QED
  BY <1>2, <1>3, <1>4

LEMMA FactorKeeps ==
  ASSUME IInv, NEW q \in Requests, Factor(q)
  PROVE  Shape' /\ OneCreated' /\ GateKept' /\ FactorKept'
<1> USE DEF IInv, TypeOK
<1>1. ASSUME NEW s \in Secrets, SetupWrites(q, s)
      PROVE  Shape' /\ OneCreated' /\ GateKept' /\ FactorKept'
  <2>1. Shape' /\ OneCreated' /\ GateKept'
    BY <1>1, WritesKeep DEF SetupWrites
  <2>2. FactorKept'
    BY <1>1 DEF SetupWrites, Writes, Answers, Enabling, FactorKept, UsableSecondFactor, SecondFactor
  <2>3. QED
    BY <2>1, <2>2
<1>2. ASSUME EnableWrites(q)
      PROVE  Shape' /\ OneCreated' /\ GateKept' /\ FactorKept'
  <2>1. PICK r \in {"ok", "error"} : Answers(q, r)
    BY <1>2 DEF EnableWrites, AfterWrite
  <2>2. Shape' /\ OneCreated' /\ GateKept'
    BY <1>2, <2>1, WritesKeep DEF EnableWrites
  <2>3. totp'.secret = totp.secret /\ UNCHANGED <<confirmed, stale>>
    BY <1>2 DEF EnableWrites, Writes, SecondFactor
  <2>4. FactorKept'
    BY <1>2, <2>1, <2>3 DEF EnableWrites, Answers, FactorKept, UsableSecondFactor
  <2>5. QED
    BY <2>2, <2>4
<1>3. ASSUME DisableWrites(q)
      PROVE  Shape' /\ OneCreated' /\ GateKept' /\ FactorKept'
  <2>1. PICK r \in {"ok", "error"} : Answers(q, r)
    BY <1>3 DEF DisableWrites, AfterWrite
  <2>2. Shape' /\ OneCreated' /\ GateKept'
    BY <1>3, <2>1, WritesKeep DEF DisableWrites
  <2>3. FactorKept'
    BY <1>3, <2>1 DEF DisableWrites, DisabledFactor, Off, Writes, Answers, Enabling, FactorKept,
                      UsableSecondFactor
  <2>4. QED
    BY <2>2, <2>3
<1>4. QED
  BY <1>1, <1>2, <1>3 DEF Factor

LEMMA StepKept == IInv /\ [Next]_vars => IInv'
<1> SUFFICES ASSUME IInv, [Next]_vars PROVE IInv'
  OBVIOUS
<1>1. TypeOK'
  BY StepTyped DEF IInv
<1>2. ASSUME NEW q \in Requests, Asking(q) \/ RegisterCreates(q) \/ Quietly(q) \/ Factor(q)
      PROVE  Shape' /\ OneCreated' /\ GateKept' /\ FactorKept'
  BY <1>2, AskingKeeps, CreatesKeeps, QuietlyKeeps, FactorKeeps
<1>3. ASSUME Restart
      PROVE  Shape' /\ OneCreated' /\ GateKept' /\ FactorKept'
  BY <1>3 DEF IInv, TypeOK, Restart, Shape, OneCreated, Created, GateKept, FactorKept,
              UsableSecondFactor, Running, Awaits, Opened, CodeMatches
<1>4. ASSUME Tick \/ UNCHANGED vars
      PROVE  Shape' /\ OneCreated' /\ GateKept' /\ FactorKept'
  BY <1>4 DEF IInv, Tick, vars, Shape, OneCreated, Created, GateKept, FactorKept,
              UsableSecondFactor, Running, Opened, CodeMatches
<1>5. QED
  BY <1>1, <1>2, <1>3, <1>4, Steps DEF IInv

LEMMA AlwaysKept == Spec => []IInv
<1>1. QED
  BY InitKept, StepKept, PTL DEF Spec

\* However registrations of one address overlap and whatever statements fail, at most
\* one is answered with tokens, and its password is the one the row holds.
THEOREM OneWinner == Spec => []WinnerOwnsAddress
<1>1. IInv => WinnerOwnsAddress
  BY DEF IInv, OneCreated, Created, WinnerOwnsAddress
<1>2. QED
  BY <1>1, AlwaysKept, PTL

\* A login that was let in gave the password, and TOTP was off, or its code was one of
\* the secret in force, at some moment while it ran.
THEOREM GateHolds == Spec => []GateHeld
<1>1. IInv => GateHeld
  BY DEF IInv, GateKept, Opened, GateHeld
<1>2. QED
  BY <1>1, AlwaysKept, PTL

\* Unless a setup or a disable overtook the enable or came after it, the user was asked
\* for a code of the secret in force.
THEOREM FactorUsable == Spec => []UsableSecondFactor
<1>1. IInv => UsableSecondFactor
  BY DEF IInv, FactorKept
<1>2. QED
  BY <1>1, AlwaysKept, PTL

-----------------------------------------------------------------------------
(* The login limit                                                          *)

\* The map still holds every login of the last minute: what was let through can be
\* counted from it.
RateKept ==
  /\ \A q \in passed : /\ pc[q] # "idle"
                       /\ at[q] <= now
                       /\ at[q] + Window > now => q \in attempts
  /\ AttemptsBounded

LEMMA LimiterUntouched ==
  ASSUME TypeOK, RateKept, UNCHANGED <<limiter, now>>, NEW q \in Requests,
         pc' = [pc EXCEPT ![q] = pc'[q]], pc'[q] # "idle"
  PROVE  RateKept'
  BY DEF TypeOK, RateKept, AttemptsBounded, InWindow

LEMMA LoginCounted ==
  ASSUME TypeOK, RateKept, NEW q \in Requests, pc[q] = "idle", Counted(q),
         pc' = [pc EXCEPT ![q] = "find"], UNCHANGED now
  PROVE  RateKept'
<1> USE ConstantsAssumption DEF TypeOK
<1>1. q \notin passed
  BY DEF RateKept
<1>2. /\ attempts' = Recent \union {q} /\ passed' = passed \union {q}
      /\ at' = [at EXCEPT ![q] = now]
      /\ Cardinality(Recent) < Limit
  BY DEF Counted
<1>3. IsFiniteSet(Recent)
  BY FS_Subset DEF Recent
<1>4. /\ IsFiniteSet(Recent \union {q}) /\ Cardinality(Recent \union {q}) <= Limit
  <2>1. Cardinality(Recent) \in Nat
    BY <1>3, FS_CardinalityType
  <2>2. /\ IsFiniteSet(Recent \union {q})
        /\ Cardinality(Recent \union {q}) \in {Cardinality(Recent), Cardinality(Recent) + 1}
    BY <1>3, FS_AddElement
  <2> HIDE DEF TypeOK
  <2>3. QED
    BY <1>2, <2>1, <2>2
<1>5. ASSUME NEW p \in passed'
      PROVE  /\ pc'[p] # "idle" /\ at'[p] <= now' /\ (at'[p] + Window > now' => p \in attempts')
             /\ Cardinality(InWindow(p)') <= Limit
  <2>1. /\ pc'[p] # "idle" /\ at'[p] <= now' /\ (at'[p] + Window > now' => p \in attempts')
    BY <1>1, <1>2 DEF RateKept, Recent
  <2>2. CASE at'[p] = now
    \* Those let through before were counted.
    <3>1. InWindow(p)' \subseteq Recent \union {q}
      BY <1>1, <1>2, <2>2 DEF InWindow, RateKept, Recent
    <3>2. Cardinality(InWindow(p)') <= Cardinality(Recent \union {q})
      BY <1>4, <3>1, FS_Subset
    <3>3. IsFiniteSet(InWindow(p)')
      BY <1>4, <3>1, FS_Subset
    <3>4. Cardinality(InWindow(p)') \in Nat /\ Cardinality(Recent \union {q}) \in Nat
      BY <1>4, <3>3, FS_CardinalityType
    <3> HIDE DEF TypeOK
    <3>5. QED
      BY <1>4, <2>1, <3>2, <3>4
  <2>3. CASE at'[p] # now
    \* The new login is later than p.
    <3>1. p \in passed /\ at[p] < now
      BY <1>1, <1>2, <2>3 DEF RateKept
    <3>2. InWindow(p)' = InWindow(p)
      BY <1>1, <1>2, <3>1 DEF InWindow
    <3>3. Cardinality(InWindow(p)) <= Limit
      BY <3>1 DEF RateKept, AttemptsBounded
    <3> HIDE DEF TypeOK
    <3>4. QED
      BY <2>1, <3>2, <3>3
  <2>4. QED
    BY <2>1, <2>2, <2>3
<1>6. QED
  BY <1>5 DEF RateKept, AttemptsBounded

LEMMA RateStep == TypeOK /\ RateKept /\ [Next]_vars => RateKept'
<1> SUFFICES ASSUME TypeOK, RateKept, [Next]_vars PROVE RateKept'
  OBVIOUS
<1>1. ASSUME NEW q \in Requests, Asking(q) PROVE RateKept'
  <2> USE DEF TypeOK, Asks
  <2>1. ASSUME NEW w \in Passwords, BeginRegister(q, w) PROVE RateKept'
    BY <2>1, LimiterUntouched DEF BeginRegister
  <2>2. ASSUME NEW w \in Passwords, NEW c \in Secrets \union {None}, BeginLogin(q, w, c) PROVE RateKept'
    BY <2>2, LoginCounted DEF BeginLogin
  <2>3. ASSUME NEW o \in {"setup", "enable", "disable"}, NEW c \in Secrets \union {None}, BeginTotp(q, o, c)
        PROVE  RateKept'
    BY <2>3, LimiterUntouched DEF BeginTotp
  <2>4. CASE LoginThrottled(q)
    BY <2>4, LimiterUntouched DEF LoginThrottled
  <2>5. QED
    BY <1>1, <2>1, <2>2, <2>3, <2>4 DEF Asking
<1>2. ASSUME NEW q \in Requests, RegisterCreates(q) \/ Quietly(q) PROVE RateKept'
  <2>1. /\ UNCHANGED <<limiter, now>> /\ pc' = [pc EXCEPT ![q] = pc'[q]] /\ pc'[q] # "idle"
    BY <1>2 DEF TypeOK, RegisterCreates, Quietly, RegisterFinds, LoginFinds, LoginChecks, Issues,
                EnableFinds, DisableFinds, DbFails, VaultFails, Answers, Goes
  <2>2. QED
    BY <2>1, LimiterUntouched
<1>3. ASSUME NEW q \in Requests, Factor(q) PROVE RateKept'
  <2>1. /\ UNCHANGED <<limiter, now>> /\ pc' = [pc EXCEPT ![q] = pc'[q]] /\ pc'[q] # "idle"
    BY <1>3 DEF TypeOK, Factor, SetupWrites, EnableWrites, DisableWrites, Answers
  <2>2. QED
    BY <2>1, LimiterUntouched
<1>4. CASE Restart
  BY <1>4 DEF Restart, RateKept, AttemptsBounded
<1>5. CASE Tick
  BY <1>5, ConstantsAssumption DEF Tick, TypeOK, RateKept, AttemptsBounded, InWindow
<1>6. CASE UNCHANGED vars
  BY <1>6 DEF vars, RateKept, AttemptsBounded, InWindow
<1>7. QED
  BY <1>1, <1>2, <1>3, <1>4, <1>5, <1>6, Steps

\* The process that is running let through at most Limit logins in any minute, for any
\* limit, any length of the minute and any number of logins.
THEOREM RateBounded == Spec => []AttemptsBounded
<1>1. Init => TypeOK /\ RateKept
  BY InitTyped DEF Init, RateKept, AttemptsBounded
<1>2. TypeOK /\ RateKept /\ [Next]_vars => (TypeOK /\ RateKept)'
  BY StepTyped, RateStep
<1>3. RateKept => AttemptsBounded
  BY DEF RateKept
<1>4. QED
  BY <1>1, <1>2, <1>3, PTL DEF Spec
=============================================================================
