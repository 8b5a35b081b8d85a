------------------------------ MODULE UserAccess ------------------------------
(***************************************************************************)
(* AuthService: the users row of one e-mail address.  register, login and  *)
(* the three TOTP handlers run concurrently; an action is what a request   *)
(* does between two awaits.  What a sign-in does to devices and tokens is  *)
(* in RefreshTokens; here it is the last step, "issue".                    *)
(***************************************************************************)
EXTENDS Naturals, FiniteSets

CONSTANTS Requests,   \* one id for each request
          Passwords,
          Secrets,    \* TOTP secrets; a code is known by the secret it is made of
          None,
          Limit,      \* LOGIN_RATE_LIMIT_PER_MINUTE
          Window,     \* the minute, in ticks
          MaxTime,    \* bound: ticks
          Faults      \* what may go wrong

\* db: a statement fails; vault: a secret does not decrypt; restart: of the process.
FaultKinds == {"db", "vault", "restart"}

ASSUME ConstantsAssumption ==
  /\ IsFiniteSet(Requests)
  /\ None \notin Requests \union Passwords \union Secrets
  /\ Limit \in Nat \ {0} /\ Window \in Nat \ {0} /\ MaxTime \in Nat
  /\ Faults \subseteq FaultKinds

VARIABLES
  password,  \* of the row, None while there is no row
  totp,      \* totpEnabled and totpSecretEncrypted of the row
  attempts,  \* loginAttempts: the logins it counts
  at,        \* at[q]: when login q was counted
  now,       \* Date.now()
  pc,        \* pc[q]: the await request q is at
  op,        \* what it asks for
  pass,      \* the password it gives
  code,      \* the TOTP code it gives
  seenPw,    \* the row it read
  seenTotp,
  result,    \* what it answered
  made,      \* history: the secrets setup returned
  confirmed, \* history: the secrets enable was given a code of
  loose,     \* history: a setup or disable overtook the enable or came after it
  stale,     \* history: enables whose row was written since they read it
  gates,     \* history: the second factors in force while login q ran
  passed     \* history: the logins let through since the process started

row == <<password, totp>>
limiter == <<attempts, at, passed>>
asked == <<op, pass, code>>
seen == <<seenPw, seenTotp>>
past == <<made, confirmed, loose, stale, gates>>
vars == <<row, limiter, now, pc, asked, seen, result, past>>

Awaits == {"find", "create", "check", "issue", "setup", "enable", "disable"}
SecondFactor == [on : BOOLEAN, secret : Secrets \union {None}]
Off == [on |-> FALSE, secret |-> None]
Running == {q \in Requests : pc[q] \in Awaits}

TypeOK ==
  /\ password \in Passwords \union {None}
  /\ totp \in SecondFactor
  /\ attempts \subseteq passed /\ passed \subseteq Requests
  /\ at \in [Requests -> Nat] /\ now \in Nat
  /\ pc \in [Requests -> Awaits \union {"idle", "done"}]
  /\ op \in [Requests -> {"none", "register", "login", "setup", "enable", "disable"}]
  /\ pass \in [Requests -> Passwords \union {None}]
  /\ code \in [Requests -> Secrets \union {None}]
  /\ seenPw \in [Requests -> Passwords \union {None}]
  /\ seenTotp \in [Requests -> SecondFactor]
  /\ result \in [Requests -> {"none", "ok", "refused", "error"}]
  /\ made \subseteq Secrets /\ confirmed \subseteq Secrets
  /\ loose \in BOOLEAN /\ stale \subseteq Requests
  /\ gates \in [Requests -> SUBSET SecondFactor]

\* A user who registered long ago may be there, with or without TOTP.
Init ==
  /\ password \in Passwords \union {None}
  /\ \/ totp = Off /\ made = {}
     \/ /\ password # None
        /\ \E s \in Secrets : totp = [on |-> TRUE, secret |-> s] /\ made = {s}
  /\ attempts = {} /\ passed = {}
  /\ at = [q \in Requests |-> 0] /\ now = 0
  /\ pc = [q \in Requests |-> "idle"]
  /\ op = [q \in Requests |-> "none"]
  /\ pass = [q \in Requests |-> None]
  /\ code = [q \in Requests |-> None]
  /\ seenPw = [q \in Requests |-> None]
  /\ seenTotp = [q \in Requests |-> Off]
  /\ result = [q \in Requests |-> "none"]
  /\ confirmed = made /\ loose = FALSE /\ stale = {}
  /\ gates = [q \in Requests |-> {}]

-----------------------------------------------------------------------------
(* How requests begin                                                       *)

Asks(q, o, stmt, w, c) ==
  /\ pc[q] = "idle"
  /\ pc' = [pc EXCEPT ![q] = stmt]
  /\ op' = [op EXCEPT ![q] = o]
  /\ pass' = [pass EXCEPT ![q] = w]
  /\ code' = [code EXCEPT ![q] = c]
  /\ gates' = [gates EXCEPT ![q] = {totp}]
  /\ UNCHANGED <<row, now, seen, made, confirmed, loose, stale>>

-----------------------------------------------------------------------------
(* Plausible bugs, one for each property the runs check.                    *)

ForgetsEarly == {r \in attempts : at[r] + Window > now + 1}
TakesOver(q) == TRUE
CodeOfAnySecret(q, f) == f.secret # None /\ code[q] \in made
OnlyIfGiven(q) == seenTotp[q].on /\ code[q] # None => code[q] = seenTotp[q].secret
-----------------------------------------------------------------------------

\* Codes come from an authenticator app that was given a secret.
Codes == made \union {None}

BeginRegister(q, w) == Asks(q, "register", "find", w, None) /\ UNCHANGED <<limiter, result>>

\* checkLoginRateLimit: of the attempts counted, those less than a minute old.
Recent == {r \in attempts : at[r] + Window > now}

Counted(q) ==
  /\ Cardinality(Recent) < Limit
  /\ attempts' = Recent \union {q}
  /\ passed' = passed \union {q}
  /\ at' = [at EXCEPT ![q] = now]

BeginLogin(q, w, c) ==
  /\ c \in Codes
  /\ Asks(q, "login", "find", w, c)
  /\ Counted(q)
  /\ UNCHANGED result

LoginThrottled(q) ==
  /\ Cardinality(Recent) >= Limit
  /\ Asks(q, "login", "done", None, None)
  /\ result' = [result EXCEPT ![q] = "refused"]
  /\ UNCHANGED limiter

\* The TOTP handlers need an access token, so the user is there.
BeginTotp(q, o, c) ==
  /\ password # None
  /\ c \in Codes
  /\ Asks(q, o, IF o = "setup" THEN "setup" ELSE "find", None, c)
  /\ UNCHANGED <<limiter, result>>

-----------------------------------------------------------------------------
(* register and login                                                       *)

Answers(q, r) == /\ pc' = [pc EXCEPT ![q] = "done"]
                 /\ result' = [result EXCEPT ![q] = r]

Goes(q, stmt) == pc' = [pc EXCEPT ![q] = stmt] /\ UNCHANGED result

Reads(q) ==
  /\ seenPw' = [seenPw EXCEPT ![q] = password]
  /\ seenTotp' = [seenTotp EXCEPT ![q] = totp]

RegisterFinds(q) ==
  /\ pc[q] = "find" /\ op[q] = "register"
  /\ Reads(q)
  /\ IF password # None THEN Answers(q, "refused") ELSE Goes(q, "create")
  /\ UNCHANGED <<row, limiter, now, asked, past>>

\* email is @unique: the second of two that both found no user gets an error.
AddressFree(q) == password = None

RegisterCreates(q) ==
  /\ pc[q] = "create"
  /\ \/ /\ AddressFree(q)
        /\ password' = pass[q]
        /\ Goes(q, "issue")
     \/ ~AddressFree(q) /\ Answers(q, "error") /\ UNCHANGED password
  /\ UNCHANGED <<totp, limiter, now, asked, seen, past>>

LoginFinds(q) ==
  /\ pc[q] = "find" /\ op[q] = "login"
  /\ Reads(q)
  /\ Goes(q, "check")
  /\ UNCHANGED <<row, limiter, now, asked, past>>

\* authenticator.check; no secret decrypts to "", which no app was given.
CodeMatches(q, f) == f.secret # None /\ code[q] = f.secret

SecondFactorOK(q) == seenTotp[q].on => CodeMatches(q, seenTotp[q])

\* Password and second factor are compared with the row as it was read.
LoginChecks(q) ==
  /\ pc[q] = "check"
  /\ IF seenPw[q] # None /\ pass[q] = seenPw[q] /\ SecondFactorOK(q)
       THEN Goes(q, "issue") ELSE Answers(q, "refused")
  /\ UNCHANGED <<row, limiter, now, asked, seen, past>>

\* Device, audit and tokens.
Issues(q) ==
  /\ pc[q] = "issue"
  /\ Answers(q, "ok")
  /\ UNCHANGED <<row, limiter, now, asked, seen, past>>

-----------------------------------------------------------------------------
(* The TOTP handlers                                                        *)

\* The audit entry follows the write and may fail when the write is done.
AfterWrite == {"ok"} \union (IF "db" \in Faults THEN {"error"} ELSE {})

Enabling == {q \in Requests : pc[q] = "enable"}

\* The row gets second factor f: what logins and enables under way make of it.
Writes(f) ==
  /\ totp' = f
  /\ gates' = [q \in Requests |-> IF q \in Running THEN gates[q] \union {f} ELSE gates[q]]

\* A new secret, whatever the row holds; totpEnabled stays as it is.
SetupWrites(q, s) ==
  /\ pc[q] = "setup"
  /\ s \notin made
  /\ made' = made \union {s}
  /\ Writes([totp EXCEPT !.secret = s])
  /\ loose' = totp.on
  /\ stale' = stale \union Enabling
  /\ Answers(q, "ok")
  /\ UNCHANGED <<password, limiter, now, asked, seen, confirmed>>

\* A code that was right for the secret that was read.
EnableFinds(q) ==
  /\ pc[q] = "find" /\ op[q] = "enable"
  /\ Reads(q)
  /\ IF CodeMatches(q, totp)
       THEN Goes(q, "enable") /\ confirmed' = confirmed \union {code[q]}
       ELSE Answers(q, "refused") /\ UNCHANGED confirmed
  /\ UNCHANGED <<row, limiter, now, asked, made, loose, stale, gates>>

\* Only totpEnabled is written: the secret is whatever the row holds by now.
EnableWrites(q) ==
  /\ pc[q] = "enable"
  /\ Writes([totp EXCEPT !.on = TRUE])
  /\ loose' = (q \in stale)
  /\ \E r \in AfterWrite : Answers(q, r)
  /\ UNCHANGED <<password, limiter, now, asked, seen, made, confirmed, stale>>

\* Nothing to disable: the early return answers ok.
DisableFinds(q) ==
  /\ pc[q] = "find" /\ op[q] = "disable"
  /\ Reads(q)
  /\ \/ (~totp.on \/ totp.secret = None) /\ Answers(q, "ok")
     \/ /\ totp.on /\ totp.secret # None
        /\ IF CodeMatches(q, totp) THEN Goes(q, "disable") ELSE Answers(q, "refused")
  /\ UNCHANGED <<row, limiter, now, asked, past>>

DisabledFactor == Off

DisableWrites(q) ==
  /\ pc[q] = "disable"
  /\ Writes(DisabledFactor)
  /\ loose' = FALSE
  /\ stale' = stale \union Enabling
  /\ \E r \in AfterWrite : Answers(q, r)
  /\ UNCHANGED <<password, limiter, now, asked, seen, made, confirmed>>

-----------------------------------------------------------------------------
\* A statement fails; what the statements before it did stays done.
DbFails(q) ==
  /\ "db" \in Faults
  /\ pc[q] \in Awaits
  /\ Answers(q, "error")
  /\ UNCHANGED <<row, limiter, now, asked, seen, past>>

\* The stored secret was encrypted with another key: decrypt throws, and the request
\* is answered with an internal error.
VaultFails(q) ==
  /\ "vault" \in Faults
  /\ \/ /\ pc[q] = "check" /\ pass[q] = seenPw[q]
        /\ seenTotp[q].on /\ code[q] # None /\ seenTotp[q].secret # None
     \/ /\ pc[q] = "find" /\ totp.secret # None
        /\ op[q] = "enable" \/ (op[q] = "disable" /\ totp.on)
  /\ Answers(q, "error")
  /\ UNCHANGED <<row, limiter, now, asked, seen, past>>

\* The process restarts: its requests and loginAttempts are gone, the row is not.
Restart ==
  /\ "restart" \in Faults
  /\ pc' = [q \in Requests |-> IF q \in Running THEN "done" ELSE pc[q]]
  /\ result' = [q \in Requests |-> IF q \in Running THEN "error" ELSE result[q]]
  /\ attempts' = {} /\ passed' = {}
  /\ UNCHANGED <<row, at, now, asked, seen, past>>

Tick ==
  /\ now < MaxTime
  /\ now' = now + 1
  /\ UNCHANGED <<row, limiter, pc, asked, seen, result, past>>

AllAnswered == Running = {} /\ UNCHANGED vars

Next ==
  \/ \E q \in Requests :
       \/ \E w \in Passwords : BeginRegister(q, w) \/ \E c \in Secrets \union {None} : BeginLogin(q, w, c)
       \/ \E c \in Secrets \union {None} : BeginTotp(q, "enable", c) \/ BeginTotp(q, "disable", c)
       \/ BeginTotp(q, "setup", None) \/ LoginThrottled(q)
       \/ RegisterFinds(q) \/ RegisterCreates(q)
       \/ LoginFinds(q) \/ LoginChecks(q) \/ Issues(q)
       \/ \E s \in Secrets : SetupWrites(q, s)
       \/ EnableFinds(q) \/ EnableWrites(q) \/ DisableFinds(q) \/ DisableWrites(q)
       \/ DbFails(q) \/ VaultFails(q)
  \/ Restart \/ Tick \/ AllAnswered

Spec == Init /\ [][Next]_vars
-----------------------------------------------------------------------------
(* Properties                                                               *)

\* "Rejects registering the same email twice": of the registrations of one address
\* at most one is answered with tokens, and the password it gave is the one that
\* signs in.
WinnerOwnsAddress ==
  \A p, q \in Requests :
    /\ op[p] = "register" /\ result[p] = "ok"
    /\ op[q] = "register" /\ result[q] = "ok"
    => p = q /\ pass[q] = password

\* "Enforces TOTP once enabled": a login that was answered with tokens gave the
\* password of the user, and at some moment while it ran TOTP was off or its code
\* was one of the secret in force.
GateHeld ==
  \A q \in Requests :
    op[q] = "login" /\ result[q] = "ok" =>
      /\ pass[q] = password
      /\ \E f \in gates[q] : ~f.on \/ CodeMatches(q, f)

\* While TOTP is on the user holds the secret in force: a code of it was shown to
\* enable.  The code cannot promise it when a setup comes after enable, or when a
\* setup or disable comes between the read and the write of one.
UsableSecondFactor == totp.on /\ ~loose => totp.secret \in confirmed

\* The logins let through in the minute that ended with login q.
InWindow(q) == {r \in passed : at[r] <= at[q] /\ at[r] + Window > at[q]}

\* However logins and restarts fall, the process that is running let through at most
\* Limit of them in any minute.
AttemptsBounded == \A q \in passed : Cardinality(InWindow(q)) <= Limit
=============================================================================
