---------------------------- MODULE RefreshTokens ----------------------------
(***************************************************************************)
(* AuthService: the devices and the rotating refresh tokens of one user.   *)
(* login (register issues in the same way), refresh, logout and            *)
(* revokeDevice run concurrently; an action is what a request does between *)
(* two awaits, which is one SQL statement or transaction.                  *)
(***************************************************************************)
EXTENDS Naturals, FiniteSets

CONSTANTS Devices,
          Tokens,    \* rows of refresh_tokens, each issued once
          Requests,  \* one id for each request
          None,
          Overlap,   \* bound: requests the clients have under way at a time
          Faults     \* {"db"}: statements may fail; {}: they do not

ASSUME ConstantsAssumption ==
  /\ IsFiniteSet(Requests)
  /\ None \notin Devices \union Tokens \union Requests
  /\ Overlap \in Nat \ {0}
  /\ Faults \subseteq {"db"}

VARIABLES
  device,    \* device[d]: "absent", "active" or "revoked"
  holder,    \* holder[t]: the device of token t, None while t is not issued
  revoked,   \* tokens with a revokedAt
  expired,   \* tokens whose expiresAt has passed
  next,      \* next[t]: its replacedById
  pc,        \* pc[q]: the await request q is at
  tok,       \* the token request q presents
  dev,       \* the device request q is about
  fresh,     \* the token request q issued
  result,    \* what it answered
  family,    \* history: the login a token goes back to, or the overtaken refresh
  ended,     \* history: the families that reuse detection ended
  overtaken  \* history: requests whose token, or a login's device, another request
             \* revoked after they had looked at it and before they were done

vars == <<device, holder, revoked, expired, next, pc, tok, dev, fresh, result, family, ended,
          overtaken>>

Issued == {t \in Tokens : holder[t] # None}
Live == Issued \ revoked
Running == {q \in Requests : pc[q] \notin {"idle", "done"}}

\* The awaits of a request, named for the statement each waits for.
Awaits == {"find", "reuse", "device", "issue", "link", "login", "loginIssue", "logout",
           "lookup", "revoke"}
PastFind == {"device", "issue", "link"}
Results == {"none", "ok", "invalid", "expired", "denied", "reuse", "error"}

TypeOK ==
  /\ device \in [Devices -> {"absent", "active", "revoked"}]
  /\ holder \in [Tokens -> Devices \union {None}]
  /\ revoked \subseteq Tokens /\ expired \subseteq Tokens
  /\ next \in [Tokens -> Tokens \union {None}]
  /\ pc \in [Requests -> Awaits \union {"idle", "done"}]
  /\ tok \in [Requests -> Tokens \union {None}]
  /\ dev \in [Requests -> Devices \union {None}]
  /\ fresh \in [Requests -> Tokens \union {None}]
  /\ result \in [Requests -> Results]
  /\ family \in [Tokens -> Requests \union {None}]
  /\ ended \subseteq Requests \union {None}
  /\ overtaken \subseteq Requests

Init ==
  /\ device = [d \in Devices |-> "absent"]
  /\ holder = [t \in Tokens |-> None]
  /\ revoked = {} /\ expired = {}
  /\ next = [t \in Tokens |-> None]
  /\ pc = [q \in Requests |-> "idle"]
  /\ tok = [q \in Requests |-> None]
  /\ dev = [q \in Requests |-> None]
  /\ fresh = [q \in Requests |-> None]
  /\ result = [q \in Requests |-> "none"]
  /\ family = [t \in Tokens |-> None]
  /\ ended = {}
  /\ overtaken = {}

tokens == <<holder, revoked, next, family>>
asked == <<tok, dev>>

-----------------------------------------------------------------------------
(* Plausible bugs, one for each property the runs check.                    *)

RevokesFirst(s) == CASE s = "device" -> "link" [] s = "link" -> "issue" [] s = "issue" -> "done"
LinksOnly(q) == {}
RevokesFamily(q) == {t \in Live : holder[t] = dev[q]}
ForgetsTokens(d) == {}
-----------------------------------------------------------------------------
(* How requests begin                                                       *)

Asks(q, stmt, t, d) ==
  /\ pc[q] = "idle"
  /\ Cardinality(Running) < Overlap
  /\ pc' = [pc EXCEPT ![q] = stmt]
  /\ tok' = [tok EXCEPT ![q] = t]
  /\ dev' = [dev EXCEPT ![q] = d]
  /\ UNCHANGED <<device, tokens, expired, fresh, result, ended, overtaken>>

\* The tokens a client was sent, which are all it can present again.
GivenOut == {t \in Issued : \E q \in Requests : fresh[q] = t /\ result[q] = "ok"}

\* The client names its device, or none.
BeginLogin(q, d) == Asks(q, "login", None, d)
BeginRefresh(q, t) == t \in GivenOut /\ Asks(q, "find", t, holder[t])
BeginLogout(q, t) == t \in GivenOut /\ Asks(q, "logout", t, holder[t])

\* A string that is no token.
BeginUnknown(q) == Asks(q, "find", None, None) \/ Asks(q, "logout", None, None)

BeginRevoke(q, d) == Asks(q, "lookup", None, d)

-----------------------------------------------------------------------------
(* login and refresh                                                        *)

Answers(q, r) == /\ pc' = [pc EXCEPT ![q] = "done"]
                 /\ result' = [result EXCEPT ![q] = r]

\* A device of this user that is not revoked is reused, else one is created (the
\* caller names the new one).  Password and TOTP were right: otherwise nothing
\* changes.
LoginDevice(q, d) ==
  /\ pc[q] = "login"
  /\ IF dev[q] # None /\ device[dev[q]] = "active" THEN d = dev[q] ELSE device[d] = "absent"
  /\ device' = [device EXCEPT ![d] = "active"]
  /\ dev' = [dev EXCEPT ![q] = d]
  /\ pc' = [pc EXCEPT ![q] = "loginIssue"]
  /\ UNCHANGED <<tokens, expired, tok, fresh, result, ended, overtaken>>

\* refreshToken.create
Issue(q, t, from) ==
  /\ t \notin Issued
  /\ holder' = [holder EXCEPT ![t] = dev[q]]
  /\ family' = [family EXCEPT ![t] = from]
  /\ fresh' = [fresh EXCEPT ![q] = t]

\* The revocation by request q overtakes requests past their find that presented
\* a token it revokes, and logins that issue to a device it revokes.
Overtakes(q) ==
  overtaken' = overtaken \union
    {r \in Requests \ {q} :
       \/ (pc[r] \in PastFind /\ tok[r] \in revoked')
       \/ (pc[r] = "loginIssue" /\ device'[dev[r]] = "revoked")}

LoginIssues(q, t) ==
  /\ pc[q] = "loginIssue"
  /\ Issue(q, t, q)
  /\ Answers(q, "ok")
  /\ UNCHANGED <<device, revoked, expired, next, asked, ended, overtaken>>

\* findUnique by hash: what was read decides, though later statements may find
\* the row changed.
FindToken(q) ==
  /\ pc[q] = "find"
  /\ \/ tok[q] \notin Issued /\ Answers(q, "invalid")
     \/ /\ tok[q] \in Issued \intersect revoked
        /\ pc' = [pc EXCEPT ![q] = "reuse"] /\ UNCHANGED result
     \/ tok[q] \in Live \intersect expired /\ Answers(q, "expired")
     \/ /\ tok[q] \in Live \ expired
        /\ pc' = [pc EXCEPT ![q] = "device"] /\ UNCHANGED result
  /\ UNCHANGED <<device, tokens, expired, asked, fresh, ended, overtaken>>

\* What reuse detection revokes: every token of the user.
RevokedByReuse(q) == Live

RevokeAll(q) ==
  /\ pc[q] = "reuse"
  /\ revoked' = revoked \union RevokedByReuse(q)
  /\ ended' = ended \union {family[t] : t \in Issued}
  /\ Answers(q, "reuse")
  /\ UNCHANGED <<device, holder, next, family, expired, asked, fresh>>
  /\ Overtakes(q)

\* Device looked up, successor issued, presented token revoked: in this order.
After(s) == CASE s = "device" -> "issue" [] s = "issue" -> "link" [] s = "link" -> "done"

Passes(q, s) == /\ pc' = [pc EXCEPT ![q] = After(s)]
                /\ result' = [result EXCEPT ![q] = IF After(s) = "done" THEN "ok" ELSE @]

CheckDevice(q) ==
  /\ pc[q] = "device"
  /\ \/ device[dev[q]] = "active" /\ Passes(q, "device")
     \/ device[dev[q]] # "active" /\ Answers(q, "denied")
  /\ UNCHANGED <<device, tokens, expired, asked, fresh, ended, overtaken>>

RefreshIssues(q, t) ==
  /\ pc[q] = "issue"
  /\ Issue(q, t, IF q \in overtaken THEN q ELSE family[tok[q]])
  /\ Passes(q, "issue")
  /\ UNCHANGED <<device, revoked, expired, next, asked, ended, overtaken>>

RevokedByLink(q) == {tok[q]}

\* The successor's row is read back and linked; revokedAt is set whatever it was.
LinkToken(q) ==
  /\ pc[q] = "link"
  /\ revoked' = revoked \union RevokedByLink(q)
  /\ next' = [next EXCEPT ![tok[q]] = fresh[q]]
  /\ Passes(q, "link")
  /\ UNCHANGED <<device, holder, family, expired, asked, fresh, ended>>
  /\ Overtakes(q)
-----------------------------------------------------------------------------
(* logout and revokeDevice                                                  *)

Logout(q) ==
  /\ pc[q] = "logout"
  /\ revoked' = revoked \union ({tok[q]} \intersect Issued)
  /\ Answers(q, "ok")
  /\ UNCHANGED <<device, holder, next, family, expired, asked, fresh, ended>>
  /\ Overtakes(q)

TokensOf(d) == {t \in Live : holder[t] = d}

\* The device must be one of the user's.
FindDevice(q) ==
  /\ pc[q] = "lookup"
  /\ \/ /\ device[dev[q]] # "absent"
        /\ pc' = [pc EXCEPT ![q] = "revoke"] /\ UNCHANGED result
     \/ device[dev[q]] = "absent" /\ Answers(q, "denied")
  /\ UNCHANGED <<device, tokens, expired, asked, fresh, ended, overtaken>>

\* One transaction: the device and its tokens.
RevokeDevice(q) ==
  /\ pc[q] = "revoke"
  /\ device' = [device EXCEPT ![dev[q]] = "revoked"]
  /\ revoked' = revoked \union TokensOf(dev[q])
  /\ Answers(q, "ok")
  /\ UNCHANGED <<holder, next, family, expired, asked, fresh, ended>>
  /\ Overtakes(q)

\* A statement fails; what the statements before it did stays done.
DbFails(q) ==
  /\ "db" \in Faults
  /\ pc[q] \in Awaits
  /\ Answers(q, "error")
  /\ UNCHANGED <<device, tokens, expired, asked, fresh, ended, overtaken>>

\* Thirty days pass.
Expire(t) ==
  /\ t \in Issued
  /\ expired' = expired \union {t}
  /\ UNCHANGED <<device, tokens, pc, asked, fresh, result, ended, overtaken>>

\* Nothing is under way: clients need not call again.
AllAnswered == Running = {} /\ UNCHANGED vars

Next ==
  \/ \E q \in Requests, d \in Devices \union {None} : BeginLogin(q, d)
  \/ \E q \in Requests, d \in Devices : BeginRevoke(q, d) \/ LoginDevice(q, d)
  \/ \E q \in Requests, t \in Tokens :
        BeginRefresh(q, t) \/ BeginLogout(q, t) \/ LoginIssues(q, t) \/ RefreshIssues(q, t)
  \/ \E q \in Requests : \/ BeginUnknown(q) \/ FindToken(q) \/ RevokeAll(q) \/ CheckDevice(q) \/ LinkToken(q)
                         \/ Logout(q) \/ FindDevice(q) \/ RevokeDevice(q) \/ DbFails(q)
  \/ \E t \in Tokens : Expire(t)
  \/ AllAnswered

Spec == Init /\ [][Next]_vars
-----------------------------------------------------------------------------
(* Properties                                                               *)

\* The successor that a failed refresh issued and nobody was given.
Orphans == {fresh[q] : q \in {r \in Requests : result[r] = "error"}}

\* Families of which a refresh was overtaken.
Contested == {family[tok[q]] : q \in {r \in overtaken : tok[r] # None}}

\* "Each use of a refresh token revokes it and issues a new one": however requests
\* overlap, once the successor is linked only one of the tokens of a family that
\* were given out is live, unless another request revoked the token while it was
\* being refreshed.
OneLivePerFamily ==
  \A t, u \in Live \ Orphans :
    ( /\ family[t] = family[u] /\ family[t] \notin Contested
      /\ \A q \in Requests : pc[q] = "link" => family[tok[q]] # family[t] )
      => t = u

\* "Every refresh token for that user is revoked (...) and the caller is forced
\* back to a full login": however requests overlap, no token of a family that reuse
\* detection ended is live.  Only a refresh that had found its token before, and so
\* was overtaken, escapes: what it issues is a family of its own.
ReuseEndsFamilies == \A t \in Live : family[t] \notin ended

\* "Revoking a device invalidates its refresh tokens": however requests overlap, a
\* live token of a revoked device was issued by a request the revocation overtook.
RevokedDeviceSilent ==
  \A t \in Live : device[holder[t]] = "revoked" => \E q \in overtaken : fresh[q] = t

\* A refresh that fails half-way leaves its token live, so that the client may try
\* again instead of running into reuse detection, unless another request revoked it.
FailedRefreshCanRetry ==
  [][\A q \in Requests :
       pc[q] \in PastFind /\ result'[q] = "error"
         => tok[q] \notin revoked' \/ q \in overtaken]_vars
=============================================================================
