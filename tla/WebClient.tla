------------------------------ MODULE WebClient ------------------------------
(***************************************************************************)
(* The phones of one user (apiClient.ts, settingsStore.ts): requests that  *)
(* carry the access token of localStorage, refresh on a 401 and try once   *)
(* more, against the AuthService of RefreshTokens.  An action is what a    *)
(* phone does between two awaits.  An access token is named by the refresh *)
(* token it was issued with: localStorage always holds such a pair.        *)
(***************************************************************************)
EXTENDS Naturals, FiniteSets

CONSTANTS Phones,
          Devices, Tokens, Requests, None, Overlap, Faults,  \* see RefreshTokens
          Losses   \* {"lost"}: answers may be lost on the way; {}: they are not

VARIABLES device, holder, revoked, expired, next, pc, tok, dev, fresh, result, family, ended,
          overtaken

server == <<device, holder, revoked, expired, next, pc, tok, dev, fresh, result, family, ended,
            overtaken>>

Server == INSTANCE RefreshTokens

ASSUME ClientAssumption ==
  /\ Server!ConstantsAssumption
  /\ None \notin Phones
  /\ Losses \subseteq {"lost"}

VARIABLES
  stored,   \* stored[p]: the token pair in localStorage of phone p
  at,       \* at[q]: the await call q is at
  phone,    \* the phone that made call q
  sent,     \* the access token its request carried last
  got,      \* what it came to
  stale,    \* pairs whose access token is older than 15 minutes
  took,     \* history: calls whose token pair was put into localStorage
  raced     \* history: two refreshes of a phone met, or the answer of one was lost

client == <<stored, at, phone, sent, got, stale, took, raced>>
vars == <<server, client>>

\* The awaits of a call: the request, the refresh, the request again; the login.
Stops == {"request", "refresh", "again", "login"}

\* Of the phones; the variables of the server are those of RefreshTokens.
TypeOK ==
  /\ stored \in [Phones -> Tokens \union {None}]
  /\ at \in [Requests -> Stops \union {"idle", "done"}]
  /\ phone \in [Requests -> Phones \union {None}]
  /\ sent \in [Requests -> Tokens \union {None}]
  /\ got \in [Requests -> {"none", "ok", "auth", "network", "server"}]
  /\ stale \subseteq Tokens /\ took \subseteq Requests /\ raced \in BOOLEAN

Init ==
  /\ Server!Init
  /\ stored = [p \in Phones |-> None]
  /\ at = [q \in Requests |-> "idle"]
  /\ phone = [q \in Requests |-> None]
  /\ sent = [q \in Requests |-> None]
  /\ got = [q \in Requests |-> "none"]
  /\ stale = {} /\ took = {} /\ raced = FALSE
-----------------------------------------------------------------------------
(* Plausible bugs, one for each property the runs check.                    *)

KeepsOld(q) == IF tok[q] = None THEN fresh[q] ELSE tok[q]
SentBefore(q) == sent[q]
-----------------------------------------------------------------------------
(* Calls                                                                    *)

Goes(q, s) == at' = [at EXCEPT ![q] = s] /\ UNCHANGED got

Ends(q, r) == /\ at' = [at EXCEPT ![q] = "done"]
              /\ got' = [got EXCEPT ![q] = r]

\* authedFetch reads the access token and sends the request with it.
Call(q, p) ==
  /\ at[q] = "idle"
  /\ phone' = [phone EXCEPT ![q] = p]
  /\ \/ stored[p] = None /\ Ends(q, "auth") /\ UNCHANGED sent
     \/ stored[p] # None /\ Goes(q, "request") /\ sent' = [sent EXCEPT ![q] = stored[p]]
  /\ UNCHANGED <<server, stored, stale, took, raced>>

\* JwtAuthGuard lets the request through.
Accepted(q) ==
  /\ at[q] = "request"
  /\ sent[q] \notin stale
  /\ Ends(q, "ok")
  /\ UNCHANGED <<server, stored, phone, sent, stale, took, raced>>

\* What tryRefresh presents: what localStorage holds by then.
Presents(q) == stored[phone[q]]

\* A 401: refresh, unless the tokens are gone by now.
Unauthorized(q) ==
  /\ at[q] = "request"
  /\ sent[q] \in stale
  /\ \/ /\ stored[phone[q]] = None
        /\ Ends(q, "auth")
        /\ UNCHANGED <<server, raced>>
     \/ /\ stored[phone[q]] # None
        /\ Server!BeginRefresh(q, Presents(q))
        /\ Goes(q, "refresh")
        /\ raced' = (raced \/ \E r \in Requests : at[r] = "refresh" /\ phone[r] = phone[q])
  /\ UNCHANGED <<stored, phone, sent, stale, took>>

\* The pair the server issued for call q, which setTokens stores.
Delivered(q) == fresh[q]

Stores(q) == /\ stored' = [stored EXCEPT ![phone[q]] = Delivered(q)]
             /\ took' = took \union {q}

\* The new pair is stored whatever localStorage holds by now, and the request
\* sent again with it.
Refreshed(q) ==
  /\ at[q] = "refresh"
  /\ pc[q] = "done" /\ result[q] = "ok"
  /\ Stores(q)
  /\ sent' = [sent EXCEPT ![q] = Delivered(q)]
  /\ Goes(q, "again")
  /\ UNCHANGED <<server, phone, stale, raced>>

\* Whatever the reason, the tokens stay in localStorage.
NotRefreshed(q) ==
  /\ at[q] = "refresh"
  /\ pc[q] = "done" /\ result[q] # "ok"
  /\ Ends(q, "auth")
  /\ UNCHANGED <<server, stored, phone, sent, stale, took, raced>>

\* authedFetchOnce: a second 401 is an error.
Again(q) ==
  /\ at[q] = "again"
  /\ Ends(q, IF sent[q] \in stale THEN "auth" ELSE "ok")
  /\ UNCHANGED <<server, stored, phone, sent, stale, took, raced>>

\* fetch() throws: the request or its answer is lost; the server carries out what
\* reached it.
Unreachable(q) ==
  /\ "lost" \in Losses
  /\ at[q] \in Stops
  /\ Ends(q, "network")
  /\ raced' = (raced \/ at[q] = "refresh")
  /\ UNCHANGED <<server, stored, phone, sent, stale, took>>
-----------------------------------------------------------------------------
(* Signing in and out                                                       *)

\* login and register name no device: the server makes a new one.
SignIn(q, p) ==
  /\ at[q] = "idle"
  /\ Server!BeginLogin(q, None)
  /\ phone' = [phone EXCEPT ![q] = p]
  /\ Goes(q, "login")
  /\ UNCHANGED <<stored, sent, stale, took, raced>>

SignedIn(q) ==
  /\ at[q] = "login"
  /\ pc[q] = "done"
  /\ \/ result[q] = "ok" /\ Stores(q) /\ Ends(q, "ok")
     \/ result[q] # "ok" /\ Ends(q, "server") /\ UNCHANGED <<stored, took>>
  /\ UNCHANGED <<server, phone, sent, stale, raced>>

\* clearTokens; the server is not told.
SignOut(p) ==
  /\ stored[p] # None
  /\ stored' = [stored EXCEPT ![p] = None]
  /\ UNCHANGED <<server, at, phone, sent, got, stale, took, raced>>

\* Fifteen minutes pass.
GoesStale(t) ==
  /\ t \in Server!Issued \ stale
  /\ stale' = stale \union {t}
  /\ UNCHANGED <<server, stored, at, phone, sent, got, took, raced>>

\* A statement of the server.  That a refresh token expires after thirty days is left
\* out: RefreshTokens has it.
Serves ==
  /\ \/ \E q \in Requests, d \in Devices : Server!LoginDevice(q, d)
     \/ \E q \in Requests, t \in Tokens : Server!LoginIssues(q, t) \/ Server!RefreshIssues(q, t)
     \/ \E q \in Requests : \/ Server!FindToken(q) \/ Server!RevokeAll(q) \/ Server!CheckDevice(q)
                            \/ Server!LinkToken(q) \/ Server!DbFails(q)
  /\ UNCHANGED client

\* Nothing is under way: the phones need not call again.
Quiet == /\ \A q \in Requests : at[q] \in {"idle", "done"}
         /\ Server!AllAnswered
         /\ UNCHANGED client

Next ==
  \/ \E q \in Requests, p \in Phones : Call(q, p) \/ SignIn(q, p)
  \/ \E q \in Requests : \/ Accepted(q) \/ Unauthorized(q) \/ Refreshed(q) \/ NotRefreshed(q)
                         \/ Again(q) \/ Unreachable(q) \/ SignedIn(q)
  \/ \E p \in Phones : SignOut(p)
  \/ \E t \in Tokens : GoesStale(t)
  \/ Serves
  \/ Quiet

Spec == Init /\ [][Next]_vars
-----------------------------------------------------------------------------
(* Properties                                                               *)

\* A phone that was given the successor of a refresh token never has the old one
\* in localStorage again, in whatever order the answers of its calls arrive:
\* presenting it would end every session of the user.
NeverKeepsReplaced ==
  \A q \in took, p \in Phones : tok[q] # None => stored[p] # tok[q]

\* A signed-in phone stays signed in: between refreshes its token is live, unless
\* two refreshes of one phone met or the answer of one was lost, when reuse
\* detection signs out every phone of the user.
SignedInUnlessRaced ==
  ~raced /\ (\A q \in Requests : at[q] # "refresh")
    => \A p \in Phones : stored[p] # None => stored[p] \in Server!Live
=============================================================================
