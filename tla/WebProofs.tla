------------------------------- MODULE WebProofs ------------------------------
(***************************************************************************)
(* The web app, for any number of phones, tokens, calls and accounts: what *)
(* the phones keep in localStorage (WebClient), whatever is lost and       *)
(* whatever fails on the server; then the page with the list of accounts   *)
(* (HomeView) and the day expiryDay finds in a date.                       *)
(***************************************************************************)
EXTENDS WebClient, HomeView, TLAPS

USE DEF server, client, Server!tokens, Server!asked, Server!Issued

Types ==
  /\ stored \in [Phones -> Tokens \union {None}]
  /\ at \in [Requests -> Stops \union {"idle", "done"}]
  /\ phone \in [Requests -> Phones \union {None}]
  /\ tok \in [Requests -> Tokens \union {None}]
  /\ fresh \in [Requests -> Tokens \union {None}]
  /\ holder \in [Tokens -> Devices \union {None}]
  /\ dev \in [Requests -> Devices \union {None}]
  /\ DOMAIN pc = Requests /\ DOMAIN result = Requests
  /\ took \subseteq Requests
  /\ \A q \in Requests : at[q] # "idle" => phone[q] \in Phones

\* Every pair the server issues is new, and is issued for a device.
Unique ==
  /\ \A q \in Requests : fresh[q] # None => holder[fresh[q]] # None
  /\ \A q, r \in Requests : fresh[q] # None /\ fresh[q] = fresh[r] => q = r
  /\ \A q \in Requests : pc[q] \in {"find", "device", "issue", "loginIssue"} => dev[q] # None

\* A phone stores and presents only pairs that were delivered to it, so that the
\* pair of a call that has yet to be delivered was never presented.
Origins ==
  /\ \A q \in took : at[q] \in {"again", "done"} /\ pc[q] = "done"
  /\ \A q \in Requests : at[q] = "idle" => tok[q] = None
  /\ \A p \in Phones : stored[p] # None => \E q \in took : fresh[q] = stored[p] /\ phone[q] = p
  /\ \A q \in Requests :
       tok[q] # None => \E r \in took : fresh[r] = tok[q] /\ phone[r] = phone[q]

IInv == Types /\ Unique /\ Origins /\ NeverKeepsReplaced

\* What a step of the server may do to what the phones were given.
ServerStep ==
  /\ UNCHANGED <<client, tok>>
  /\ \A q \in Requests : pc[q] = "done" => pc'[q] = "done" /\ fresh'[q] = fresh[q]

LEMMA ServesStep == IInv /\ Serves => ServerStep /\ Types' /\ Unique'
<1> SUFFICES ASSUME IInv, Serves PROVE ServerStep /\ Types' /\ Unique'
  OBVIOUS
<1> USE ClientAssumption DEF IInv, Types, Unique, ServerStep, Server!ConstantsAssumption
<1>1. ASSUME NEW q \in Requests, NEW d \in Devices, Server!LoginDevice(q, d), UNCHANGED client
      PROVE  ServerStep /\ Types' /\ Unique'
  BY <1>1 DEF Server!LoginDevice
<1>2. ASSUME NEW q \in Requests, NEW t \in Tokens, UNCHANGED client,
             Server!LoginIssues(q, t) \/ Server!RefreshIssues(q, t)
      PROVE  ServerStep /\ Types' /\ Unique'
  <2>1. /\ pc[q] \in {"issue", "loginIssue"} /\ holder[t] = None
        /\ holder' = [holder EXCEPT ![t] = dev[q]]
        /\ fresh' = [fresh EXCEPT ![q] = t]
        /\ pc' = [pc EXCEPT ![q] = pc'[q]] /\ pc'[q] \in {"link", "done"}
        /\ UNCHANGED <<client, tok, dev>> /\ DOMAIN result' = DOMAIN result
    BY <1>2 DEF Server!LoginIssues, Server!RefreshIssues, Server!Issue, Server!Answers,
                Server!Passes, Server!After
  <2>2. QED
    BY <2>1
<1>3. ASSUME NEW q \in Requests, UNCHANGED client,
             \/ Server!FindToken(q) \/ Server!RevokeAll(q) \/ Server!CheckDevice(q)
             \/ Server!LinkToken(q) \/ Server!DbFails(q)
      PROVE  ServerStep /\ Types' /\ Unique'
  <2>1. /\ pc[q] # "done" /\ UNCHANGED <<client, holder, fresh, tok, dev>>
        /\ DOMAIN result' = DOMAIN result
        /\ pc' = [pc EXCEPT ![q] = pc'[q]]
        /\ pc'[q] \in {"device", "issue"} => pc[q] \in {"find", "device"}
        /\ pc'[q] \notin {"find", "loginIssue"}
    BY <1>3 DEF Server!FindToken, Server!RevokeAll, Server!CheckDevice, Server!LinkToken,
                Server!DbFails, Server!Answers, Server!Passes, Server!After, Server!Awaits
  <2>2. QED
    BY <2>1
<1>4. QED
  BY <1>1, <1>2, <1>3 DEF Serves

LEMMA ServesKeeps == IInv /\ Serves => IInv'
<1> SUFFICES ASSUME IInv, Serves PROVE IInv'
  OBVIOUS
<1>1. ServerStep /\ Types' /\ Unique'
  BY ServesStep
<1>2. Origins'
  BY <1>1 DEF IInv, Types, Origins, ServerStep
<1>3. NeverKeepsReplaced'
  BY <1>1 DEF IInv, NeverKeepsReplaced, ServerStep
<1>4. QED
  BY <1>1, <1>2, <1>3 DEF IInv

LEMMA StoreKeeps ==
  ASSUME NEW q \in Requests, IInv, at[q] \in {"refresh", "login"}, pc[q] = "done", Stores(q),
         at' = [at EXCEPT ![q] = at'[q]], at'[q] \in {"again", "done"},
         UNCHANGED <<server, phone>>
  PROVE  IInv'
<1> USE ClientAssumption DEF IInv, Types, Stores, Delivered, Server!ConstantsAssumption
<1> DEFINE p == phone[q]
<1>1. q \notin took
  BY DEF Origins
<1>2. Types' /\ Unique'
  <2>1. p \in Phones /\ fresh[q] \in Tokens \union {None}
    OBVIOUS
  <2>2. stored' \in [Phones -> Tokens \union {None}]
    BY <2>1
  <2>3. at' \in [Requests -> Stops \union {"idle", "done"}]
    BY DEF Stops
  <2>4. \A r \in Requests : at'[r] # "idle" => phone'[r] \in Phones
    OBVIOUS
  <2>5. QED
    BY <2>2, <2>3, <2>4 DEF Unique
<1>3. Origins'
  <2>1. \A r \in took' : at'[r] \in {"again", "done"} /\ pc'[r] = "done"
    BY DEF Origins
  <2>2. \A r \in Requests : at'[r] = "idle" => tok'[r] = None
    BY DEF Origins
  <2>3. ASSUME NEW r \in Phones, stored'[r] # None
        PROVE  \E x \in took' : fresh'[x] = stored'[r] /\ phone'[x] = r
    <3>1. CASE r = p
      BY <2>3, <3>1
    <3>2. CASE r # p
      BY <2>3, <3>2 DEF Origins
    <3>3. QED
      BY <3>1, <3>2
  <2>4. ASSUME NEW r \in Requests, tok'[r] # None
        PROVE  \E x \in took' : fresh'[x] = tok'[r] /\ phone'[x] = phone'[r]
    BY <2>4 DEF Origins
  <2>5. QED
    BY <2>1, <2>2, <2>3, <2>4 DEF Origins
<1>4. NeverKeepsReplaced'
  <2> SUFFICES ASSUME NEW r \in took', NEW u \in Phones, tok'[r] # None, stored'[u] = tok'[r]
               PROVE  FALSE
    BY DEF NeverKeepsReplaced
  <2>1. PICK x \in took : fresh[x] = tok[r] /\ phone[x] = phone[r]
    BY DEF Origins
  <2>2. CASE u = p
    \* The new pair was presented by nobody: what was presented had been taken.
    BY <1>1, <2>1, <2>2 DEF Unique
  <2>3. CASE u # p
    <3>1. stored[u] = tok[r]
      BY <2>3
    <3>2. PICK y \in took : fresh[y] = stored[u] /\ phone[y] = u
      BY <3>1 DEF Origins
    <3>3. phone[r] = u
      BY <2>1, <3>1, <3>2 DEF Unique
    <3>4. r \in took
      BY <2>3, <3>3
    <3>5. QED
      BY <3>1, <3>4 DEF NeverKeepsReplaced
  <2>4. QED
    BY <2>2, <2>3
<1>5. QED
  BY <1>2, <1>3, <1>4

\* Every step keeps the phones' storage in order.
LEMMA IInvStep == IInv /\ [Next]_vars => IInv'
<1> SUFFICES ASSUME IInv, [Next]_vars PROVE IInv'
  OBVIOUS
<1> USE ClientAssumption
    DEF IInv, Types, Unique, Origins, NeverKeepsReplaced, Stops, Server!ConstantsAssumption,
        Goes, Ends
<1>1. ASSUME NEW q \in Requests, NEW p \in Phones, Call(q, p) PROVE IInv'
  BY <1>1 DEF Call
<1>2. ASSUME NEW q \in Requests, NEW p \in Phones, SignIn(q, p) PROVE IInv'
  BY <1>2 DEF SignIn, Server!BeginLogin, Server!Asks
<1>3. ASSUME NEW q \in Requests, Unauthorized(q) PROVE IInv'
  <2>1. CASE UNCHANGED server
    BY <1>3, <2>1 DEF Unauthorized
  <2>2. CASE Server!BeginRefresh(q, Presents(q)) /\ Goes(q, "refresh")
    <3> DEFINE t == stored[phone[q]]
    <3>1. /\ t # None /\ holder[t] # None /\ t \in Tokens /\ phone[q] \in Phones
          /\ at[q] = "request" /\ pc[q] = "idle"
          /\ at' = [at EXCEPT ![q] = "refresh"] /\ pc' = [pc EXCEPT ![q] = "find"]
          /\ tok' = [tok EXCEPT ![q] = t] /\ dev' = [dev EXCEPT ![q] = holder[t]]
          /\ UNCHANGED <<stored, phone, took, fresh, holder, result>>
      BY <1>3, <2>2 DEF Unauthorized, Presents, Server!BeginRefresh, Server!GivenOut,
                        Server!Asks
    <3> HIDE DEF Goes, Ends
    <3>2. Types'
      BY <3>1
    <3>3. Unique'
      BY <3>1
    <3>4. q \notin took
      BY <3>1
    <3>5. Origins' /\ NeverKeepsReplaced'
      BY <3>1, <3>4
    <3>6. QED
      BY <3>2, <3>3, <3>5
  <2>3. QED
    BY <1>3, <2>1, <2>2 DEF Unauthorized
<1>4. ASSUME NEW q \in Requests, Accepted(q) \/ NotRefreshed(q) \/ Again(q) \/ Unreachable(q)
      PROVE  IInv'
  BY <1>4 DEF Accepted, NotRefreshed, Again, Unreachable
<1>5. ASSUME NEW q \in Requests, Refreshed(q) PROVE IInv'
  BY <1>5, StoreKeeps DEF Refreshed
<1>6. ASSUME NEW q \in Requests, SignedIn(q) PROVE IInv'
  <2>1. CASE Stores(q)
    BY <1>6, <2>1, StoreKeeps DEF SignedIn
  <2>2. CASE UNCHANGED <<stored, took>>
    BY <1>6, <2>2 DEF SignedIn
  <2>3. QED
    BY <1>6, <2>1, <2>2 DEF SignedIn
<1>7. ASSUME NEW p \in Phones, SignOut(p) PROVE IInv'
  BY <1>7 DEF SignOut
<1>8. ASSUME NEW t \in Tokens, GoesStale(t) PROVE IInv'
  BY <1>8 DEF GoesStale
<1>9. ASSUME Quiet \/ UNCHANGED vars PROVE IInv'
  BY <1>9 DEF Quiet, Server!AllAnswered, Server!vars, vars
<1> HIDE DEF IInv, Goes, Ends
<1>10. QED
  BY <1>1, <1>2, <1>3, <1>4, <1>5, <1>6, <1>7, <1>8, <1>9, ServesKeeps DEF Next

\* No phone ever goes back to a refresh token it was given the successor of.
THEOREM NoReplacedToken == Spec => []NeverKeepsReplaced
<1>1. Init => IInv
  BY ClientAssumption
     DEF Init, Server!Init, IInv, Types, Unique, Origins, NeverKeepsReplaced, Stops
<1>2. IInv => NeverKeepsReplaced
  BY DEF IInv
<1>3. QED
  BY <1>1, <1>2, IInvStep, PTL DEF Spec

\* The variables of the phones keep their types.
THEOREM Typed == Spec => []TypeOK
<1>1. Init => IInv /\ TypeOK
  <2>1. ASSUME Init PROVE IInv
    BY <2>1, ClientAssumption
       DEF Init, Server!Init, IInv, Types, Unique, Origins, NeverKeepsReplaced, Stops
  <2>2. ASSUME Init PROVE TypeOK
    BY <2>2 DEF Init, TypeOK
  <2>3. QED
    BY <2>1, <2>2
<1>2. IInv /\ TypeOK /\ [Next]_vars => TypeOK'
  <2> SUFFICES ASSUME IInv, TypeOK, [Next]_vars PROVE TypeOK'
    OBVIOUS
  <2>1. Types'
    BY IInvStep DEF IInv
  <2> USE DEF TypeOK, Goes, Ends
  <2>2. ASSUME NEW q \in Requests, NEW p \in Phones, Call(q, p) \/ SignIn(q, p) PROVE TypeOK'
    BY <2>1, <2>2 DEF Call, SignIn, Types
  <2>3. ASSUME NEW q \in Requests, Refreshed(q) PROVE TypeOK'
    BY <2>1, <2>3 DEF Refreshed, Stores, Delivered, IInv, Types
  <2>4. ASSUME NEW q \in Requests, Unauthorized(q) \/ SignedIn(q) PROVE TypeOK'
    BY <2>1, <2>4 DEF Unauthorized, SignedIn, Types
  <2>5. ASSUME NEW q \in Requests, Accepted(q) \/ NotRefreshed(q) \/ Again(q) \/ Unreachable(q)
        PROVE  TypeOK'
    <3>1. PICK r \in {"ok", "auth", "network"} : Ends(q, r)
      BY <2>5 DEF Accepted, NotRefreshed, Again, Unreachable
    <3>2. /\ UNCHANGED <<sent, stale>>
          /\ raced' \in BOOLEAN
      BY <2>5 DEF Accepted, NotRefreshed, Again, Unreachable
    <3>3. QED
      BY <2>1, <3>1, <3>2 DEF Types
  <2>6. ASSUME NEW p \in Phones, SignOut(p) PROVE TypeOK'
    BY <2>1, <2>6 DEF SignOut, Types
  <2>7. ASSUME NEW t \in Tokens, GoesStale(t) PROVE TypeOK'
    BY <2>1, <2>7 DEF GoesStale, Types
  <2>8. ASSUME Serves \/ Quiet \/ UNCHANGED vars PROVE TypeOK'
    BY <2>1, <2>8 DEF Serves, Quiet, vars, Types
  <2> HIDE DEF TypeOK, Goes, Ends
  <2>9. QED
    BY <2>2, <2>3, <2>4, <2>5, <2>6, <2>7, <2>8 DEF Next
<1>3. QED
  BY <1>1, <1>2, IInvStep, PTL DEF Spec
-----------------------------------------------------------------------------
(* Staying signed in                                                        *)

USE DEF Server!Live

Refreshing == {"find", "reuse", "device", "issue", "link"}

\* Call q has a pair that is issued and waits to be given to its phone.
Owed(q) == /\ at[q] \in {"refresh", "login"}
           /\ pc[q] = "link" \/ (pc[q] = "done" /\ result[q] = "ok")

\* While no refreshes met and no answer was lost: only issued tokens are revoked; a
\* phone makes one refresh at a time, presents a live token, and where the token it has stored is no longer
\* live the answer that replaces it is on its way.
Orderly ==
  /\ revoked \subseteq Server!Issued
  /\ \A q, r \in Requests :
       at[q] = "refresh" /\ at[r] = "refresh" /\ phone[q] = phone[r] => q = r
  /\ \A q \in Requests :
       pc[q] \in Refreshing => at[q] = "refresh" /\ pc[q] # "reuse" /\ tok[q] \in Server!Live
  /\ \A q \in Requests : Owed(q) => fresh[q] \in Server!Live
  /\ \A p \in Phones :
       stored[p] # None /\ stored[p] \notin Server!Live
         => \E q \in Requests : /\ at[q] = "refresh" /\ pc[q] = "done" /\ result[q] = "ok"
                                /\ phone[q] = p /\ tok[q] = stored[p]

Calm == ~raced => Orderly

\* Revoking the token that q presented disturbs nobody else: its phone alone was
\* given it, and is given the successor.
LEMMA LinkKeeps ==
  ASSUME IInv, TypeOK, Orderly, NEW q \in Requests, Server!LinkToken(q), UNCHANGED client
  PROVE  Orderly'
<1> USE DEF IInv, Types, Server!LinkToken, Server!RevokedByLink, Server!Passes, Server!After,
            Refreshing, Owed
<1>1. /\ at[q] = "refresh" /\ tok[q] \in Server!Live /\ tok[q] # None /\ q \notin took
      /\ result' = [result EXCEPT ![q] = "ok"] /\ pc' = [pc EXCEPT ![q] = "done"]
      /\ pc[q] = "link"
      /\ revoked' = revoked \union {tok[q]}
      /\ UNCHANGED <<client, holder, tok, fresh>>
  BY ClientAssumption DEF Orderly, Origins, Server!ConstantsAssumption
<1>2. PICK x \in took : fresh[x] = tok[q] /\ phone[x] = phone[q] /\ at[x] \in {"again", "done"}
  BY <1>1 DEF Origins
<1>3. \A r \in Requests : at[r] \in {"refresh", "login"} => fresh[r] # tok[q]
  BY <1>1, <1>2 DEF Unique
<1>4. ASSUME NEW r \in Requests, pc[r] \in Refreshing, r # q PROVE tok[r] # tok[q]
  <2>1. at[r] = "refresh" /\ tok[r] \in Server!Live
    BY <1>4 DEF Orderly
  <2>2. phone[r] # phone[q]
    BY <1>1, <1>4, <2>1 DEF Orderly
  <2>3. CASE tok[r] = tok[q]
    <3>1. PICK y \in took : fresh[y] = tok[r] /\ phone[y] = phone[r]
      BY <1>1, <2>3 DEF Origins
    <3>2. QED
      BY <1>1, <1>2, <2>2, <2>3, <3>1 DEF Unique
  <2>4. QED
    BY <2>3
<1>5. ASSUME NEW p \in Phones, stored[p] # None, stored[p] \notin Server!Live'
      PROVE  \E r \in Requests : /\ at[r] = "refresh" /\ pc'[r] = "done" /\ result'[r] = "ok"
                                 /\ phone[r] = p /\ tok[r] = stored[p]
  <2>1. CASE stored[p] = tok[q]
    <3>1. PICK y \in took : fresh[y] = stored[p] /\ phone[y] = p
      BY <1>5 DEF Origins
    <3>2. phone[q] = p
      BY <1>1, <1>2, <2>1, <3>1 DEF Unique
    <3>3. QED
      BY <1>1, <2>1, <3>2
  <2>2. CASE stored[p] # tok[q]
    <3>1. stored[p] \notin Server!Live
      BY <1>1, <1>5, <2>2
    <3>2. PICK r \in Requests : /\ at[r] = "refresh" /\ pc[r] = "done" /\ result[r] = "ok"
                                /\ phone[r] = p /\ tok[r] = stored[p]
      BY <1>5, <3>1 DEF Orderly
    <3>3. QED
      BY <1>1, <3>2
  <2>3. QED
    BY <2>1, <2>2
<1>6. \A r \in Requests : pc'[r] \in Refreshing => tok[r] \in Server!Live'
  BY <1>1, <1>4 DEF Orderly
<1>7. \A r \in Requests : Owed(r)' => fresh[r] \in Server!Live'
  BY <1>1, <1>3 DEF Orderly
<1>8. QED
  BY <1>1, <1>5, <1>6, <1>7 DEF Orderly

LEMMA ServesCalmly == IInv /\ TypeOK /\ Orderly /\ Serves => Orderly'
<1> SUFFICES ASSUME IInv, TypeOK, Orderly, Serves PROVE Orderly'
  OBVIOUS
<1> USE ClientAssumption
    DEF IInv, Types, Refreshing, Owed, Orderly, Server!ConstantsAssumption
<1>1. ASSUME NEW q \in Requests, NEW d \in Devices, Server!LoginDevice(q, d), UNCHANGED client
      PROVE  Orderly'
  BY <1>1 DEF Server!LoginDevice
<1>2. ASSUME NEW q \in Requests, NEW t \in Tokens, UNCHANGED client,
             Server!LoginIssues(q, t) \/ Server!RefreshIssues(q, t)
      PROVE  Orderly'
  <2>1. /\ pc[q] \in {"issue", "loginIssue"} /\ holder[t] = None
        /\ holder' = [holder EXCEPT ![t] = dev[q]] /\ dev[q] # None
        /\ fresh' = [fresh EXCEPT ![q] = t]
        /\ pc' = [pc EXCEPT ![q] = pc'[q]] /\ pc'[q] \in {"link", "done"}
        /\ pc'[q] = "link" => pc[q] = "issue"
        /\ \A r \in Requests : r # q => result'[r] = result[r]
        /\ UNCHANGED <<client, tok, revoked>>
    BY <1>2 DEF Server!LoginIssues, Server!RefreshIssues, Server!Issue, Server!Answers,
                Server!Passes, Server!After, Unique, TypeOK
  <2>2. t \notin revoked
    BY <2>1
  <2>3. QED
    BY <2>1, <2>2
<1>3. ASSUME NEW q \in Requests, UNCHANGED client,
             Server!FindToken(q) \/ Server!RevokeAll(q) \/ Server!CheckDevice(q)
               \/ Server!DbFails(q)
      PROVE  Orderly'
  <2>1. ~Server!RevokeAll(q)
    BY DEF Server!RevokeAll
  <2>2. /\ pc[q] # "done" /\ UNCHANGED <<client, tok, fresh, holder, revoked>>
        /\ pc' = [pc EXCEPT ![q] = pc'[q]]
        /\ pc'[q] \in Refreshing => pc[q] \in Refreshing /\ pc'[q] \in {"device", "issue"}
        /\ pc'[q] = "done" => result'[q] # "ok"
        /\ \A r \in Requests : r # q => result'[r] = result[r]
    BY <1>3, <2>1 DEF Server!FindToken, Server!CheckDevice, Server!DbFails, Server!Answers,
                      Server!Passes, Server!After, Server!Awaits
  <2>3. QED
    BY <2>2
<1> HIDE DEF IInv, Orderly
<1>4. QED
  BY <1>1, <1>2, <1>3, LinkKeeps DEF Serves

\* The pair that phone[q] stores is live, and whatever answer was on its way to
\* another phone still is.
LEMMA StoreCalmly ==
  ASSUME NEW q \in Requests, IInv, Orderly, Owed(q), pc[q] = "done", Stores(q),
         at' = [at EXCEPT ![q] = at'[q]], at'[q] \in {"again", "done"},
         UNCHANGED <<server, phone>>
  PROVE  Orderly'
<1> USE DEF IInv, Types, Owed, Stores, Delivered, Refreshing
<1>1. fresh[q] \in Server!Live /\ phone[q] \in Phones
  BY DEF Orderly
<1>2. ASSUME NEW p \in Phones, stored'[p] # None, stored'[p] \notin Server!Live
      PROVE  \E r \in Requests : /\ at'[r] = "refresh" /\ pc[r] = "done" /\ result[r] = "ok"
                                 /\ phone[r] = p /\ tok[r] = stored'[p]
  <2>1. p # phone[q] /\ stored'[p] = stored[p]
    BY <1>1, <1>2
  <2>2. PICK r \in Requests : /\ at[r] = "refresh" /\ pc[r] = "done" /\ result[r] = "ok"
                              /\ phone[r] = p /\ tok[r] = stored[p]
    BY <1>2, <2>1 DEF Orderly
  <2>3. r # q /\ at'[r] = at[r]
    BY <2>1, <2>2
  <2>4. QED
    BY <2>1, <2>2, <2>3
<1>3. \A r \in Requests : at'[r] \in {"refresh", "login"} => r # q /\ at[r] = at'[r]
  OBVIOUS
<1>4. \A r \in Requests : pc[r] \in Refreshing => r # q /\ at[r] = at'[r]
  OBVIOUS
<1>5. QED
  BY <1>2, <1>3, <1>4 DEF Orderly

LEMMA CalmStep == IInv /\ TypeOK /\ Calm /\ [Next]_vars => Calm'
<1> SUFFICES ASSUME IInv, TypeOK, Orderly, ~raced', [Next]_vars PROVE Orderly'
  <2>1. ~raced' /\ [Next]_vars => ~raced
    BY DEF Next, vars, Call, SignIn, Accepted, Unauthorized, Refreshed, NotRefreshed, Again,
           Unreachable, SignedIn, SignOut, GoesStale, Serves, Quiet
  <2>2. QED
    BY <2>1 DEF Calm
<1> USE ClientAssumption
    DEF IInv, Types, Refreshing, Owed, Orderly, Goes, Ends, Server!ConstantsAssumption
<1>1. ASSUME NEW q \in Requests, NEW p \in Phones, Call(q, p) PROVE Orderly'
  BY <1>1 DEF Call
<1>2. ASSUME NEW q \in Requests, NEW p \in Phones, SignIn(q, p) PROVE Orderly'
  BY <1>2 DEF SignIn, Server!BeginLogin, Server!Asks
<1>3. ASSUME NEW q \in Requests, Unauthorized(q) PROVE Orderly'
  <2>1. CASE UNCHANGED server /\ Ends(q, "auth")
    BY <1>3, <2>1 DEF Unauthorized
  <2>2. CASE Server!BeginRefresh(q, Presents(q)) /\ Goes(q, "refresh")
    <3> DEFINE t == stored[phone[q]]
    <3>1. /\ t # None /\ t \in Tokens /\ phone[q] \in Phones
          /\ at[q] = "request" /\ pc[q] = "idle"
          /\ at' = [at EXCEPT ![q] = "refresh"] /\ pc' = [pc EXCEPT ![q] = "find"]
          /\ tok' = [tok EXCEPT ![q] = t]
          /\ UNCHANGED <<stored, phone, took, fresh, holder, revoked, result>>
      BY <1>3, <2>2 DEF Unauthorized, Presents, Server!BeginRefresh, Server!GivenOut,
                        Server!Asks
    <3>2. \A r \in Requests : ~(at[r] = "refresh" /\ phone[r] = phone[q])
      <4> HIDE DEF IInv, Orderly
      <4>1. QED
        BY <1>3, <2>2, <3>1 DEF Unauthorized
    <3>3. t \in Server!Live
      BY <3>1, <3>2
    <3> HIDE DEF Goes, Ends
    <3>4. QED
      BY <3>1, <3>2, <3>3
  <2>3. QED
    BY <1>3, <2>1, <2>2 DEF Unauthorized
<1>4. ASSUME NEW q \in Requests, Accepted(q) \/ Again(q) PROVE Orderly'
  BY <1>4 DEF Accepted, Again
<1>5. ASSUME NEW q \in Requests, NotRefreshed(q) PROVE Orderly'
  BY <1>5 DEF NotRefreshed
<1>6. ASSUME NEW q \in Requests, Unreachable(q) PROVE Orderly'
  <2>1. /\ at[q] \in {"request", "again", "login"} /\ at' = [at EXCEPT ![q] = "done"]
        /\ UNCHANGED <<server, stored, phone>>
    BY <1>6 DEF Unreachable, Stops
  <2> HIDE DEF Goes, Ends
  <2>2. QED
    BY <2>1
<1>7. ASSUME NEW q \in Requests, Refreshed(q) PROVE Orderly'
  <2>1. /\ Owed(q) /\ pc[q] = "done" /\ Stores(q) /\ UNCHANGED <<server, phone>>
        /\ at' = [at EXCEPT ![q] = "again"] /\ at'[q] = "again"
    BY <1>7 DEF Refreshed
  <2> HIDE DEF IInv, Orderly, Owed
  <2>2. QED
    BY <2>1, StoreCalmly
<1>8. ASSUME NEW q \in Requests, SignedIn(q) PROVE Orderly'
  <2>1. CASE Stores(q)
    BY <1>8, <2>1, StoreCalmly DEF SignedIn
  <2>2. CASE result[q] # "ok" /\ UNCHANGED <<stored, took>>
    BY <1>8, <2>2 DEF SignedIn
  <2>3. QED
    BY <1>8, <2>1, <2>2 DEF SignedIn
<1>9. ASSUME NEW p \in Phones, SignOut(p) PROVE Orderly'
  BY <1>9 DEF SignOut
<1>10. ASSUME UNCHANGED <<server, stored, at, phone>> PROVE Orderly'
  BY <1>10
<1> HIDE DEF IInv, Orderly, Goes, Ends
<1>11. QED
  BY <1>1, <1>2, <1>3, <1>4, <1>5, <1>6, <1>7, <1>8, <1>9, <1>10, ServesCalmly
     DEF Next, vars, GoesStale, Quiet, Server!AllAnswered, Server!vars

\* As long as no two refreshes of one phone meet and no answer to one is lost,
\* every phone that is not refreshing holds a live refresh token or none, however
\* many phones sign in, out and refresh at once and whichever statements fail.
THEOREM StaysSignedIn == Spec => []SignedInUnlessRaced
<1>1. Init => IInv /\ TypeOK /\ Calm
  <2> SUFFICES ASSUME Init PROVE IInv /\ TypeOK /\ Calm
    OBVIOUS
  <2>1. IInv
    BY ClientAssumption
       DEF Init, Server!Init, IInv, Types, Unique, Origins, NeverKeepsReplaced, Stops
  <2>2. TypeOK
    BY DEF Init, TypeOK
  <2>3. Calm
    BY DEF Init, Server!Init, Calm, Orderly, Owed, Refreshing
  <2>4. QED
    BY <2>1, <2>2, <2>3
<1>2. Calm => SignedInUnlessRaced
  BY DEF Calm, Orderly, SignedInUnlessRaced
<1>3. QED
  BY <1>1, <1>2, CalmStep, IInvStep, Typed, PTL DEF Spec

-----------------------------------------------------------------------------
(* expiryDay on every date that can be told                                 *)

LEMMA FirstIs == ASSUME NEW S \in SUBSET Int, NEW k \in S, \A j \in S : k <= j
                 PROVE  First(S) = k
<1>1. \A i \in S : (\A j \in S : i <= j) => i = k
  OBVIOUS
<1>2. QED
  BY <1>1 DEF First

LEMMA LastIs == ASSUME NEW S \in SUBSET Int, NEW k \in S, \A j \in S : k >= j
                PROVE  Last(S) = k
<1>1. \A i \in S : (\A j \in S : i >= j) => i = k
  OBVIOUS
<1>2. QED
  BY <1>1 DEF Last

\* What the patterns capture, in the order expiryDay tries them.
Captures(t) ==
  <<YearFirst(t), YearLast(t), MonthNamed(t),
    ArabicMonth(t), Bare(t), LastResort(t)>>

\* The first pattern that captures a day decides.
LEMMA Decides ==
  ASSUME NEW t, NEW k \in 1..6, NEW d \in 1..31,
         Captures(t)[k] = d, \A i \in 1..(k - 1) : Captures(t)[i] = NoDay
  PROVE  expiryDay(t) = d
<1> DEFINE found == Captures(t)
           good == {i \in DOMAIN found : found[i] \in 1..31}
<1>1. DOMAIN found = 1..6
  BY DEF Captures
<1>2. found[k] = d /\ \A i \in 1..(k - 1) : found[i] = NoDay
  OBVIOUS
<1>3. expiryDay(t) = IF good = {} THEN NoDay ELSE found[First(good)]
  BY DEF expiryDay, Captures
<1> HIDE DEF found
<1>4. good \in SUBSET Int /\ k \in good
  BY <1>1, <1>2
<1>5. \A j \in good : k <= j
  <2> SUFFICES ASSUME NEW j \in good, j < k PROVE FALSE
    BY <1>1
  <2>1. found[j] = 0
    BY <1>1, <1>2 DEF NoDay
  <2>2. QED
    BY <2>1
<1>6. First(good) = k
  <2> HIDE DEF good
  <2> QED
    BY <1>4, <1>5, FirstIs
<1>7. QED
  BY <1>2, <1>3, <1>4, <1>6

LEMMA NoneDashed ==
  ASSUME NEW t, NEW a, NEW b, NEW c, Len(t) < 5 \/ t[2].kind # "dash"
  PROVE  ~Dashed(t, a, b, c)
BY DEF Dashed, Is, IsNum

LEMMA NoMonth ==
  ASSUME NEW t, Len(t) \in Nat, \A i \in 1..Len(t) : t[i].kind # "month"
  PROVE  MonthNamed(t) = NoDay
BY DEF MonthNamed, Is

LEMMA NoArabic ==
  ASSUME NEW t, Len(t) \in Nat, \A i \in 1..Len(t) : t[i].kind # "arabic"
  PROVE  ArabicMonth(t) = NoDay
BY DEF ArabicMonth, Is

\* The digits of a day or a month are one or two, and it is a number.
LEMMA SmallNumber ==
  ASSUME NEW v \in 1..31, NEW padded \in BOOLEAN
  PROVE  /\ Small(v, padded).kind = "num" /\ Small(v, padded).value = v
         /\ Small(v, padded).digits \in {1, 2}
         /\ (padded \/ v > 9) <=> Small(v, padded).digits = 2
BY DEF Small, Num

LEMMA ReadsBare ==
  ASSUME NEW d, d.kind = "num", d.value \in 1..31, d.digits \in {1, 2}
  PROVE  expiryDay(<<d>>) = d.value
<1> DEFINE t == <<d>>
<1>1. Len(t) = 1 /\ t[1] = d
  OBVIOUS
<1> HIDE DEF t
<1>2. YearFirst(t) = NoDay /\ YearLast(t) = NoDay
  BY <1>1, NoneDashed DEF YearFirst, YearLast
<1>3. MonthNamed(t) = NoDay /\ ArabicMonth(t) = NoDay
  BY <1>1, NoMonth, NoArabic
<1>4. Bare(t) = d.value
  BY <1>1 DEF Bare, IsNum, Is
<1>5. expiryDay(t) = d.value
  BY <1>2, <1>3, <1>4, Decides DEF Captures
<1>6. QED
  BY <1>5 DEF t

LEMMA ReadsDashed ==
  ASSUME NEW t, Len(t) = 5, t[2].kind = "dash", t[4].kind = "dash",
         t[1].kind = "num", t[3].kind = "num", t[5].kind = "num", t[3].digits \in 1..2
  PROVE  /\ t[1].digits = 4 /\ t[5].digits \in 1..2 /\ t[5].value \in 1..31
              => expiryDay(t) = t[5].value
         /\ t[1].digits \in 1..2 /\ t[5].digits = 4 /\ t[1].value \in 13..31
              => expiryDay(t) = t[1].value
         /\ t[1].digits \in 1..2 /\ t[5].digits = 4
              => (t[1].value \in 1..12 /\ t[3].value \in 1..31 => expiryDay(t) = t[3].value)
<1>1. EndsWord(t, 5)
  BY DEF EndsWord
<1>2. \A a, b, c :
        Dashed(t, a, b, c) <=> t[1].digits \in a /\ t[3].digits \in b /\ t[5].digits \in c
  BY <1>1 DEF Dashed, Is, IsNum
<1>3. CASE t[1].digits = 4 /\ t[5].digits \in 1..2 /\ t[5].value \in 1..31
  <2>1. YearFirst(t) = t[5].value
    BY <1>2, <1>3 DEF YearFirst
  <2>2. QED
    BY <1>3, <2>1, Decides DEF Captures
<1>4. CASE t[1].digits \in 1..2 /\ t[5].digits = 4
  <2>1. YearFirst(t) = NoDay
    BY <1>2, <1>4 DEF YearFirst
  <2>2. YearLast(t) = IF t[1].value > 12 THEN t[1].value ELSE t[3].value
    BY <1>2, <1>4 DEF YearLast
  <2>3. CASE t[1].value \in 13..31
    BY <1>4, <2>1, <2>2, <2>3, Decides DEF Captures
  <2>4. CASE t[1].value \in 1..12 /\ t[3].value \in 1..31
    BY <1>4, <2>1, <2>2, <2>4, Decides DEF Captures
  <2>5. QED
    BY <1>4, <2>3, <2>4
<1>5. QED
  BY <1>3, <1>4

LEMMA ReadsEnglish ==
  ASSUME NEW t, Len(t) = 6, t[1].kind = "month", t[2].kind = "space", t[3].kind = "num",
         t[4].kind = "comma", t[3].digits \in {1, 2}, t[3].value \in 1..31,
         t[5].kind = "space", t[6].kind = "num"
  PROVE  expiryDay(t) = t[3].value
<1>1. YearFirst(t) = NoDay /\ YearLast(t) = NoDay
  BY NoneDashed DEF YearFirst, YearLast
<1> DEFINE after(i) == IF Is(t, i + 1, "dot") THEN i + 3 ELSE i + 2
           named == {i \in 1..Len(t) :
                       /\ Is(t, i, "month") /\ StartsWord(t, i)
                       /\ Is(t, after(i) - 1, "space")
                       /\ IsNum(t, after(i), 1..2) /\ EndsWord(t, after(i))}
<1>2. MonthNamed(t) = IF named = {} THEN NoDay ELSE t[after(First(named))].value
  BY DEF MonthNamed
<1>3. \A i \in 1..6 : Is(t, i, "month") => i = 1
  BY DEF Is
<1>4. after(1) = 3
  BY DEF Is
<1>5. 1 \in named
  BY <1>4 DEF Is, IsNum, StartsWord, EndsWord, WordKinds
<1>6. named = {1}
  BY <1>3, <1>5
<1> HIDE DEF named
<1>7. First(named) = 1
  BY <1>6, FirstIs
<1>8. MonthNamed(t) = t[3].value
  <2> HIDE DEF after
  <2> QED
    BY <1>2, <1>4, <1>6, <1>7
<1>9. QED
  BY <1>1, <1>8, Decides DEF Captures

LEMMA ReadsArabic ==
  ASSUME NEW t, Len(t) = 5, t[1].kind = "num", t[2].kind = "space", t[3].kind = "arabic",
         t[4].kind = "space", t[5].kind = "num", t[1].value \in 1..31
  PROVE  expiryDay(t) = t[1].value
<1>1. YearFirst(t) = NoDay /\ YearLast(t) = NoDay
  BY NoneDashed DEF YearFirst, YearLast
<1>2. MonthNamed(t) = NoDay
  <2>1. \A i \in 1..5 : t[i].kind # "month"
    OBVIOUS
  <2>2. QED
    BY <2>1, NoMonth
<1> DEFINE named == {i \in 1..Len(t) :
                       /\ Is(t, i, "num") /\ Is(t, i + 1, "space")
                       /\ Is(t, i + 2, "arabic")}
<1>3. ArabicMonth(t) = IF named = {} THEN NoDay ELSE t[First(named)].value % 100
  BY DEF ArabicMonth
<1>4. named = {1}
  BY DEF Is
<1> HIDE DEF named
<1>5. First(named) = 1
  BY <1>4, FirstIs
<1>6. ArabicMonth(t) = t[1].value % 100
  BY <1>3, <1>4, <1>5
<1>7. \A v \in 1..31 : v % 100 = v
  OBVIOUS
<1>8. QED
  BY <1>1, <1>2, <1>6, <1>7, Decides DEF Captures

LEMMA ReadsShort ==
  ASSUME NEW t, Len(t) = 5, t[1].kind = "word", t[2].kind = "space", t[3].kind = "num",
         t[4].kind = "space", t[5].kind = "num", t[3].value \in 1..31, t[5].digits = 4,
         t[3].digits = 1 \/ (t[3].digits = 2 /\ t[3].value > 9)
  PROVE  expiryDay(t) = t[3].value
<1>1. YearFirst(t) = NoDay /\ YearLast(t) = NoDay
  BY NoneDashed DEF YearFirst, YearLast
<1>2. MonthNamed(t) = NoDay /\ ArabicMonth(t) = NoDay
  <2>1. \A i \in 1..5 : t[i].kind # "month" /\ t[i].kind # "arabic"
    OBVIOUS
  <2>2. 1..Len(t) = 1..5
    OBVIOUS
  <2>3. MonthNamed(t) = NoDay
    BY <2>1, <2>2, NoMonth
  <2>4. ArabicMonth(t) = NoDay
    BY <2>1, <2>2, NoArabic
  <2>5. QED
    BY <2>3, <2>4
<1>3. Bare(t) = NoDay
  BY DEF Bare
<1> DEFINE alone == {i \in 1..Len(t) :
                       /\ Is(t, i, "num") /\ StartsWord(t, i) /\ EndsWord(t, i)
                       /\ \/ t[i].digits = 1 /\ t[i].value > 0
                          \/ t[i].digits = 2 /\ t[i].value \in 10..31}
<1>4. LastResort(t) = IF alone = {} THEN NoDay ELSE t[Last(alone)].value
  BY DEF LastResort
<1>5. 3 \in alone
  BY DEF Is, StartsWord, EndsWord, WordKinds
<1>6. \A i \in alone : i = 3
  BY DEF Is
<1>7. alone = {3}
  BY <1>5, <1>6
<1> HIDE DEF alone
<1>8. Last(alone) = 3
  BY <1>7, LastIs
<1>9. LastResort(t) = t[3].value
  BY <1>4, <1>7, <1>8
<1>10. QED
  BY <1>1, <1>2, <1>3, <1>9, Decides DEF Captures

\* expiryDay reads the day out of every date that can be told, in each of the forms
\* its comment lists: no pattern tried before takes another number for the day.
THEOREM Reads ==
  \A date \in Date : Legible(date) => expiryDay(Written(date)) = date.day
<1> SUFFICES ASSUME NEW date \in Date, Legible(date)
             PROVE  expiryDay(Written(date)) = date.day
  OBVIOUS
<1> DEFINE d == Small(date.day, date.padded)
           m == Small(date.month, date.padded)
           t == Written(date)
<1>1. /\ d.kind = "num" /\ d.value = date.day /\ d.digits \in {1, 2}
      /\ m.kind = "num" /\ m.value = date.month /\ m.digits \in {1, 2}
      /\ date.day \in 1..31 /\ date.month \in 1..12 /\ date.padded \in BOOLEAN
      /\ (date.padded \/ date.day > 9) <=> d.digits = 2
  BY SmallNumber DEF Date
<1> HIDE DEF d, m
<1>2. /\ Year.kind = "num" /\ Year.digits = 4
      /\ \A k : Sign(k).kind = k
  BY DEF Year, Num, Sign
<1>3. CASE date.form = "bare"
  <2>1. t = <<d>>
    BY <1>3 DEF Written, d
  <2>2. QED
    BY <1>1, <2>1, ReadsBare
<1>4. CASE date.form = "yearFirst"
  <2>1. t = <<Year, Sign("dash"), m, Sign("dash"), d>>
    BY <1>4 DEF Written, d, m
  <2>2. /\ Len(t) = 5 /\ t[1] = Year /\ t[2] = Sign("dash") /\ t[3] = m
        /\ t[4] = Sign("dash") /\ t[5] = d
    BY <2>1
  <2> HIDE DEF t
  <2>3. expiryDay(t) = d.value
    BY <1>1, <1>2, <2>2, ReadsDashed
  <2>4. QED
    BY <1>1, <2>3 DEF t
<1>5. CASE date.form = "monthFirst"
  <2>1. t = <<m, Sign("dash"), d, Sign("dash"), Year>>
    BY <1>5 DEF Written, d, m
  <2>2. /\ Len(t) = 5 /\ t[1] = m /\ t[2] = Sign("dash") /\ t[3] = d /\ t[4] = Sign("dash")
        /\ t[5] = Year
    BY <2>1
  <2> HIDE DEF t
  <2>3. expiryDay(t) = d.value
    BY <1>1, <1>2, <2>2, ReadsDashed
  <2>4. QED
    BY <1>1, <2>3 DEF t
<1>6. CASE date.form = "dayFirst"
  <2>1. t = <<d, Sign("dash"), m, Sign("dash"), Year>>
    BY <1>6 DEF Written, d, m
  <2>2. /\ Len(t) = 5 /\ t[1] = d /\ t[2] = Sign("dash") /\ t[3] = m /\ t[4] = Sign("dash")
        /\ t[5] = Year
    BY <2>1
  <2>3. d.value \in 13..31
    BY <1>1, <1>6 DEF Legible
  <2> HIDE DEF t
  <2>4. expiryDay(t) = d.value
    BY <1>1, <1>2, <2>2, <2>3, ReadsDashed
  <2>5. QED
    BY <1>1, <2>4 DEF t
<1>7. CASE date.form = "english"
  <2>1. t = <<Sign("month"), Sign("space"), d,
              Sign("comma"), Sign("space"), Year>>
    BY <1>7 DEF Written, d, m
  <2>2. Len(t) = 6 /\ t[1] = Sign("month") /\ t[2] = Sign("space") /\ t[3] = d
        /\ t[4] = Sign("comma") /\ t[5] = Sign("space") /\ t[6] = Year
    BY <2>1
  <2> HIDE DEF t
  <2>3. expiryDay(t) = d.value
    BY <1>1, <1>2, <2>2, ReadsEnglish
  <2>4. QED
    BY <1>1, <2>3 DEF t
<1>8. CASE date.form = "short"
  <2>1. t = <<Sign("word"), Sign("space"), d, Sign("space"), Year>>
    BY <1>8 DEF Written, d, m
  <2>2. /\ Len(t) = 5 /\ t[1] = Sign("word") /\ t[2] = Sign("space") /\ t[3] = d
        /\ t[4] = Sign("space") /\ t[5] = Year
    BY <2>1
  <2>3. d.digits = 1 \/ (d.digits = 2 /\ d.value > 9)
    BY <1>1, <1>8 DEF Legible
  <2> HIDE DEF t
  <2>4. expiryDay(t) = d.value
    BY <1>1, <1>2, <2>2, <2>3, ReadsShort
  <2>5. QED
    BY <1>1, <2>4 DEF t
<1>9. CASE date.form = "arabic"
  <2>1. t = <<d, Sign("space"), Sign("arabic"), Sign("space"), Year>>
    BY <1>9 DEF Written, d, m
  <2>2. /\ Len(t) = 5 /\ t[1] = d /\ t[2] = Sign("space") /\ t[3] = Sign("arabic")
        /\ t[4] = Sign("space") /\ t[5] = Year
    BY <2>1
  <2> HIDE DEF t
  <2>3. expiryDay(t) = d.value
    BY <1>1, <1>2, <2>2, ReadsArabic
  <2>4. QED
    BY <1>1, <2>3 DEF t
<1>10. QED
  BY <1>3, <1>4, <1>5, <1>6, <1>7, <1>8, <1>9 DEF Date, Forms

-----------------------------------------------------------------------------
(* Types                                                                    *)

\* A dialog that is open has a draft with an id, and unless it is new a whole account.
LEMMA Drafts ==
  ASSUME NEW d \in Dialog PROVE d.draft.id \in Ids /\ (~d.edits => d.draft \in Account)
BY DEF Dialog, Account

LEMMA ListOf ==
  ASSUME NEW S, List(S), NEW T \in SUBSET S PROVE List(T)
BY DEF List, UniqueIds

LEMMA NoAccounts == \A S : S = {} => List(S)
BY DEF List, UniqueIds

LEMMA LeavesTyped == HomeTypeOK /\ Leaves => HomeTypeOK'
<1>1. Leaves => List(accounts')
  BY NoAccounts DEF Leaves
<1>2. Leaves => day' \in 0..31
  BY DEF Leaves, NoDay
<1>3. QED
  BY <1>1, <1>2 DEF HomeTypeOK, Leaves, outside

LEMMA SubmitTyped == ASSUME HomeTypeOK, NEW name \in NewNames, Submit(name) PROVE HomeTypeOK'
<1> USE DEF HomeTypeOK
<1>1. PICK date \in Choices(dialog.draft) :
        LET id == dialog.draft.id
            list == Others(id) \union {[id |-> id, name |-> name, date |-> date]}
        IN accounts' = list /\ onDevice' = Saved(list)
  BY DEF Submit
<1> DEFINE id == dialog.draft.id
           new == [id |-> id, name |-> name, date |-> date]
           list == Others(id) \union {new}
<1>2. dialog \in Dialog /\ id \in Ids
  BY Drafts DEF Submit
<1>3. date \in Dates
  <2>1. CASE date \in Picks
    BY <2>1, HomeAssumption
  <2>2. CASE "date" \in DOMAIN dialog.draft /\ date = dialog.draft.date
    <3>1. dialog.draft \in Account
      BY <1>2, <2>2 DEF Dialog, Account
    <3>2. QED
      BY <2>2, <3>1 DEF Account
  <2>3. QED
    BY <2>1, <2>2 DEF Choices
<1>4. new \in Account
  BY <1>2, <1>3, HomeAssumption DEF Account
<1>5. List(list)
  BY <1>4 DEF List, UniqueIds, Others
<1>6. accounts' = list /\ (onDevice' = list \/ onDevice' = onDevice)
  BY <1>1 DEF Saved
<1> HIDE DEF list
<1>7. List(accounts') /\ (onDevice' # Null => List(onDevice'))
  BY <1>5, <1>6
<1>8. QED
  BY <1>7 DEF Submit, ShowsAll, NoDay

LEMMA HomeTypedStep == HomeTypeOK /\ [HomeNext]_homeVars => HomeTypeOK'
<1> SUFFICES ASSUME HomeTypeOK, [HomeNext]_homeVars PROVE HomeTypeOK'
  OBVIOUS
<1> USE DEF outside, filters, history
<1>1. CASE Mount
  <2>1. List(accounts')
    BY <1>1, HomeAssumption DEF Mount, HomeTypeOK, loadDemoAccounts
  <2>2. data' \in {"closed", "demo", "loading", "loaded", "error"}
    BY <1>1 DEF Mount, HomeTypeOK
  <2>3. QED
    BY <1>1, <2>1, <2>2 DEF Mount, HomeTypeOK
<1>2. CASE LoadAnswers
  <2>1. accounts' \in SUBSET remote
    BY <1>2 DEF LoadAnswers, Replaced, Matches
  <2>2. List(accounts')
    BY <2>1, ListOf DEF HomeTypeOK
  <2>3. carried' \in Ids \union {Null}
    BY <1>2, Drafts DEF LoadAnswers, HomeTypeOK
  <2>4. QED
    BY <1>2, <2>2, <2>3 DEF LoadAnswers, HomeTypeOK
<1>3. CASE LoadFails
  BY <1>3 DEF LoadFails, HomeTypeOK
<1>4. CASE Retry
  BY <1>4 DEF Retry, HomeTypeOK
<1>5. CASE Unmount
  BY <1>5, LeavesTyped DEF Unmount
<1>6. ASSUME NEW q \in Queries \union {Null}, Type(q) PROVE HomeTypeOK'
  BY <1>6, HomeAssumption DEF Type, Clicks, HomeTypeOK
<1>7. ASSUME NEW d \in {p.day : p \in Picks}, PickDay(d) PROVE HomeTypeOK'
  <2>1. d \in 1..31
    BY HomeAssumption DEF Date
  <2>2. day' \in 0..31
    BY <1>7, <2>1 DEF PickDay, NoDay
  <2>3. QED
    BY <1>7, <2>2 DEF PickDay, Clicks, HomeTypeOK
<1>8. CASE ToggleAll
  BY <1>8 DEF ToggleAll, Clicks, HomeTypeOK
<1>9. ASSUME NEW i \in Ids, OpenAdd(i) PROVE HomeTypeOK'
  <2>1. dialog' \in Dialog
    BY <1>9 DEF OpenAdd, Dialog
  <2>2. QED
    BY <1>9, <2>1 DEF OpenAdd, Clicks, HomeTypeOK
<1>10. ASSUME NEW a \in accounts, NEW edits \in BOOLEAN, OpenCard(a, edits) PROVE HomeTypeOK'
  <2>1. a \in Account
    BY DEF HomeTypeOK, List
  <2>2. dialog' \in Dialog
    BY <1>10, <2>1 DEF OpenCard, Dialog
  <2>3. QED
    BY <1>10, <2>2 DEF OpenCard, Clicks, HomeTypeOK
<1>11. CASE CloseDialog
  BY <1>11 DEF CloseDialog, HomeTypeOK
<1>12. ASSUME NEW name \in NewNames, Submit(name) PROVE HomeTypeOK'
  BY <1>12, SubmitTyped
<1>13. CASE SubmitThrows
  BY <1>13, LeavesTyped DEF SubmitThrows
<1>14. ASSUME NEW S \in OtherLists, OtherTabSaves(S) PROVE HomeTypeOK'
  <2>1. List(onDevice')
    BY <1>14, HomeAssumption DEF OtherTabSaves
  <2>2. QED
    BY <1>14, <2>1 DEF OtherTabSaves, HomeTypeOK
<1>15. ASSUME NEW m \in {"demo", "signedOut", "signedIn"}, Settings(m) PROVE HomeTypeOK'
  BY <1>15 DEF Settings, HomeTypeOK
<1>16. CASE UNCHANGED homeVars
  BY <1>16 DEF homeVars, HomeTypeOK
<1>17. QED
  BY <1>1, <1>2, <1>3, <1>4, <1>5, <1>6, <1>7, <1>8, <1>9, <1>10, <1>11, <1>12, <1>13,
     <1>14, <1>15, <1>16 DEF HomeNext

\* The page, its dialog and localStorage hold whole accounts, one to an id.
THEOREM HomeTyped == HomeSpec => []HomeTypeOK
<1>1. HomeInit => HomeTypeOK
  <2>1. HomeInit => List(accounts)
    BY NoAccounts DEF HomeInit
  <2>2. HomeInit => day \in 0..31
    BY DEF HomeInit, NoDay
  <2>3. HomeInit => List(remote)
    BY HomeAssumption DEF HomeInit
  <2>4. QED
    BY <2>1, <2>2, <2>3 DEF HomeInit, HomeTypeOK
<1>2. QED
  BY <1>1, HomeTypedStep, PTL DEF HomeSpec

\* Whatever list the page holds, and whichever form a date is written in: each
\* account with a date that can be told is under the circle of its day.
THEOREM Filed == HomeSpec => []FiledUnderItsDay
<1>1. HomeTypeOK => FiledUnderItsDay
  <2> SUFFICES ASSUME HomeTypeOK, NEW a \in accounts, Legible(a.date)
               PROVE  a \in OnDay(accounts, a.date.day)
    BY DEF FiledUnderItsDay
  <2>1. a.date \in Dates /\ a.date \in Date
    BY HomeAssumption DEF HomeTypeOK, List, Account
  <2>2. DayOf[a.date] = a.date.day
    BY <2>1, Reads DEF DayOf
  <2>3. QED
    BY <2>2 DEF OnDay
<1>2. QED
  BY <1>1, HomeTyped, PTL

-----------------------------------------------------------------------------
(* The copy on the device                                                   *)

\* null, which localStorage gives for what was never saved, is no list.
NullIsNoList == Null \notin SUBSET Account

LEMMA StoredStep == NullIsNoList /\ HomeTypeOK /\ StoredIsShown /\ [HomeNext]_homeVars => StoredIsShown'
<1> SUFFICES ASSUME NullIsNoList, HomeTypeOK, HomeTypeOK', StoredIsShown,
                    [HomeNext]_homeVars PROVE StoredIsShown'
  BY HomeTypedStep
<1> USE DEF StoredIsShown, loadDemoAccounts, outside, filters, history
<1>1. CASE Mount
  <2>1. CASE mode = "demo"
    BY <1>1, <2>1 DEF Mount
  <2>2. CASE mode # "demo"
    BY <1>1, <2>2 DEF Mount
  <2>3. QED
    BY <2>1, <2>2
<1>2. CASE LoadAnswers \/ LoadFails \/ Retry
  BY <1>2 DEF LoadAnswers, LoadFails, Retry
<1>3. CASE Unmount \/ SubmitThrows
  BY <1>3 DEF Unmount, SubmitThrows, Leaves
<1>4. ASSUME Clicks PROVE StoredIsShown'
  BY <1>4 DEF Clicks
<1>5. CASE CloseDialog
  BY <1>5 DEF CloseDialog
<1>6. ASSUME NEW name \in NewNames, Submit(name) PROVE StoredIsShown'
  <2>1. PICK list : accounts' = list /\ onDevice' = Saved(list)
    BY <1>6 DEF Submit
  <2>2. data' = data /\ current' = (data = "demo")
    BY <1>6 DEF Submit
  <2>3. accounts' \in SUBSET Account
    BY DEF HomeTypeOK, List
  <2>4. ASSUME data = "demo" PROVE onDevice' = accounts' /\ onDevice' # Null
    BY <2>1, <2>3, <2>4 DEF Saved, NullIsNoList
  <2>5. QED
    BY <2>2, <2>4
<1>7. ASSUME NEW S \in OtherLists, OtherTabSaves(S) PROVE StoredIsShown'
  BY <1>7 DEF OtherTabSaves
<1>8. ASSUME NEW m \in {"demo", "signedOut", "signedIn"}, Settings(m) PROVE StoredIsShown'
  BY <1>8 DEF Settings
<1>9. CASE UNCHANGED homeVars
  BY <1>9 DEF homeVars
<1>10. QED
  BY <1>1, <1>2, <1>3, <1>4, <1>5, <1>6, <1>7, <1>8, <1>9
     DEF HomeNext, Type, PickDay, ToggleAll, OpenAdd, OpenCard

\* After every add and edit in demo mode, a reload would show what the page shows.
THEOREM StoredShown == NullIsNoList => (HomeSpec => []StoredIsShown)
<1>1. HomeInit => StoredIsShown
  BY DEF HomeInit, StoredIsShown
<1>2. SUFFICES ASSUME NullIsNoList PROVE HomeSpec => []StoredIsShown
  OBVIOUS
<1>3. HomeTypeOK /\ StoredIsShown /\ [HomeNext]_homeVars => StoredIsShown'
  BY <1>2, StoredStep
<1>4. QED
  BY <1>1, <1>3, HomeTyped, PTL DEF HomeSpec

-----------------------------------------------------------------------------
(* Demo and real accounts                                                   *)

NoReal(S) == \A a \in S : ~RealAccount(a)

\* What the API lists is real, and what the page holds or edits in demo mode is not;
\* a dialog that was open when the real list came keeps the id it had.
Apart ==
  /\ \A a \in remote : RealAccount(a)
  /\ onDevice # Null => NoReal(onDevice)
  /\ data = "closed" => dialog = Null
  /\ data = "demo" => NoReal(accounts) /\ (dialog # Null => dialog.draft.id \notin RealIds)
  /\ data = "loaded" =>
       /\ Held(accounts) \intersect Held(Fallback) \subseteq {carried}
       /\ dialog # Null => dialog.draft.id \notin Held(Fallback) \ {carried}

LEMMA ApartStep == HomeTypeOK /\ Apart /\ [HomeNext]_homeVars => Apart'
<1> SUFFICES ASSUME HomeTypeOK, Apart, [HomeNext]_homeVars PROVE Apart'
  OBVIOUS
<1> USE DEF outside, filters, history, Apart, NoReal
<1>1. CASE Mount
  <2>1. mode = "demo" => NoReal(accounts')
    BY <1>1, HomeAssumption DEF Mount, loadDemoAccounts
  <2>2. data' # "loaded" /\ data' # "closed" /\ (data' = "demo" => mode = "demo") /\ dialog' = Null
    BY <1>1 DEF Mount, HomeTypeOK
  <2>3. QED
    BY <1>1, <2>1, <2>2 DEF Mount
<1>2. CASE LoadAnswers
  <2>1. accounts' \subseteq remote
    BY <1>2 DEF LoadAnswers, Replaced, Matches
  <2>2. Held(accounts') \intersect Held(Fallback) = {}
    BY <2>1, HomeAssumption DEF Held, RealAccount
  <2>3. dialog' # Null => dialog'.draft.id = carried'
    BY <1>2 DEF LoadAnswers
  <2>4. data' = "loaded" /\ UNCHANGED <<remote, onDevice>>
    BY <1>2 DEF LoadAnswers
  <2>5. QED
    BY <2>2, <2>3, <2>4
<1>3. CASE LoadFails \/ Retry
  BY <1>3 DEF LoadFails, Retry
<1>4. CASE Unmount \/ SubmitThrows
  BY <1>4 DEF Unmount, SubmitThrows, Leaves
<1>5. ASSUME Clicks, dialog' = dialog PROVE Apart'
  BY <1>5 DEF Clicks
<1>6. ASSUME NEW i \in Ids, OpenAdd(i) PROVE Apart'
  <2>1. dialog'.draft.id = i /\ i \notin RealIds /\ i \notin Held(Fallback)
    BY <1>6 DEF OpenAdd
  <2>2. QED
    BY <1>6, <2>1 DEF OpenAdd, Clicks
<1>7. ASSUME NEW a \in accounts, NEW edits \in BOOLEAN, OpenCard(a, edits) PROVE Apart'
  <2>1. dialog'.draft.id = a.id /\ a.id \in Held(accounts)
    BY <1>7 DEF OpenCard, Held
  <2>2. data = "demo" => a.id \notin RealIds
    BY DEF RealAccount
  <2>3. QED
    BY <1>7, <2>1, <2>2 DEF OpenCard, Clicks
<1>8. CASE CloseDialog
  BY <1>8 DEF CloseDialog
<1>9. ASSUME NEW name \in NewNames, Submit(name) PROVE Apart'
  <2> DEFINE id == dialog.draft.id
  <2>1. PICK date \in Choices(dialog.draft) :
          /\ accounts' = Others(id) \union {[id |-> id, name |-> name, date |-> date]}
          /\ onDevice' = Saved(accounts')
    BY <1>9 DEF Submit
  <2>2. Held(accounts') \subseteq Held(accounts) \union {id}
    BY <2>1 DEF Others, Held
  <2>3. data = "demo" => NoReal(accounts')
    BY <1>9, <2>1 DEF Submit, Others, RealAccount
  <2>4. onDevice' # Null => NoReal(onDevice')
    BY <2>1, <2>3 DEF Saved
  <2>5. data' = data /\ remote' = remote /\ dialog' = Null /\ carried' = carried
    BY <1>9 DEF Submit
  <2>6. data = "loaded" =>
          Held(accounts') \intersect Held(Fallback) \subseteq {carried}
    BY <1>9, <2>2 DEF Submit
  <2>7. QED
    BY <2>3, <2>4, <2>5, <2>6
<1>10. ASSUME NEW S \in OtherLists, OtherTabSaves(S) PROVE Apart'
  BY <1>10, HomeAssumption DEF OtherTabSaves
<1>11. ASSUME NEW m \in {"demo", "signedOut", "signedIn"}, Settings(m) PROVE Apart'
  BY <1>11 DEF Settings
<1>12. CASE UNCHANGED homeVars
  BY <1>12 DEF homeVars
<1>13. QED
  BY <1>1, <1>2, <1>3, <1>4, <1>5, <1>6, <1>7, <1>8, <1>9, <1>10, <1>11, <1>12
     DEF HomeNext, Type, PickDay, ToggleAll

\* No add, edit, late answer or change of the settings mixes the demo accounts the page
\* started with into a loaded list, or writes a real account to the device.
THEOREM Kept == HomeSpec => []KeptApart
<1>1. HomeInit => Apart
  BY HomeAssumption DEF HomeInit, Apart
<1>2. HomeSpec => []Apart
  BY <1>1, ApartStep, HomeTyped, PTL DEF HomeSpec
<1>3. Apart => KeptApart
  BY DEF Apart, KeptApart, NoReal
<1>4. QED
  BY <1>2, <1>3, PTL
=============================================================================
