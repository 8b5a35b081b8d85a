-------------------------- MODULE RefreshTokensProofs --------------------------
(***************************************************************************)
(* Refresh-token rotation, for any number of devices, tokens and requests  *)
(* and however requests overlap and statements fail.                       *)
(***************************************************************************)
EXTENDS RefreshTokens, TLAPS, FiniteSetTheorems

USE DEF tokens, asked

\* A request that presented a token presented one that was issued; one that did
\* not gets no further than its first statement.
Refreshing == {"find", "reuse", "device", "issue", "link"}
Asked == \A q \in Requests :
           /\ pc[q] \in {"find", "logout"} => tok[q] \in Issued \union {None}
           /\ pc[q] \in Refreshing \ {"find"} => tok[q] \in Issued
           /\ pc[q] \in Refreshing /\ tok[q] # None => dev[q] = holder[tok[q]]

LEMMA Order == After("device") = "issue" /\ After("issue") = "link" /\ After("link") = "done"
BY DEF After

\* Every step keeps devices, tokens and requests in their types.
LEMMA TypedStep == TypeOK /\ Asked /\ [Next]_vars => TypeOK'
<1> SUFFICES ASSUME TypeOK, Asked, [Next]_vars PROVE TypeOK'
  OBVIOUS
<1> USE ConstantsAssumption DEF TypeOK, Awaits, Results, Issued, Live, Answers, Passes
<1>1. ASSUME NEW q \in Requests, NEW d \in Devices \union {None}, BeginLogin(q, d)
      PROVE  TypeOK'
  BY <1>1 DEF BeginLogin, Asks
<1>0. ASSUME NEW q \in Requests, NEW d \in Devices, BeginRevoke(q, d) PROVE TypeOK'
  BY <1>0 DEF BeginRevoke, Asks
<1>2. ASSUME NEW q \in Requests, NEW t \in Tokens, BeginRefresh(q, t) \/ BeginLogout(q, t)
      PROVE  TypeOK'
  BY <1>2 DEF BeginRefresh, BeginLogout, GivenOut, Asks
<1>3. ASSUME NEW q \in Requests, NEW d \in Devices, LoginDevice(q, d) PROVE TypeOK'
  BY <1>3 DEF LoginDevice
<1>4. ASSUME NEW q \in Requests, NEW t \in Tokens, LoginIssues(q, t) PROVE TypeOK'
  BY <1>4 DEF LoginIssues, Issue
<1>5. ASSUME NEW q \in Requests, FindToken(q) PROVE TypeOK'
  BY <1>5 DEF FindToken
<1>6. ASSUME NEW q \in Requests, RevokeAll(q) PROVE TypeOK'
  <2>1. {family[t] : t \in Issued} \subseteq Requests \union {None}
    OBVIOUS
  <2>2. QED
    BY <1>6, <2>1 DEF RevokeAll, RevokedByReuse, Overtakes
<1>7. ASSUME NEW q \in Requests, CheckDevice(q) PROVE TypeOK'
  BY <1>7, Order DEF CheckDevice
<1>8. ASSUME NEW q \in Requests, NEW t \in Tokens, RefreshIssues(q, t) PROVE TypeOK'
  BY <1>8, Order DEF RefreshIssues, Issue, Asked, Refreshing
<1>9. ASSUME NEW q \in Requests, LinkToken(q) PROVE TypeOK'
  BY <1>9, Order DEF LinkToken, RevokedByLink, Asked, Refreshing, Overtakes
<1>10. ASSUME NEW q \in Requests, Logout(q) \/ RevokeDevice(q) PROVE TypeOK'
  <2>1. CASE Logout(q)
    BY <2>1 DEF Logout, Asked, Refreshing, Overtakes
  <2>2. CASE RevokeDevice(q)
    BY <2>2 DEF RevokeDevice, TokensOf, Overtakes
  <2>3. QED
    BY <1>10, <2>1, <2>2
<1>11. ASSUME NEW q \in Requests, DbFails(q) \/ BeginUnknown(q) \/ FindDevice(q) PROVE TypeOK'
  BY <1>11 DEF DbFails, BeginUnknown, Asks, FindDevice
<1>12. ASSUME NEW t \in Tokens, Expire(t) PROVE TypeOK'
  BY <1>12 DEF Expire
<1>13. ASSUME UNCHANGED vars PROVE TypeOK'
  BY <1>13 DEF vars
<1> HIDE DEF TypeOK
<1>14. QED
  BY <1>0, <1>1, <1>2, <1>3, <1>4, <1>5, <1>6, <1>7, <1>8, <1>9, <1>10, <1>11, <1>12,
     <1>13 DEF Next, AllAnswered

LEMMA AskedStep == TypeOK /\ Asked /\ [Next]_vars => Asked'
<1> SUFFICES ASSUME TypeOK, Asked, [Next]_vars PROVE Asked'
  OBVIOUS
<1> USE ConstantsAssumption
    DEF TypeOK, Asked, Refreshing, Awaits, Issued, Answers, Passes
<1>1. ASSUME NEW q \in Requests, NEW d \in Devices \union {None}, BeginLogin(q, d)
      PROVE  Asked'
  BY <1>1 DEF BeginLogin, Asks
<1>0. ASSUME NEW q \in Requests, NEW d \in Devices, BeginRevoke(q, d) PROVE Asked'
  BY <1>0 DEF BeginRevoke, Asks
<1>2. ASSUME NEW q \in Requests, NEW t \in Tokens, BeginRefresh(q, t) \/ BeginLogout(q, t)
      PROVE  Asked'
  BY <1>2 DEF BeginRefresh, BeginLogout, GivenOut, Asks
<1>3. ASSUME NEW q \in Requests, NEW d \in Devices, LoginDevice(q, d) PROVE Asked'
  BY <1>3 DEF LoginDevice
<1>4. ASSUME NEW q \in Requests, NEW t \in Tokens, LoginIssues(q, t) PROVE Asked'
  BY <1>4 DEF LoginIssues, Issue
<1>5. ASSUME NEW q \in Requests, FindToken(q) PROVE Asked'
  BY <1>5 DEF FindToken, Live
<1>6. ASSUME NEW q \in Requests, RevokeAll(q) PROVE Asked'
  BY <1>6 DEF RevokeAll
<1>7. ASSUME NEW q \in Requests, CheckDevice(q) PROVE Asked'
  BY <1>7, Order DEF CheckDevice
<1>8. ASSUME NEW q \in Requests, NEW t \in Tokens, RefreshIssues(q, t) PROVE Asked'
  BY <1>8, Order DEF RefreshIssues, Issue
<1>9. ASSUME NEW q \in Requests, LinkToken(q) PROVE Asked'
  BY <1>9, Order DEF LinkToken
<1>10. ASSUME NEW q \in Requests, Logout(q) \/ FindDevice(q) \/ RevokeDevice(q) \/ DbFails(q)
       PROVE  Asked'
  BY <1>10 DEF Logout, FindDevice, RevokeDevice, DbFails
<1>13. ASSUME NEW q \in Requests, BeginUnknown(q) PROVE Asked'
  BY <1>13 DEF BeginUnknown, Asks
<1>11. ASSUME NEW t \in Tokens, Expire(t) PROVE Asked'
  BY <1>11 DEF Expire
<1>12. ASSUME UNCHANGED vars PROVE Asked'
  BY <1>12 DEF vars
<1> HIDE DEF Asked, TypeOK
<1>14. QED
  BY <1>0, <1>1, <1>2, <1>3, <1>4, <1>5, <1>6, <1>7, <1>8, <1>9, <1>10, <1>11, <1>12,
     <1>13 DEF Next, AllAnswered

LEMMA AlwaysTyped == Spec => [](TypeOK /\ Asked)
<1>1. Init => TypeOK /\ Asked
  BY ConstantsAssumption DEF Init, TypeOK, Asked, Refreshing, Issued, Results
<1>2. TypeOK /\ Asked /\ [Next]_vars => (TypeOK /\ Asked)'
  BY TypedStep, AskedStep
<1>3. QED
  BY <1>1, <1>2, PTL DEF Spec

\* Devices, tokens and requests keep their types in every behaviour.
THEOREM Typed == Spec => []TypeOK
BY AlwaysTyped, PTL
-----------------------------------------------------------------------------
(* What was issued, to whom, and who was given it                           *)

\* A token is issued to one request only, an answer is the last a request gets, and
\* what a client presents it was given.
Given ==
  \A q \in Requests :
    /\ fresh[q] # None => fresh[q] \in Issued
    /\ \A r \in Requests : fresh[q] # None /\ fresh[q] = fresh[r] => q = r
    /\ pc[q] # "done" => result[q] = "none"
    /\ pc[q] \notin {"done", "link"} => fresh[q] = None
    /\ pc[q] \in Refreshing /\ tok[q] # None => tok[q] \in GivenOut
    /\ pc[q] = "loginIssue" => dev[q] # None

\* A step of one request that issues nothing.
LEMMA GivenKept ==
  ASSUME TypeOK, Given, NEW q \in Requests, NEW s, NEW r,
         pc[q] # "done", s # "done" => r = "none",
         s \in Refreshing => pc[q] \in Refreshing,
         pc[q] = "link" => s = "done", s = "link" => pc[q] = "link",
         pc' = [pc EXCEPT ![q] = s], result' = [result EXCEPT ![q] = r],
         \/ dev' = dev /\ s # "loginIssue"
         \/ \E d \in Devices : dev' = [dev EXCEPT ![q] = d],
         UNCHANGED <<holder, tok, fresh>>
  PROVE  Given'
<1> USE DEF TypeOK, Given, Issued
<1>1. Issued' = Issued
  OBVIOUS
<1>2. \A p \in Requests : p # q => pc'[p] = pc[p] /\ result'[p] = result[p]
  OBVIOUS
<1>3. pc'[q] = s /\ result'[q] = r /\ result[q] = "none"
  OBVIOUS
<1>4. GivenOut \subseteq GivenOut'
  BY <1>1, <1>2, <1>3 DEF GivenOut
<1>5. /\ \A p \in Requests : p # q => dev'[p] = dev[p]
      /\ s = "loginIssue" => dev'[q] # None
  BY ConstantsAssumption
<1> HIDE DEF Issued, TypeOK
<1>6. QED
  BY <1>1, <1>2, <1>3, <1>4, <1>5 DEF Refreshing

\* A step that issues a token, to one request that had none.
LEMMA GivenIssue ==
  ASSUME TypeOK, Given, NEW q \in Requests, NEW t \in Tokens, NEW s, NEW r, NEW from,
         pc[q] \notin {"done", "link"}, Issue(q, t, from), s # "done" => r = "none",
         s \in {"done", "link"}, s \in Refreshing => pc[q] \in Refreshing,
         pc' = [pc EXCEPT ![q] = s], result' = [result EXCEPT ![q] = r], UNCHANGED <<tok, dev>>,
         dev[q] # None
  PROVE  Given'
<1> USE ConstantsAssumption DEF TypeOK, Given, Issued, Issue
<1>1. Issued' = Issued \union {t} /\ t \notin Issued
  OBVIOUS
<1>2. \A p \in Requests :
        p # q => pc'[p] = pc[p] /\ result'[p] = result[p] /\ fresh'[p] = fresh[p]
  OBVIOUS
<1>3. /\ pc'[q] = s /\ result'[q] = r /\ fresh'[q] = t
      /\ result[q] = "none" /\ fresh[q] = None
  OBVIOUS
<1>4. GivenOut \subseteq GivenOut'
  BY <1>1, <1>2, <1>3 DEF GivenOut
<1> HIDE DEF Issued, TypeOK, Issue
<1>5. QED
  BY <1>1, <1>2, <1>3, <1>4 DEF Refreshing

LEMMA GivenStep == TypeOK /\ Asked /\ Given /\ [Next]_vars => Given'
<1> SUFFICES ASSUME TypeOK, Asked, Given, [Next]_vars PROVE Given'
  OBVIOUS
<1>r. \A q \in Requests : pc[q] # "done" => result[q] = "none"
  BY DEF Given
<1>e. \A q \in Requests : result = [result EXCEPT ![q] = result[q]]
  BY DEF TypeOK
<1> USE DEF Answers, Passes
<1>1. ASSUME NEW q \in Requests, NEW stmt \in {"find", "login", "logout", "lookup"},
             NEW t, NEW d, Asks(q, stmt, t, d), t = None \/ t \in GivenOut
      PROVE  Given'
  <2>1. /\ pc[q] = "idle" /\ pc' = [pc EXCEPT ![q] = stmt] /\ tok' = [tok EXCEPT ![q] = t]
        /\ dev' = [dev EXCEPT ![q] = d] /\ UNCHANGED <<holder, fresh, result>>
    BY <1>1 DEF Asks
  <2>2. \A p \in Requests : p # q => pc'[p] = pc[p] /\ tok'[p] = tok[p] /\ dev'[p] = dev[p]
    BY <2>1 DEF TypeOK
  <2>3. pc'[q] = stmt /\ tok'[q] = t /\ result[q] = "none" /\ fresh[q] = None
    BY <2>1 DEF TypeOK, Given
  <2>4. Issued' = Issued /\ GivenOut' = GivenOut
    BY <2>1 DEF Issued, GivenOut
  <2>5. QED
    BY <1>1, <2>1, <2>2, <2>3, <2>4 DEF Given
<1>2. ASSUME NEW q \in Requests, NEW d \in Devices, LoginDevice(q, d) PROVE Given'
  BY <1>2, <1>r, <1>e, GivenKept DEF LoginDevice, Refreshing
<1>3. ASSUME NEW q \in Requests, NEW t \in Tokens, LoginIssues(q, t) PROVE Given'
  <2>1. dev[q] # None
    BY <1>3 DEF LoginIssues, Given
  <2>2. pc[q] = "loginIssue" /\ pc' = [pc EXCEPT ![q] = "done"]
        /\ result' = [result EXCEPT ![q] = "ok"]
        /\ Issue(q, t, q) /\ UNCHANGED <<tok, dev>>
    BY <1>3 DEF LoginIssues
  <2>3. QED
    BY <2>1, <2>2, GivenIssue DEF Refreshing
<1>4. ASSUME NEW q \in Requests, FindToken(q) PROVE Given'
  BY <1>4, <1>r, <1>e, GivenKept DEF FindToken, Refreshing
<1>5. ASSUME NEW q \in Requests, RevokeAll(q) PROVE Given'
  BY <1>5, GivenKept DEF RevokeAll, Refreshing
<1>6. ASSUME NEW q \in Requests, CheckDevice(q) PROVE Given'
  BY <1>6, <1>r, <1>e, Order, GivenKept DEF CheckDevice, Refreshing
<1>7. ASSUME NEW q \in Requests, NEW t \in Tokens, RefreshIssues(q, t) PROVE Given'
  <2>1. dev[q] # None
    BY <1>7, ConstantsAssumption DEF RefreshIssues, Asked, Refreshing, Issued
  <2>2. pc[q] = "issue" /\ pc' = [pc EXCEPT ![q] = "link"]
        /\ result' = [result EXCEPT ![q] = "none"]
        /\ \E from : Issue(q, t, from)
        /\ UNCHANGED <<tok, dev>>
    BY <1>7, <1>r, <1>e, Order DEF RefreshIssues
  <2>3. QED
    BY <2>1, <2>2, GivenIssue DEF Refreshing
<1>8. ASSUME NEW q \in Requests, LinkToken(q) PROVE Given'
  BY <1>8, Order, GivenKept DEF LinkToken, Refreshing
<1>9. ASSUME NEW q \in Requests, Logout(q) \/ RevokeDevice(q) PROVE Given'
  BY <1>9, GivenKept DEF Logout, RevokeDevice, Refreshing
<1>13. ASSUME NEW q \in Requests, FindDevice(q) PROVE Given'
  BY <1>13, <1>r, <1>e, GivenKept DEF FindDevice, Refreshing
<1>10. ASSUME NEW q \in Requests, DbFails(q) PROVE Given'
  BY <1>10, GivenKept DEF DbFails, Awaits, Refreshing
<1>11. ASSUME UNCHANGED <<holder, pc, tok, dev, fresh, result>> PROVE Given'
  BY <1>11 DEF Given, Issued, GivenOut
<1>12. QED
  BY <1>1, <1>2, <1>3, <1>4, <1>5, <1>6, <1>7, <1>8, <1>9, <1>10, <1>11, <1>13
     DEF Next, vars, BeginLogin, BeginRevoke, BeginRefresh, BeginLogout, BeginUnknown,
         Expire, AllAnswered

LEMMA AlwaysGiven == Spec => []Given
<1>1. Init => Given
  BY DEF Init, Given, Refreshing
<1>2. QED
  BY <1>1, GivenStep, AlwaysTyped, PTL DEF Spec

\* The successor of a refresh that failed was given to nobody.
LEMMA NotOrphan == ASSUME TypeOK, Given, NEW t \in GivenOut PROVE t \notin Orphans
BY ConstantsAssumption DEF TypeOK, Given, GivenOut, Issued, Orphans

\* Only a failing statement makes one.
LEMMA SameOrphans ==
  ASSUME \A q \in Requests : /\ result'[q] = "error" <=> result[q] = "error"
                             /\ result[q] = "error" => fresh'[q] = fresh[q]
  PROVE  Orphans' = Orphans
BY DEF Orphans

LEMMA OrphansKept ==
  ASSUME TypeOK, Given, NEW q \in Requests,
         \/ FindToken(q) \/ RevokeAll(q) \/ CheckDevice(q) \/ LinkToken(q)
         \/ Logout(q) \/ FindDevice(q) \/ RevokeDevice(q)
         \/ \E t \in Tokens : LoginIssues(q, t) \/ RefreshIssues(q, t)
         \/ \E d \in Devices : LoginDevice(q, d)
  PROVE  Orphans' = Orphans
<1>1. pc[q] # "done" /\ result[q] = "none"
  BY DEF FindToken, RevokeAll, CheckDevice, LinkToken, Logout, FindDevice, RevokeDevice,
         LoginIssues, RefreshIssues, LoginDevice, Given
<1>2. /\ \E r \in Results \ {"error"} : result' = [result EXCEPT ![q] = r]
      /\ fresh' = [fresh EXCEPT ![q] = fresh'[q]]
  <2>1. result = [result EXCEPT ![q] = "none"] /\ fresh = [fresh EXCEPT ![q] = fresh[q]]
    BY <1>1 DEF TypeOK
  <2>2. CASE FindToken(q) \/ RevokeAll(q) \/ CheckDevice(q) \/ LinkToken(q)
    BY <1>1, <2>1, <2>2, Order
       DEF FindToken, RevokeAll, CheckDevice, LinkToken, Answers, Passes, Results
  <2>3. CASE Logout(q) \/ FindDevice(q) \/ RevokeDevice(q)
    BY <2>1, <2>3 DEF Logout, FindDevice, RevokeDevice, Answers, Results
  <2>4. ASSUME NEW d \in Devices, LoginDevice(q, d) PROVE <1>2!1 /\ <1>2!2
    BY <2>1, <2>4 DEF LoginDevice, Results
  <2>5. ASSUME NEW t \in Tokens, LoginIssues(q, t) \/ RefreshIssues(q, t)
        PROVE  <1>2!1 /\ <1>2!2
    BY <1>1, <2>1, <2>5, Order
       DEF LoginIssues, RefreshIssues, Issue, Answers, Passes, Results, TypeOK
  <2>6. QED
    BY <2>2, <2>3, <2>4, <2>5
<1>3. QED
  BY <1>1, <1>2, SameOrphans DEF TypeOK
-----------------------------------------------------------------------------
(* Who is overtaken                                                         *)

\* Between the statement that looked at a token or a device and the end of its
\* request only an overtaking request can have revoked it.
Overtaking ==
  /\ \A q \in Requests : pc[q] \in PastFind /\ tok[q] \in revoked => q \in overtaken
  /\ \A q \in Requests : pc[q] \in {"issue", "loginIssue"} /\ device[dev[q]] = "revoked"
                           => q \in overtaken
  /\ \A q \in overtaken : pc[q] # "idle" /\ (tok[q] # None => tok[q] \in Issued)
  /\ \A q \in Requests : pc[q] \in {"login", "loginIssue"} => tok[q] = None

LEMMA OvertakingStep == TypeOK /\ Asked /\ Given /\ Overtaking /\ [Next]_vars => Overtaking'
<1> SUFFICES ASSUME TypeOK, Asked, Given, Overtaking, [Next]_vars PROVE Overtaking'
  OBVIOUS
<1> USE ConstantsAssumption
    DEF Overtaking, Asked, Refreshing, PastFind, TypeOK, Awaits, Issued, Live, Answers, Passes
<1>1. ASSUME NEW q \in Requests, NEW stmt \in {"find", "login", "logout", "lookup"},
             NEW t, NEW d, Asks(q, stmt, t, d), stmt = "login" => t = None
      PROVE  Overtaking'
  BY <1>1 DEF Asks
<1>2. ASSUME NEW q \in Requests, NEW d \in Devices, LoginDevice(q, d) PROVE Overtaking'
  BY <1>2 DEF LoginDevice
<1>3. ASSUME NEW q \in Requests, NEW t \in Tokens, LoginIssues(q, t) PROVE Overtaking'
  BY <1>3 DEF LoginIssues, Issue, Given
<1>4. ASSUME NEW q \in Requests, FindToken(q) PROVE Overtaking'
  BY <1>4 DEF FindToken
<1>5. ASSUME NEW q \in Requests, RevokeAll(q) PROVE Overtaking'
  BY <1>5 DEF RevokeAll, Overtakes
<1>6. ASSUME NEW q \in Requests, CheckDevice(q) PROVE Overtaking'
  BY <1>6, Order DEF CheckDevice
<1>7. ASSUME NEW q \in Requests, NEW t \in Tokens, RefreshIssues(q, t) PROVE Overtaking'
  BY <1>7, Order DEF RefreshIssues, Issue
<1>8. ASSUME NEW q \in Requests, LinkToken(q) PROVE Overtaking'
  BY <1>8, Order DEF LinkToken, Overtakes
<1>9. ASSUME NEW q \in Requests, Logout(q) PROVE Overtaking'
  BY <1>9 DEF Logout, Overtakes
<1>10. ASSUME NEW q \in Requests, RevokeDevice(q) PROVE Overtaking'
  <2>1. /\ pc[q] = "revoke" /\ pc' = [pc EXCEPT ![q] = "done"]
        /\ device' = [device EXCEPT ![dev[q]] = "revoked"]
        /\ revoked' = revoked \union TokensOf(dev[q])
        /\ UNCHANGED <<holder, tok, dev>>
        /\ Overtakes(q)
    BY <1>10 DEF RevokeDevice
  <2>2. \A r \in Requests : pc'[r] \in PastFind /\ tok[r] \in revoked' => r \in overtaken'
    BY <2>1 DEF Overtakes
  <2>3. ASSUME NEW r \in Requests, pc'[r] \in {"issue", "loginIssue"},
               device'[dev[r]] = "revoked"
        PROVE  r \in overtaken'
    <3>1. CASE dev[r] # dev[q]
      BY <2>1, <2>3, <3>1 DEF Overtakes
    <3>2. CASE pc[r] = "loginIssue"
      BY <2>1, <2>3, <3>2 DEF Overtakes
    <3>3. CASE dev[r] = dev[q] /\ pc[r] = "issue"
      <4>1. tok[r] \in Issued /\ holder[tok[r]] = dev[q]
        BY <3>3
      <4>2. tok[r] \in revoked'
        BY <2>1, <4>1 DEF TokensOf
      <4>3. QED
        BY <2>1, <2>2, <2>3, <3>3, <4>2
    <3>4. QED
      BY <2>1, <2>3, <3>1, <3>2, <3>3
  <2>4. \A r \in overtaken' : pc'[r] # "idle" /\ (tok[r] # None => tok[r] \in Issued)
    BY <2>1 DEF Overtakes
  <2>5. QED
    BY <2>1, <2>2, <2>3, <2>4
<1>11. ASSUME NEW q \in Requests, FindDevice(q) \/ DbFails(q) PROVE Overtaking'
  BY <1>11 DEF FindDevice, DbFails
<1>12. ASSUME UNCHANGED <<device, holder, revoked, pc, tok, dev, overtaken>> PROVE Overtaking'
  BY <1>12
<1> HIDE DEF Overtaking
<1>13. QED
  BY <1>1, <1>2, <1>3, <1>4, <1>5, <1>6, <1>7, <1>8, <1>9, <1>10, <1>11, <1>12
     DEF Next, vars, BeginLogin, BeginRevoke, BeginRefresh, BeginLogout, BeginUnknown,
         Expire, AllAnswered

LEMMA AlwaysOvertaking == Spec => []Overtaking
<1>1. Init => Overtaking
  BY DEF Init, Overtaking, PastFind
<1>2. QED
  BY <1>1, OvertakingStep, AlwaysTyped, AlwaysGiven, PTL DEF Spec

\* However requests overlap and whichever statement fails: a refresh that fails
\* half-way leaves its token live, unless another request revoked it.
THEOREM Retry == Spec => FailedRefreshCanRetry
<1>1. ASSUME TypeOK, Given, Overtaking, Next,
             NEW q \in Requests, pc[q] \in PastFind, result'[q] = "error"
      PROVE  tok[q] \notin revoked' \/ q \in overtaken
  <2>1. result[q] = "none"
    BY <1>1 DEF Given, PastFind
  <2>2. ASSUME NEW r \in Requests,
               RevokeAll(r) \/ LinkToken(r) \/ Logout(r) \/ RevokeDevice(r)
        PROVE  FALSE
    <3>1. result' = [result EXCEPT ![r] = "reuse"] \/ result' = [result EXCEPT ![r] = "ok"]
      BY <2>2, Order DEF RevokeAll, LinkToken, Logout, RevokeDevice, Answers, Passes
    <3>2. QED
      BY <1>1, <2>1, <3>1 DEF TypeOK
  <2>3. revoked' = revoked
    BY <1>1, <2>2
       DEF Next, BeginLogin, BeginRevoke, BeginRefresh, BeginLogout, BeginUnknown, Asks,
           LoginDevice, LoginIssues, RefreshIssues, FindToken, CheckDevice, FindDevice,
           DbFails, Expire, AllAnswered, vars
  <2>4. QED
    BY <1>1, <2>3 DEF Overtaking
<1>2. TypeOK /\ Given /\ Overtaking /\ [Next]_vars
      => [\A q \in Requests :
            pc[q] \in PastFind /\ result'[q] = "error"
              => tok[q] \notin revoked' \/ q \in overtaken]_vars
  BY <1>1
<1>3. QED
  BY <1>2, AlwaysTyped, AlwaysGiven, AlwaysOvertaking, PTL DEF Spec, FailedRefreshCanRetry
-----------------------------------------------------------------------------
(* What a revocation ends                                                   *)

\* A token goes back to a request that was given one; the families that reuse
\* detection ended are such requests.
Families ==
  /\ \A t \in Issued : family[t] \in Requests /\ fresh[family[t]] # None
  /\ \A f \in ended : f \in Requests /\ fresh[f] # None

\* The new token joins the family of a live one or founds its own.
LEMMA IssueStep ==
  ASSUME TypeOK, Asked, Given, Overtaking, NEW q \in Requests, NEW t \in Tokens,
         LoginIssues(q, t) \/ RefreshIssues(q, t)
  PROVE  /\ Issued' = Issued \union {t} /\ t \notin Issued /\ Live' \subseteq Live \union {t}
         /\ fresh[q] = None /\ fresh'[q] = t /\ holder'[t] = dev[q]
         /\ \A r \in Requests : r # q => fresh'[r] = fresh[r] /\ pc'[r] = pc[r]
         /\ \A u \in Tokens : u # t => family'[u] = family[u] /\ holder'[u] = holder[u]
         /\ UNCHANGED <<device, revoked, tok, dev, ended, overtaken>>
         /\ \/ family'[t] = q /\ (pc[q] = "issue" => q \in overtaken)
            \/ /\ pc[q] = "issue" /\ q \notin overtaken /\ tok[q] \in Live
               /\ family'[t] = family[tok[q]]
<1> USE ConstantsAssumption
    DEF TypeOK, Issued, Live, Issue, Given, Answers, Passes, Asked, Refreshing, Overtaking, PastFind
<1>1. CASE LoginIssues(q, t)
  BY <1>1 DEF LoginIssues
<1>2. CASE RefreshIssues(q, t)
  BY <1>2 DEF RefreshIssues
<1>3. QED
  BY <1>1, <1>2

LEMMA FamiliesStep ==
  TypeOK /\ Asked /\ Given /\ Overtaking /\ Families /\ ReuseEndsFamilies /\ [Next]_vars
    => (Families /\ ReuseEndsFamilies)'
<1> SUFFICES ASSUME TypeOK, Asked, Given, Overtaking, Families, ReuseEndsFamilies, [Next]_vars
             PROVE  (Families /\ ReuseEndsFamilies)'
  OBVIOUS
<1>1. ASSUME NEW q \in Requests, NEW t \in Tokens, LoginIssues(q, t) \/ RefreshIssues(q, t)
      PROVE  (Families /\ ReuseEndsFamilies)'
  <2>1. /\ Issued' = Issued \union {t} /\ t \notin Issued /\ Live' \subseteq Live \union {t}
        /\ fresh[q] = None /\ fresh'[q] = t
        /\ \A r \in Requests : r # q => fresh'[r] = fresh[r]
        /\ \A u \in Tokens : u # t => family'[u] = family[u]
        /\ ended' = ended
        /\ family'[t] = q \/ (tok[q] \in Live /\ family'[t] = family[tok[q]])
    BY <1>1, IssueStep
  <2>2. Issued \subseteq Tokens /\ Live \subseteq Issued /\ t # None
    BY ConstantsAssumption DEF Issued, Live
  <2>3. family'[t] \in Requests /\ fresh'[family'[t]] # None /\ family'[t] \notin ended
    BY <2>1, <2>2 DEF Families, ReuseEndsFamilies
  <2>4. QED
    BY <2>1, <2>2, <2>3 DEF Families, ReuseEndsFamilies
<1>2. ASSUME NEW q \in Requests, RevokeAll(q) PROVE (Families /\ ReuseEndsFamilies)'
  <2>1. /\ Issued' = Issued /\ Live' = {} /\ UNCHANGED <<family, fresh>>
        /\ ended' = ended \union {family[t] : t \in Issued}
    BY <1>2 DEF RevokeAll, RevokedByReuse, Issued, Live
  <2>2. QED
    BY <2>1 DEF Families, ReuseEndsFamilies
<1>3. ASSUME UNCHANGED <<holder, family, fresh, ended>>, revoked \subseteq revoked'
      PROVE  (Families /\ ReuseEndsFamilies)'
  BY <1>3 DEF Families, ReuseEndsFamilies, Issued, Live
<1>4. QED
  BY <1>1, <1>2, <1>3
     DEF Next, BeginLogin, BeginRevoke, BeginRefresh, BeginLogout, BeginUnknown, Asks,
         LoginDevice, FindToken, CheckDevice, LinkToken, Logout, FindDevice, RevokeDevice,
         DbFails, Expire, AllAnswered, vars

LEMMA AlwaysFamilies == Spec => [](Families /\ ReuseEndsFamilies)
<1>1. Init => Families /\ ReuseEndsFamilies
  BY DEF Init, Families, ReuseEndsFamilies, Issued, Live
<1>2. QED
  BY <1>1, FamiliesStep, AlwaysTyped, AlwaysGiven, AlwaysOvertaking, PTL DEF Spec

\* However requests overlap and whichever statement fails, reuse detection ends the
\* families of all tokens that were issued; an overtaken refresh founds a new one.
THEOREM ReuseEnds == Spec => []ReuseEndsFamilies
BY AlwaysFamilies, PTL

LEMMA SilentStep ==
  TypeOK /\ Asked /\ Given /\ Overtaking /\ RevokedDeviceSilent /\ [Next]_vars
    => RevokedDeviceSilent'
<1> SUFFICES ASSUME TypeOK, Asked, Given, Overtaking, RevokedDeviceSilent, [Next]_vars
             PROVE  RevokedDeviceSilent'
  OBVIOUS
<1> USE DEF RevokedDeviceSilent
<1>1. ASSUME NEW q \in Requests, NEW t \in Tokens, LoginIssues(q, t) \/ RefreshIssues(q, t)
      PROVE  RevokedDeviceSilent'
  <2>1. /\ Issued' = Issued \union {t} /\ t \notin Issued /\ Live' \subseteq Live \union {t}
        /\ fresh[q] = None /\ fresh'[q] = t /\ holder'[t] = dev[q]
        /\ \A r \in Requests : r # q => fresh'[r] = fresh[r]
        /\ \A u \in Tokens : u # t => holder'[u] = holder[u]
        /\ UNCHANGED <<device, overtaken>>
    BY <1>1, IssueStep
  <2>2. Live \subseteq Tokens /\ None \notin Live
    BY ConstantsAssumption DEF Issued, Live
  <2>3. device[dev[q]] = "revoked" => q \in overtaken
    BY <1>1 DEF LoginIssues, RefreshIssues, Overtaking
  <2>4. overtaken \subseteq Requests
    BY DEF TypeOK
  <2>5. t \notin Live
    BY <2>1 DEF Live
  <2>6. QED
    BY <2>1, <2>2, <2>3, <2>4, <2>5
<1>2. ASSUME NEW q \in Requests, RevokeDevice(q) PROVE RevokedDeviceSilent'
  <2>1. /\ device' = [device EXCEPT ![dev[q]] = "revoked"]
        /\ Live' = Live \ TokensOf(dev[q]) /\ overtaken \subseteq overtaken'
        /\ UNCHANGED <<holder, fresh>>
    BY <1>2 DEF RevokeDevice, Overtakes, Live, Issued, TokensOf
  <2>2. QED
    BY <2>1 DEF TokensOf, TypeOK, Live
<1>3. ASSUME UNCHANGED <<device, holder, fresh>>, revoked \subseteq revoked',
             overtaken \subseteq overtaken'
      PROVE  RevokedDeviceSilent'
  BY <1>3 DEF Live, Issued
<1>4. ASSUME NEW q \in Requests, NEW d \in Devices, LoginDevice(q, d)
      PROVE  RevokedDeviceSilent'
  BY <1>4 DEF LoginDevice, Live, Issued, TypeOK
<1>5. QED
  BY <1>1, <1>2, <1>3, <1>4
     DEF Next, BeginLogin, BeginRevoke, BeginRefresh, BeginLogout, BeginUnknown, Asks,
         FindToken, RevokeAll, CheckDevice, LinkToken, Logout, FindDevice, Overtakes,
         DbFails, Expire, AllAnswered, vars

\* However requests overlap and whichever statement fails, the live tokens of a
\* revoked device were issued by requests that the revocation overtook.
THEOREM RevokedSilent == Spec => []RevokedDeviceSilent
<1>1. Init => RevokedDeviceSilent
  BY DEF Init, RevokedDeviceSilent, Issued, Live
<1>2. QED
  BY <1>1, SilentStep, AlwaysTyped, AlwaysGiven, AlwaysOvertaking, PTL DEF Spec
-----------------------------------------------------------------------------
(* Rotation                                                                 *)

\* While token tok[q] is being refreshed the tokens of its family that were given
\* out, or may yet be, are that token and the successors about to be linked to it.
InLine(q, u) ==
  u = tok[q] \/ \E r \in Requests : pc[r] = "link" /\ tok[r] = tok[q] /\ fresh[r] = u

Lines ==
  \A q \in Requests : pc[q] \in PastFind /\ family[tok[q]] \notin Contested
    => \A u \in Live \ Orphans : family[u] = family[tok[q]] => InLine(q, u)

\* Once contested a family stays so.
LEMMA StillContested ==
  ASSUME overtaken \subseteq overtaken',
         \A r \in overtaken : /\ tok'[r] = tok[r]
                              /\ tok[r] # None => family'[tok[r]] = family[tok[r]]
  PROVE  Contested \subseteq Contested'
<1> SUFFICES ASSUME NEW f \in Contested PROVE f \in Contested'
  OBVIOUS
<1>1. PICK q \in overtaken : tok[q] # None /\ f = family[tok[q]]
  BY DEF Contested
<1>2. q \in overtaken' /\ tok'[q] = tok[q] /\ f = family'[tok'[q]]
  BY <1>1
<1>3. QED
  BY <1>1, <1>2 DEF Contested

\* A token that is presented is no successor about to be linked.
LEMMA PresentedIsGiven ==
  ASSUME TypeOK, Given, NEW q \in Requests, pc[q] \in Refreshing, tok[q] # None,
         NEW r \in Requests, pc[r] = "link"
  PROVE  tok[q] # fresh[r] /\ tok[q] \notin Orphans
<1>1. tok[q] \in GivenOut
  BY DEF Given
<1>2. tok[q] \notin Orphans
  BY <1>1, NotOrphan
<1>3. PICK p \in Requests : fresh[p] = tok[q] /\ result[p] = "ok"
  BY <1>1 DEF GivenOut
<1>4. result[r] = "none"
  BY DEF Given
<1>5. QED
  BY <1>2, <1>3, <1>4 DEF Given

LEMMA LinesKept ==
  ASSUME Lines, OneLivePerFamily, NEW q \in Requests, pc[q] # "link",
         pc'[q] \in PastFind => pc[q] \in PastFind /\ pc'[q] # "link" /\ tok'[q] = tok[q],
         \A r \in Requests : r # q => pc'[r] = pc[r] /\ tok'[r] = tok[r],
         UNCHANGED <<family, fresh>>, Live' \subseteq Live, Orphans \subseteq Orphans',
         Contested \subseteq Contested'
  PROVE  (Lines /\ OneLivePerFamily)'
<1>1. \A r \in Requests : pc[r] = "link" => pc'[r] = "link" /\ tok'[r] = tok[r]
  OBVIOUS
<1>2. \A r \in Requests : pc'[r] \in PastFind => pc[r] \in PastFind /\ tok'[r] = tok[r]
  OBVIOUS
<1>3. Lines'
  BY <1>1, <1>2 DEF Lines, InLine
<1>4. OneLivePerFamily'
  BY <1>1 DEF OneLivePerFamily
<1>5. QED
  BY <1>3, <1>4

\* A refresh finds its token: whoever else refreshes the family presents the same.
LEMMA LinesFind ==
  ASSUME TypeOK, Asked, Given, Overtaking, Lines, OneLivePerFamily,
         NEW q \in Requests, FindToken(q)
  PROVE  (Lines /\ OneLivePerFamily)'
<1>1. /\ pc[q] = "find" /\ \E s : pc' = [pc EXCEPT ![q] = s]
      /\ UNCHANGED <<holder, revoked, family, tok, fresh, overtaken>>
      /\ pc'[q] = "done" \/ pc'[q] = "reuse" \/ (pc'[q] = "device" /\ tok[q] \in Live)
  BY DEF FindToken, Answers, TypeOK
<1>2. Orphans' = Orphans
  BY OrphansKept
<1>3. Live' = Live /\ Contested' = Contested
  BY <1>1 DEF Live, Issued, Contested
<1>4. \A r \in Requests : r # q => pc'[r] = pc[r]
  BY <1>1 DEF TypeOK
<1>5. CASE pc'[q] # "device"
  BY <1>1, <1>2, <1>3, <1>4, <1>5, LinesKept DEF PastFind
<1>6. CASE pc'[q] = "device"
  <2>1. tok[q] \in Live /\ tok[q] # None
    BY <1>1, <1>6, ConstantsAssumption DEF Live, Issued
  <2>2. \A r \in Requests : pc[r] = "link" => tok[q] # fresh[r] /\ tok[q] \notin Orphans
    BY <1>1, <2>1, PresentedIsGiven DEF Refreshing
  <2>3. tok[q] \notin Orphans
    BY <1>1, <2>1, NotOrphan DEF Given, Refreshing
  <2>4. ASSUME NEW u \in Live \ Orphans, family[u] = family[tok[q]],
               family[u] \notin Contested, u # tok[q]
        PROVE  InLine(q, u)
    <3>1. PICK r \in Requests : pc[r] = "link" /\ family[tok[r]] = family[u]
      BY <2>1, <2>3, <2>4 DEF OneLivePerFamily
    <3>2. InLine(r, u) /\ InLine(r, tok[q])
      BY <2>1, <2>3, <2>4, <3>1 DEF Lines, PastFind
    <3>3. tok[q] = tok[r]
      BY <2>2, <3>2 DEF InLine
    <3>4. QED
      BY <3>2, <3>3, <2>4 DEF InLine
  <2>5. \A r \in Requests : pc'[r] = "link" <=> pc[r] = "link"
    BY <1>1, <1>4, <1>6
  <2>6. \A r, u : InLine(r, u) => InLine(r, u)'
    BY <1>1, <2>5 DEF InLine
  <2>7. Lines'
    <3>1. \A r \in Requests : pc'[r] \in PastFind /\ r # q => pc[r] \in PastFind
      BY <1>4
    <3>2. InLine(q, tok[q])
      BY DEF InLine
    <3>3. QED
      BY <1>1, <1>2, <1>3, <2>4, <2>6, <3>1, <3>2 DEF Lines
  <2>8. OneLivePerFamily'
    BY <1>1, <1>2, <1>3, <2>5 DEF OneLivePerFamily
  <2>9. QED
    BY <2>7, <2>8
<1>7. QED
  BY <1>5, <1>6

\* The successor joins the line of the token it replaces, or founds a family.
LEMMA LinesIssue ==
  ASSUME TypeOK, Asked, Given, Overtaking, Families, Lines, OneLivePerFamily,
         NEW q \in Requests, NEW t \in Tokens, LoginIssues(q, t) \/ RefreshIssues(q, t)
  PROVE  (Lines /\ OneLivePerFamily)'
<1>1. /\ Issued' = Issued \union {t} /\ t \notin Issued /\ Live' \subseteq Live \union {t}
      /\ fresh[q] = None /\ fresh'[q] = t
      /\ \A r \in Requests : r # q => fresh'[r] = fresh[r] /\ pc'[r] = pc[r]
      /\ \A u \in Tokens : u # t => family'[u] = family[u]
      /\ UNCHANGED <<revoked, tok, overtaken>>
      /\ \/ family'[t] = q /\ (pc[q] = "issue" => q \in overtaken)
         \/ /\ pc[q] = "issue" /\ q \notin overtaken /\ tok[q] \in Live
            /\ family'[t] = family[tok[q]]
  BY IssueStep
<1>2. Issued \subseteq Tokens /\ None \notin Tokens /\ Live \subseteq Issued
  BY ConstantsAssumption DEF Issued, Live
<1>3. Orphans' = Orphans
  BY OrphansKept
<1>4. \/ pc[q] = "issue" /\ pc'[q] = "link"
      \/ pc[q] = "loginIssue" /\ pc'[q] = "done"
  <2>1. CASE LoginIssues(q, t)
    BY <2>1 DEF LoginIssues, Answers, TypeOK
  <2>2. CASE RefreshIssues(q, t)
    BY <2>2, Order DEF RefreshIssues, Passes, TypeOK
  <2>3. QED
    BY <2>1, <2>2
<1>5. \A r \in overtaken : tok[r] # None => tok[r] \in Issued
  BY DEF Overtaking
<1>6. Contested \subseteq Contested'
  BY <1>1, <1>2, <1>5, StillContested
<1>7. \A r \in Requests : pc[r] = "link" => pc'[r] = "link" /\ fresh'[r] = fresh[r] /\ r # q
  BY <1>1, <1>4
<1>8. \A r \in Requests : \A u : InLine(r, u) => InLine(r, u)'
  BY <1>1, <1>7 DEF InLine
<1>9. \A s \in Requests : pc'[s] \in PastFind => pc[s] \in PastFind /\ tok[s] \in Issued /\ tok[s] # t
                                               /\ family'[tok[s]] = family[tok[s]]
  BY <1>1, <1>2, <1>4 DEF PastFind, Asked, Refreshing
\* Of the old tokens nothing changes.
<1>10. ASSUME NEW s \in Requests, pc'[s] \in PastFind, family'[tok[s]] \notin Contested',
              NEW u \in Live' \ Orphans', u # t, family'[u] = family'[tok[s]]
       PROVE  InLine(s, u)'
  <2>1. u \in Live \ Orphans /\ family[u] = family[tok[s]] /\ family[tok[s]] \notin Contested
    BY <1>1, <1>2, <1>3, <1>6, <1>9, <1>10
  <2>2. InLine(s, u)
    BY <1>9, <1>10, <2>1 DEF Lines
  <2>3. QED
    BY <1>8, <2>2
<1>11. ASSUME NEW u \in Live' \ Orphans', NEW v \in Live' \ Orphans', u # t, v # t, u # v,
              family'[u] = family'[v], family'[u] \notin Contested'
       PROVE  \E r \in Requests : pc'[r] = "link" /\ family'[tok[r]] = family'[u]
  <2>1. /\ u \in Live \ Orphans /\ v \in Live \ Orphans
        /\ family[u] = family[v] /\ family[u] = family'[u] /\ family[u] \notin Contested
    BY <1>1, <1>2, <1>3, <1>6, <1>11
  <2>2. PICK r \in Requests : pc[r] = "link" /\ family[tok[r]] = family[u]
    BY <1>11, <2>1 DEF OneLivePerFamily
  <2>3. pc'[r] = "link" /\ family'[tok[r]] = family'[u]
    BY <1>7, <1>9, <2>1, <2>2 DEF PastFind
  <2>4. QED
    BY <2>3
<1>12. CASE family'[t] = q /\ (pc[q] = "issue" => q \in overtaken)
  <2>1. \A u \in Issued : family'[u] # q
    BY <1>1, <1>2 DEF Families
  <2>2. Lines'
    BY <1>1, <1>9, <1>10, <1>12, <2>1 DEF Lines
  <2>3. \A u \in Live' : u # t => u \in Issued
    BY <1>1, <1>2
  <2>4. OneLivePerFamily'
    BY <1>1, <1>11, <1>12, <2>1, <2>3 DEF OneLivePerFamily
  <2>5. QED
    BY <2>2, <2>4
<1>13. CASE /\ pc[q] = "issue" /\ q \notin overtaken /\ tok[q] \in Live
            /\ family'[t] = family[tok[q]]
  <2>1. pc'[q] = "link" /\ family'[tok[q]] = family'[t]
    BY <1>4, <1>9, <1>13 DEF PastFind
  <2>2. ASSUME NEW s \in Requests, pc'[s] \in PastFind, family'[tok[s]] \notin Contested',
               family'[t] = family'[tok[s]]
        PROVE  InLine(s, t)'
    <3>1. pc[s] \in PastFind /\ tok[s] \in Issued /\ family[tok[s]] = family[tok[q]]
      BY <1>9, <1>13, <2>2
    <3>2. family[tok[s]] \notin Contested
      BY <1>6, <1>9, <2>2
    <3>3. s \notin overtaken /\ tok[s] # None
      BY <1>2, <3>1, <3>2 DEF Contested
    <3>4. tok[s] \in Live
      BY <3>1, <3>3 DEF Overtaking, Live
    <3>5. \A r \in Requests : pc[r] = "link" => tok[s] # fresh[r]
      BY <3>1, <3>3, PresentedIsGiven DEF PastFind, Refreshing
    <3>6. tok[s] \notin Orphans
      BY <3>1, <3>3, NotOrphan DEF Given, PastFind, Refreshing
    <3>7. InLine(q, tok[s])
      BY <1>13, <3>1, <3>2, <3>4, <3>6 DEF Lines, PastFind
    <3>8. tok[s] = tok[q]
      BY <3>5, <3>7 DEF InLine
    <3>9. QED
      BY <1>1, <2>1, <3>8 DEF InLine
  <2>3. Lines'
    BY <1>1, <1>10, <2>2 DEF Lines
  <2>4. OneLivePerFamily'
    BY <1>1, <1>11, <2>1 DEF OneLivePerFamily
  <2>5. QED
    BY <2>3, <2>4
<1>14. QED
  BY <1>1, <1>12, <1>13

\* A request leaves its link, with its token revoked or its successor an orphan: one
\* of the two that were live is out, and the other requests of the line know it.
LEMMA LinesLeft ==
  ASSUME TypeOK, Asked, Given, Overtaking, Lines, OneLivePerFamily,
         NEW q \in Requests, pc[q] = "link",
         pc' = [pc EXCEPT ![q] = "done"], UNCHANGED <<family, tok, fresh>>,
         Live' \subseteq Live, Orphans \subseteq Orphans', overtaken \subseteq overtaken',
         \/ fresh[q] \in Orphans'
         \/ /\ tok[q] \notin Live'
            /\ \A r \in Requests \ {q} : pc[r] \in PastFind /\ tok[r] = tok[q] => r \in overtaken'
  PROVE  (Lines /\ OneLivePerFamily)'
<1>1. \A r \in Requests : r # q => pc'[r] = pc[r]
  BY DEF TypeOK
<1>2. pc'[q] = "done"
  BY DEF TypeOK
<1>3. Contested \subseteq Contested'
  BY StillContested
<1>4. \A r \in Requests : pc[r] \in PastFind => tok[r] # None
  BY ConstantsAssumption DEF Asked, Refreshing, PastFind, Issued
<1>5. Lines'
  <2> SUFFICES ASSUME NEW s \in Requests, pc'[s] \in PastFind, family[tok[s]] \notin Contested',
                      NEW u \in Live' \ Orphans', family[u] = family[tok[s]]
               PROVE  InLine(s, u)'
    BY DEF Lines
  <2>1. s # q /\ pc[s] \in PastFind /\ InLine(s, u)
    BY <1>1, <1>2, <1>3 DEF Lines, PastFind
  <2>2. CASE u = tok[s]
    BY <2>2 DEF InLine
  <2>3. CASE u # tok[s]
    <3>1. PICK r \in Requests : pc[r] = "link" /\ tok[r] = tok[s] /\ fresh[r] = u
      BY <2>1, <2>3 DEF InLine
    <3>2. r # q
      <4>1. CASE fresh[q] \in Orphans'
        BY <3>1, <4>1
      <4>2. CASE \A p \in Requests \ {q} :
                   pc[p] \in PastFind /\ tok[p] = tok[q] => p \in overtaken'
        <5>1. s \notin overtaken'
          BY <1>4, <2>1 DEF Contested
        <5>2. QED
          BY <2>1, <3>1, <4>2, <5>1
      <4>3. QED
        BY <4>1, <4>2
    <3>3. QED
      BY <1>1, <3>1, <3>2 DEF InLine
  <2>4. QED
    BY <2>2, <2>3
<1>6. OneLivePerFamily'
  <2> SUFFICES ASSUME NEW t \in Live' \ Orphans', NEW u \in Live' \ Orphans',
                      family[t] = family[u], family[t] \notin Contested',
                      \A r \in Requests : pc'[r] = "link" => family[tok[r]] # family[t]
               PROVE  t = u
    BY DEF OneLivePerFamily
  <2>1. CASE family[tok[q]] # family[t]
    BY <1>1, <1>3, <2>1 DEF OneLivePerFamily
  <2>2. CASE family[tok[q]] = family[t]
    <3>1. InLine(q, t) /\ InLine(q, u)
      BY <1>3, <2>2 DEF Lines, PastFind
    <3>2. \A r \in Requests : pc[r] = "link" /\ tok[r] = tok[q] => r = q
      BY <1>1, <2>2
    <3>3. t \in {tok[q], fresh[q]} /\ u \in {tok[q], fresh[q]}
      BY <3>1, <3>2 DEF InLine
    <3>4. QED
      BY <3>3
  <2>3. QED
    BY <2>1, <2>2
<1>7. QED
  BY <1>5, <1>6

LEMMA LinesStep ==
  TypeOK /\ Asked /\ Given /\ Overtaking /\ Families /\ Lines /\ OneLivePerFamily /\ [Next]_vars
    => (Lines /\ OneLivePerFamily)'
<1> SUFFICES ASSUME TypeOK, Asked, Given, Overtaking, Families, Lines, OneLivePerFamily,
                    [Next]_vars
             PROVE  (Lines /\ OneLivePerFamily)'
  OBVIOUS
<1>1. ASSUME NEW q \in Requests, NEW stmt \in {"find", "login", "logout", "lookup"},
             NEW t, NEW d, Asks(q, stmt, t, d)
      PROVE  (Lines /\ OneLivePerFamily)'
  <2>1. /\ pc[q] = "idle" /\ pc' = [pc EXCEPT ![q] = stmt] /\ tok' = [tok EXCEPT ![q] = t]
        /\ UNCHANGED <<holder, revoked, family, fresh, result, overtaken>>
    BY <1>1 DEF Asks
  <2>2. \A r \in Requests : r # q => pc'[r] = pc[r] /\ tok'[r] = tok[r]
    BY <2>1 DEF TypeOK
  <2>3. pc'[q] = stmt /\ q \notin overtaken /\ overtaken \subseteq Requests
    BY <2>1 DEF TypeOK, Overtaking
  <2>4. Live' = Live /\ Orphans' = Orphans
    BY <2>1 DEF Live, Issued, Orphans
  <2>5. Contested \subseteq Contested'
    BY <2>1, <2>2, <2>3, StillContested
  <2>6. QED
    BY <1>1, <2>1, <2>2, <2>3, <2>4, <2>5, LinesKept DEF PastFind
\* A step of one request that does not link, issue or find.
<1>2. ASSUME NEW q \in Requests, pc[q] # "link",
             \E s : pc' = [pc EXCEPT ![q] = s] /\ s \notin {"device", "link"}
                    /\ (s = "issue" => pc[q] = "device"),
             UNCHANGED <<holder, family, tok, fresh>>, revoked \subseteq revoked',
             Orphans \subseteq Orphans', overtaken \subseteq overtaken'
      PROVE  (Lines /\ OneLivePerFamily)'
  <2>1. \A r \in Requests : r # q => pc'[r] = pc[r]
    BY <1>2 DEF TypeOK
  <2>2. pc'[q] \notin {"device", "link"} /\ (pc'[q] = "issue" => pc[q] = "device")
    BY <1>2 DEF TypeOK
  <2>3. Live' \subseteq Live /\ Contested \subseteq Contested'
    BY <1>2, StillContested DEF Live, Issued
  <2>4. QED
    BY <1>2, <2>1, <2>2, <2>3, LinesKept DEF PastFind
<1>3. ASSUME NEW q \in Requests,
             \/ RevokeAll(q) \/ CheckDevice(q) \/ Logout(q) \/ FindDevice(q) \/ RevokeDevice(q)
             \/ \E d \in Devices : LoginDevice(q, d)
      PROVE  (Lines /\ OneLivePerFamily)'
  <2>1. Orphans' = Orphans
    BY <1>3, OrphansKept
  <2>2. CASE RevokeAll(q) \/ Logout(q) \/ RevokeDevice(q)
    BY <1>2, <2>1, <2>2 DEF RevokeAll, Logout, RevokeDevice, Answers, Overtakes
  <2>3. CASE CheckDevice(q)
    BY <1>2, <2>1, <2>3, Order DEF CheckDevice, Answers, Passes
  <2>4. CASE FindDevice(q)
    BY <1>2, <2>1, <2>4 DEF FindDevice, Answers
  <2>5. CASE \E d \in Devices : LoginDevice(q, d)
    BY <1>2, <2>1, <2>5 DEF LoginDevice
  <2>6. QED
    BY <1>3, <2>2, <2>3, <2>4, <2>5
<1>4. ASSUME NEW q \in Requests, LinkToken(q) PROVE (Lines /\ OneLivePerFamily)'
  <2>1. /\ pc[q] = "link" /\ pc' = [pc EXCEPT ![q] = "done"]
        /\ revoked' = revoked \union {tok[q]}
        /\ UNCHANGED <<device, holder, family, tok, fresh>> /\ Overtakes(q)
    BY <1>4, Order DEF LinkToken, RevokedByLink, Passes
  <2>2. /\ Live' \subseteq Live /\ tok[q] \notin Live' /\ overtaken \subseteq overtaken'
        /\ \A r \in Requests \ {q} : pc[r] \in PastFind /\ tok[r] = tok[q] => r \in overtaken'
    BY <2>1 DEF Live, Issued, Overtakes
  <2>3. Orphans' = Orphans
    BY <1>4, OrphansKept
  <2>4. QED
    BY <2>1, <2>2, <2>3, LinesLeft
<1>5. ASSUME NEW q \in Requests, DbFails(q) PROVE (Lines /\ OneLivePerFamily)'
  <2>1. /\ pc' = [pc EXCEPT ![q] = "done"] /\ result' = [result EXCEPT ![q] = "error"]
        /\ UNCHANGED <<holder, revoked, family, tok, fresh, overtaken>>
    BY <1>5 DEF DbFails, Answers
  <2>2. Orphans \subseteq Orphans' /\ fresh[q] \in Orphans'
    BY <2>1 DEF Orphans, TypeOK
  <2>3. Live' = Live
    BY <2>1 DEF Live, Issued
  <2>4. CASE pc[q] = "link"
    BY <2>1, <2>2, <2>3, <2>4, LinesLeft
  <2>5. CASE pc[q] # "link"
    <3>1. \A r \in Requests : r # q => pc'[r] = pc[r]
      BY <2>1 DEF TypeOK
    <3>2. pc'[q] \notin PastFind
      BY <2>1 DEF TypeOK, PastFind
    <3>3. Contested \subseteq Contested'
      BY <2>1, StillContested
    <3>4. QED
      BY <2>1, <2>2, <2>3, <2>5, <3>1, <3>2, <3>3, LinesKept
  <2>6. QED
    BY <2>4, <2>5
<1>6. ASSUME UNCHANGED <<holder, revoked, family, pc, tok, fresh, result, overtaken>>
      PROVE  (Lines /\ OneLivePerFamily)'
  <2>1. Live' = Live /\ Orphans' = Orphans /\ Contested' = Contested
    BY <1>6 DEF Live, Issued, Orphans, Contested
  <2>2. QED
    BY <1>6, <2>1 DEF Lines, OneLivePerFamily, InLine
<1>7. (\E t \in Tokens : Expire(t)) \/ UNCHANGED vars
        => UNCHANGED <<holder, revoked, family, pc, tok, fresh, result, overtaken>>
  BY DEF Expire, vars
<1>8. QED
  BY <1>1, <1>3, <1>4, <1>5, <1>6, <1>7, LinesFind, LinesIssue
     DEF Next, AllAnswered, BeginLogin, BeginRefresh, BeginLogout, BeginRevoke, BeginUnknown

\* However requests overlap and whichever statement fails, rotation leaves one live
\* token of a family once the successor is linked, unless a refresh was overtaken.
THEOREM OneLive == Spec => []OneLivePerFamily
<1>1. Init => Lines /\ OneLivePerFamily
  BY DEF Init, Lines, OneLivePerFamily, PastFind, Live, Issued
<1>2. TypeOK /\ Asked /\ Given /\ Overtaking /\ Families /\ Lines /\ OneLivePerFamily /\ [Next]_vars
        => (Lines /\ OneLivePerFamily)'
  BY LinesStep
<1>3. QED
  BY <1>1, <1>2, AlwaysTyped, AlwaysGiven, AlwaysOvertaking, AlwaysFamilies, PTL DEF Spec
-----------------------------------------------------------------------------
(* One request at a time                                                    *)

\* A request that waits is the only one.
OneAtATime == (\A q, r \in Running : q = r) /\ overtaken = {}

\* If the clients of the user make one request at a time, no refresh and no login is
\* ever overtaken: the exceptions above do not occur.
THEOREM SerialNotOvertaken == Overlap = 1 => (Spec => [](overtaken = {}))
<1> SUFFICES ASSUME Overlap = 1 PROVE Spec => [](overtaken = {})
  OBVIOUS
<1>1. Init => OneAtATime
  BY DEF Init, OneAtATime, Running
<1>2. TypeOK /\ OneAtATime /\ [Next]_vars => OneAtATime'
  <2> SUFFICES ASSUME TypeOK, OneAtATime, [Next]_vars PROVE OneAtATime'
    OBVIOUS
  <2>1. ASSUME NEW q \in Requests, NEW stmt, NEW t, NEW d, Asks(q, stmt, t, d)
        PROVE  OneAtATime'
    <3>1. Running \subseteq Requests /\ Cardinality(Running) < 1
      BY <2>1 DEF Asks, Running
    <3>2. IsFiniteSet(Running) /\ Cardinality(Running) \in Nat
      BY <3>1, ConstantsAssumption, FS_Subset, FS_CardinalityType
    <3>3. Cardinality(Running) = 0
      BY <3>1, <3>2
    <3>4. Running = {}
      BY <3>2, <3>3, FS_EmptySet
    <3>5. QED
      BY <2>1, <3>4 DEF Asks, OneAtATime, Running, TypeOK
  <2>2. ASSUME NEW q \in Running, NEW s, pc' = [pc EXCEPT ![q] = s],
               overtaken' = overtaken \/ Overtakes(q)
        PROVE  OneAtATime'
    <3>1. \A r \in Requests : r # q => pc[r] \in {"idle", "done"} /\ pc'[r] = pc[r]
      BY <2>2 DEF OneAtATime, Running, TypeOK
    <3>2. overtaken' = {}
      BY <2>2, <3>1 DEF OneAtATime, Overtakes, PastFind
    <3>3. QED
      BY <3>1, <3>2 DEF OneAtATime, Running
  <2>3. ASSUME NEW q \in Requests,
               \/ FindToken(q) \/ RevokeAll(q) \/ CheckDevice(q) \/ LinkToken(q) \/ Logout(q)
               \/ FindDevice(q) \/ RevokeDevice(q) \/ DbFails(q)
               \/ \E t \in Tokens : LoginIssues(q, t) \/ RefreshIssues(q, t)
               \/ \E d \in Devices : LoginDevice(q, d)
        PROVE  OneAtATime'
    <3>1. q \in Running
      BY <2>3 DEF FindToken, RevokeAll, CheckDevice, LinkToken, Logout, FindDevice,
                  RevokeDevice, DbFails, LoginIssues, RefreshIssues, LoginDevice, Running, Awaits
    <3>2. overtaken' = overtaken \/ Overtakes(q)
      BY <2>3 DEF FindToken, RevokeAll, CheckDevice, LinkToken, Logout, FindDevice,
                  RevokeDevice, DbFails, LoginIssues, RefreshIssues, LoginDevice
    <3>3. \E s : pc' = [pc EXCEPT ![q] = s]
      BY <2>3 DEF FindToken, RevokeAll, CheckDevice, LinkToken, Logout, FindDevice,
                  RevokeDevice, DbFails, LoginIssues, RefreshIssues, LoginDevice, Answers, Passes
    <3>4. QED
      BY <2>2, <3>1, <3>2, <3>3
  <2>4. ASSUME UNCHANGED <<pc, overtaken>> PROVE OneAtATime'
    BY <2>4 DEF OneAtATime, Running
  <2>5. QED
    BY <2>1, <2>3, <2>4
       DEF Next, BeginLogin, BeginRevoke, BeginRefresh, BeginLogout, BeginUnknown, Expire,
           AllAnswered, vars
<1>3. OneAtATime => overtaken = {}
  BY DEF OneAtATime
<1>4. QED
  BY <1>1, <1>2, <1>3, Typed, PTL DEF Spec
=============================================================================
