---------------------------- MODULE DisplaysProofs ----------------------------
(***************************************************************************)
(* Display numbers for any number of starts, and whose Xvfb serves them,   *)
(* whether Xvfb processes are late, outlive their SIGTERM or die.          *)
(***************************************************************************)
EXTENDS Displays, TLAPS, FiniteSetTheorems, WellFoundedInduction

\* The inductive part of NumbersTracked: whoever holds a number has one.
Tracking == TypeOK /\ NumbersTracked /\ \A s \in Holders : display[s] \in Numbers

LEMMA TrackingStep == Tracking /\ [Next]_vars => Tracking'
<1> SUFFICES ASSUME Tracking, [Next]_vars PROVE Tracking'
  OBVIOUS
<1> USE ConstantsAssumption DEF Tracking, TypeOK, NumbersTracked, Holders
<1>1. ASSUME NEW s \in Starts, StartXvfb(s) PROVE Tracking'
  <2>1. CASE pc' = [pc EXCEPT ![s] = "failed"] /\ UNCHANGED <<usedDisplays, display, proc, socket, haunted>>
    <3>1. Holders' = Holders
      BY <1>1, <2>1 DEF StartXvfb
    <3>2. QED
      BY <2>1, <3>1
  <2>2. CASE \E n \in Allocatable :
               /\ usedDisplays' = usedDisplays \union {n}
               /\ display' = [display EXCEPT ![s] = n]
               /\ pc' = [pc EXCEPT ![s] = "waiting"]
               /\ proc' = [proc EXCEPT ![s] = "booting"]
               /\ haunted' \subseteq Starts
               /\ UNCHANGED socket
    <3>1. PICK n \in Numbers \ usedDisplays :
               /\ usedDisplays' = usedDisplays \union {n}
               /\ display' = [display EXCEPT ![s] = n]
               /\ pc' = [pc EXCEPT ![s] = "waiting"]
               /\ proc' = [proc EXCEPT ![s] = "booting"]
               /\ haunted' \subseteq Starts
               /\ UNCHANGED socket
      BY <2>2 DEF Allocatable, Unused
    <3>2. s \notin Holders /\ Holders' = Holders \union {s}
      BY <1>1, <3>1 DEF StartXvfb
    <3>3. \A r \in Holders : display'[r] = display[r] /\ display[r] # n
      BY <3>1, <3>2
    <3>4. display'[s] = n
      BY <3>1
    <3> HIDE DEF Holders
    <3>5. QED
      BY <3>1, <3>2, <3>3, <3>4
  <2>3. QED
    BY <1>1, <2>1, <2>2 DEF StartXvfb
<1>2. ASSUME NEW s \in Starts, SocketExists(s) PROVE Tracking'
  <2>1. Holders' = Holders
    BY <1>2 DEF SocketExists
  <2>2. QED
    BY <1>2, <2>1 DEF SocketExists
<1>3. ASSUME NEW s \in Starts, StartFails(s) \/ Stop(s) PROVE Tracking'
  <2>1. /\ s \in Holders /\ Holders' = Holders \ {s}
        /\ usedDisplays' = usedDisplays \ {display[s]}
        /\ display' = display
    BY <1>3 DEF StartFails, Stop, Frees
  <2>2. TypeOK'
    BY <1>3 DEF StartFails, Stop, Frees, Terminated
  <2> HIDE DEF Holders, TypeOK
  <2>3. QED
    BY <2>1, <2>2
<1>4. ASSUME NEW s \in Starts, Boots(s) \/ Ends(s) \/ Dies(s) PROVE Tracking'
  <2>1. UNCHANGED <<usedDisplays, display, pc, haunted>>
    BY <1>4 DEF Boots, Ends, Dies
  <2>2. socket' \in [Numbers -> Starts \union {None}]
    <3>1. CASE Boots(s)
      BY <3>1 DEF Boots
    <3>2. CASE Ends(s) \/ Dies(s)
      BY <3>2 DEF Ends, Dies, Terminated
    <3>3. QED
      BY <1>4, <3>1, <3>2
  <2>3. proc' \in [Starts -> {"none", "booting", "serving", "terminating", "dead"}]
    BY <1>4 DEF Boots, Ends, Dies
  <2>4. QED
    BY <2>1, <2>2, <2>3
<1>5. ASSUME UNCHANGED vars PROVE Tracking'
  BY <1>5 DEF vars
<1> HIDE DEF Tracking
<1>6. QED
  BY <1>1, <1>2, <1>3, <1>4, <1>5 DEF Next, Settled

LEMMA AlwaysTracking == Spec => []Tracking
<1>1. Init => Tracking
  BY ConstantsAssumption DEF Init, Tracking, TypeOK, NumbersTracked, Holders
<1>2. QED
  BY <1>1, TrackingStep, PTL DEF Spec

\* Every number in use is that of one start that waits or is ready, and the
\* variables keep their types, whatever the Xvfb processes do.
THEOREM Tracked == Spec => [](TypeOK /\ NumbersTracked)
<1>1. Tracking => TypeOK /\ NumbersTracked
  BY DEF Tracking
<1>2. QED
  BY <1>1, AlwaysTracking, PTL

\* The variables keep their types.
THEOREM Typed == Spec => []TypeOK
BY Tracked, PTL
-----------------------------------------------------------------------------
(* Whose socket a ready start found                                         *)

\* A socket stands on the number its Xvfb was given, and on the number of a start that
\* was given a clean one nobody else has a socket or a live Xvfb: whoever had the
\* number before is gone from it, and nobody gets it before that start gives it back.
Sockets ==
  /\ \A s \in Starts : pc[s] = "idle" => display[s] = None /\ proc[s] = "none"
  /\ \A s \in Starts : proc[s] # "none" => display[s] \in Numbers
  /\ \A n \in Numbers : socket[n] # None => display[socket[n]] = n
  /\ \A s \in Starts : proc[s] = "terminating" => pc[s] = "stopped"
  /\ \A s \in Holders : proc[s] # "none"

Alone(s) ==
  /\ socket[display[s]] \in {s, None}
  /\ \A r \in Starts \ {s} :
       display[r] = display[s] => proc[r] \notin {"booting", "serving", "terminating"}
  /\ pc[s] = "ready" => socket[display[s]] = s
  /\ proc[s] = "booting" => socket[display[s]] = None

Clean == Holders \ haunted

IInv == Tracking /\ Sockets /\ \A s \in Clean : Alone(s)

LEMMA SocketsStep == Tracking /\ Sockets /\ [Next]_vars => Sockets'
<1> SUFFICES ASSUME Tracking, Sockets, [Next]_vars PROVE Sockets'
  OBVIOUS
<1> USE ConstantsAssumption DEF Tracking, TypeOK, Holders, Sockets
<1>1. ASSUME NEW s \in Starts, StartXvfb(s) PROVE Sockets'
  <2>1. CASE pc' = [pc EXCEPT ![s] = "failed"] /\ UNCHANGED <<display, proc, socket>>
    BY <1>1, <2>1 DEF StartXvfb
  <2>2. CASE \E n \in Numbers : /\ display' = [display EXCEPT ![s] = n]
                                /\ pc' = [pc EXCEPT ![s] = "waiting"]
                                /\ proc' = [proc EXCEPT ![s] = "booting"]
                                /\ UNCHANGED socket
    BY <1>1, <2>2 DEF StartXvfb
  <2>3. QED
    BY <1>1, <2>1, <2>2 DEF StartXvfb, Allocatable, Unused
<1>2. ASSUME NEW s \in Starts, SocketExists(s) \/ StartFails(s) PROVE Sockets'
  BY <1>2 DEF SocketExists, StartFails
<1>3. ASSUME NEW s \in Starts, Stop(s) PROVE Sockets'
  BY <1>3 DEF Stop, Terminated
<1>4. ASSUME NEW s \in Starts, Boots(s) PROVE Sockets'
  BY <1>4 DEF Boots
<1>5. ASSUME NEW s \in Starts, Ends(s) \/ Dies(s) PROVE Sockets'
  BY <1>5 DEF Ends, Terminated, Dies
<1>6. ASSUME UNCHANGED vars PROVE Sockets'
  BY <1>6 DEF vars
<1> HIDE DEF Tracking, Sockets
<1>7. QED
  BY <1>1, <1>2, <1>3, <1>4, <1>5, <1>6 DEF Next, Settled

\* Nobody comes to the number of a start that was given a clean one and holds it.
LEMMA AloneStep ==
  ASSUME IInv, [Next]_vars, NEW s \in Clean' PROVE Alone(s)'
<1> USE ConstantsAssumption DEF IInv, Tracking, TypeOK, NumbersTracked, Holders, Sockets, Clean, Alone
<1>1. ASSUME NEW q \in Starts, StartXvfb(q) PROVE Alone(s)'
  <2>1. CASE pc' = [pc EXCEPT ![q] = "failed"] /\ UNCHANGED <<display, proc, socket, haunted>>
    BY <1>1, <2>1
  <2>2. CASE \E n \in Allocatable :
               /\ display' = [display EXCEPT ![q] = n]
               /\ pc' = [pc EXCEPT ![q] = "waiting"]
               /\ proc' = [proc EXCEPT ![q] = "booting"]
               /\ haunted' = IF Remains(n) THEN haunted \union {q} ELSE haunted
               /\ UNCHANGED socket
    <3>1. PICK n \in Numbers \ usedDisplays :
               /\ display' = [display EXCEPT ![q] = n]
               /\ pc' = [pc EXCEPT ![q] = "waiting"]
               /\ proc' = [proc EXCEPT ![q] = "booting"]
               /\ haunted' = IF Remains(n) THEN haunted \union {q} ELSE haunted
               /\ UNCHANGED socket
      BY <2>2 DEF Allocatable, Unused
    <3>2. CASE s = q
      BY <1>1, <3>1, <3>2 DEF Remains
    <3>3. CASE s # q
      <4>1. s \in Clean /\ display'[s] = display[s] /\ display[s] # n
        BY <3>1, <3>3
      <4>2. QED
        BY <3>1, <3>3, <4>1
    <3>4. QED
      BY <3>2, <3>3
  <2>3. QED
    BY <1>1, <2>1, <2>2 DEF StartXvfb
<1>2. ASSUME NEW q \in Starts, SocketExists(q) PROVE Alone(s)'
  BY <1>2 DEF SocketExists, Readiness
<1>3. ASSUME NEW q \in Starts, StartFails(q) PROVE Alone(s)'
  BY <1>3 DEF StartFails
<1>4. ASSUME NEW q \in Starts, Stop(q) PROVE Alone(s)'
  BY <1>4 DEF Stop, Terminated
<1>5. ASSUME NEW q \in Starts, Boots(q) PROVE Alone(s)'
  BY <1>5 DEF Boots
<1>6. ASSUME NEW q \in Starts, Ends(q) PROVE Alone(s)'
  BY <1>6 DEF Ends, Terminated
<1>7. ASSUME NEW q \in Starts, Dies(q) PROVE Alone(s)'
  BY <1>7 DEF Dies
<1>8. ASSUME UNCHANGED vars PROVE Alone(s)'
  BY <1>8 DEF vars
<1>9. QED
  BY <1>1, <1>2, <1>3, <1>4, <1>5, <1>6, <1>7, <1>8 DEF Next, Settled

\* Whatever is late, outlives its SIGTERM or dies: a ready start has its own Xvfb on
\* its display unless something of an earlier start was on it when it was given out.
THEOREM OwnDisplay == Spec => []OwnUnlessHaunted
<1>1. Init => IInv
  BY ConstantsAssumption
  DEF Init, IInv, Tracking, TypeOK, NumbersTracked, Holders, Sockets, Clean
<1>2. IInv => OwnUnlessHaunted
  <2> SUFFICES ASSUME IInv, NEW s \in Starts, pc[s] = "ready", s \notin haunted
               PROVE  socket[display[s]] = s /\ proc[s] \in {"serving", "dead"}
    BY DEF OwnUnlessHaunted
  <2>1. s \in Holders /\ Alone(s)
    BY DEF IInv, Clean, Holders
  <2>2. socket[display[s]] = s /\ s # None
    BY <2>1, ConstantsAssumption DEF Alone
  <2>3. proc[s] \notin {"none", "booting", "terminating"}
    BY <2>1, <2>2 DEF IInv, Sockets, Alone
  <2>4. proc[s] \in {"none", "booting", "serving", "terminating", "dead"}
    BY DEF IInv, Tracking, TypeOK
  <2>5. QED
    BY <2>2, <2>3, <2>4
<1>3. IInv /\ [Next]_vars => IInv'
  BY TrackingStep, SocketsStep, AloneStep DEF IInv
<1>4. QED
  BY <1>1, <1>2, <1>3, PTL DEF Spec
-----------------------------------------------------------------------------
(* Refusals                                                                 *)

\* The loop of startXvfb stops at a number as long as there is an unused one: numbers
\* are ordered as the intervals below them are by inclusion.
LEMMA Least == ASSUME NEW S \in SUBSET Nat, S # {} PROVE \E n \in S : \A m \in S : n <= m
<1> DEFINE below == {0..n : n \in S}
<1>1. \A n \in S : 0..n \in FiniteSubsetsOf(Nat)
  BY FS_Interval DEF FiniteSubsetsOf
<1>2. below \subseteq FiniteSubsetsOf(Nat) /\ below # {}
  BY <1>1
<1>3. PICK x \in below : \A y \in below : <<y, x>> \notin StrictSubsetOrdering(Nat)
  <2> HIDE DEF below
  <2> QED
    BY <1>2, FS_StrictSubsetOrderingWellFounded, WFMin
<1>4. PICK n \in S : x = 0..n
  BY <1>3
<1>5. ASSUME NEW m \in S, m < n PROVE FALSE
  <2>1. 0..m \subseteq 0..n /\ 0..m # 0..n
    BY <1>5
  <2>2. <<0..m, x>> \in StrictSubsetOrdering(Nat)
    BY <2>1, <1>4 DEF StrictSubsetOrdering
  <2>3. QED
    BY <2>2, <1>3
<1>6. QED
  BY <1>5

\* Distinct numbers for the holders and none unused: there are as many as numbers.
LEMMA FullCount ==
  ASSUME Tracking, Unused = {} PROVE Cardinality(Holders) = Count
<1> DEFINE f == [s \in Holders |-> display[s]]
<1>1. usedDisplays = Numbers /\ Numbers = {display[s] : s \in Holders}
  BY DEF Tracking, TypeOK, NumbersTracked, Unused
<1>2. f \in Injection(Holders, Numbers)
  BY <1>1 DEF Tracking, NumbersTracked, Injection, IsInjective
<1>3. f \in Surjection(Holders, Numbers)
  BY <1>1 DEF Surjection
<1>4. IsFiniteSet(Numbers) /\ Cardinality(Numbers) = Count
  BY ConstantsAssumption, FS_Interval DEF Numbers
<1>5. Cardinality(Holders) = Cardinality(Numbers)
  BY <1>2, <1>3, <1>4, FS_Injection
<1>6. QED
  BY <1>4, <1>5

\* startXvfb throws for want of a number only when every number there is belongs to
\* a start that waits or is ready, whatever the Xvfb processes do.
THEOREM RefusesWhenFull == Spec => RefusedOnlyWhenFull
<1>1. ASSUME Tracking, Next, NEW s \in Starts, pc[s] = "idle", pc'[s] = "failed"
      PROVE  Cardinality(Holders) = Count
  <2>1. StartXvfb(s)
    BY <1>1 DEF Next, StartXvfb, SocketExists, StartFails, Stop, Boots, Ends, Dies, Settled,
                vars, Tracking, TypeOK
  <2>2. Allocatable = {}
    BY <1>1, <2>1 DEF StartXvfb, Tracking, TypeOK
  <2>3. Unused \in SUBSET Nat
    BY ConstantsAssumption DEF Unused, Numbers
  <2>4. Unused = {}
    BY <2>2, <2>3, Least DEF Allocatable
  <2>5. QED
    BY <1>1, <2>4, FullCount
<1>2. Tracking /\ [Next]_vars
      => [\A s \in Starts :
            pc[s] = "idle" /\ pc'[s] = "failed" => Cardinality(Holders) = Count]_vars
  BY <1>1
<1>3. QED
  BY <1>2, AlwaysTracking, PTL DEF Spec, RefusedOnlyWhenFull
=============================================================================
