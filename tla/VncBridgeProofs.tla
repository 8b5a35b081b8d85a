---------------------------- MODULE VncBridgeProofs ----------------------------
(***************************************************************************)
(* Whose screen a ready session shows, for any number of starts and ports: *)
(* its own where its ports were given to nobody else, whatever else fails, *)
(* and always when no port is handed out twice and no program dies.        *)
(***************************************************************************)
EXTENDS VncBridge, TLAPS

\* No port is handed out twice before it is bound, and no program dies by itself.
NoSurprises == {"collide", "dies"} \intersect Faults = {}

Alive == {c \in Children : proc[c] \in {"booting", "listening"}}

\* Live programs have a port each and only they listen; a start gets past a
\* program only while that program listens.
Bridges ==
  /\ \A c \in Children : proc[c] = "listening" => listener[port[c]] = c
  /\ \A p \in Ports : listener[p] # <<>> => /\ listener[p] \in Children
                                            /\ proc[listener[p]] = "listening"
                                            /\ port[listener[p]] = p
  /\ \A b, c \in Alive : port[b] = port[c] => b = c
  /\ \A s \in Starts :
       /\ pc[s] = "x11vnc" => <<s, "x11vnc">> \in Alive
       /\ pc[s] = "websockify" => proc[<<s, "x11vnc">>] = "listening" /\ <<s, "websockify">> \in Alive
       /\ pc[s] = "ready" => \A k \in Programs : proc[<<s, k>>] = "listening"
       /\ pc[s] = "idle" => \A k \in Programs : proc[<<s, k>>] = "none"
       /\ pc[s] = "x11vnc" => proc[<<s, "websockify">>] = "none"

IInv == TypeOK /\ Bridges

LEMMA PairsAreChildren ==
  /\ \A s \in Starts, k \in Programs : <<s, k>> \in Children
  /\ \A r, s \in Starts, j, k \in Programs : <<r, j>> = <<s, k>> => r = s /\ j = k
  /\ \A c \in Children : \E s \in Starts, k \in Programs : c = <<s, k>>
  /\ <<>> \notin Children
  /\ Programs = {"x11vnc", "websockify"}
BY DEF Children, Programs

\* Spawning a program on a free port that is promised to nobody.
LEMMA SpawnStep ==
  ASSUME NoSurprises, IInv, NEW c \in Children, proc[c] = "none", Spawn(c), listener' = listener
  PROVE  /\ port' \in [Children -> Ports \union {None}]
         /\ proc' = [proc EXCEPT ![c] = "booting"]
         /\ \A b \in Children : proc'[b] # "none" => port'[b] \in Ports
         /\ \A b \in Children : proc'[b] = "listening" => listener'[port'[b]] = b
         /\ \A p \in Ports : listener'[p] # <<>> => /\ proc'[listener'[p]] = "listening"
                                                    /\ port'[listener'[p]] = p
         /\ \A a, b \in Alive' : port'[a] = port'[b] => a = b
<1> USE ConstantsAssumption DEF IInv, TypeOK, Bridges
<1>1. PICK p \in Free \ Promised : /\ port' = [port EXCEPT ![c] = p]
                                   /\ proc' = [proc EXCEPT ![c] = "booting"]
  BY DEF Spawn, FreePorts, NoSurprises
<1>2. p \in Ports /\ listener[p] = <<>> /\ \A b \in Children : proc[b] = "booting" => port[b] # p
  BY <1>1 DEF Free, Promised
<1>3. \A b \in Alive : port[b] # p /\ b # c
  BY <1>2, PairsAreChildren DEF Alive
<1>4. \A b \in Children : b # c => port'[b] = port[b] /\ proc'[b] = proc[b]
  BY <1>1
<1>5. port'[c] = p /\ proc'[c] = "booting"
  BY <1>1
<1>6. Alive' = Alive \union {c}
  BY <1>4, <1>5 DEF Alive
<1>7. \A a, b \in Alive' : port'[a] = port'[b] => a = b
  BY <1>3, <1>4, <1>5, <1>6 DEF Alive
<1>8. \A q \in Ports : listener[q] # <<>> => listener[q] # c
  OBVIOUS
<1>9. QED
  BY <1>1, <1>2, <1>4, <1>5, <1>7, <1>8

\* Programs that are gone listen no more; nothing else changes.
LEMMA GoneStep ==
  ASSUME IInv, NEW c0 \in Children, Gone(c0)
  PROVE  /\ proc' \in [Children -> {"none", "booting", "listening", "dead"}]
         /\ listener' \in [Ports -> Children \union {<<>>}]
         /\ \A c \in Children : proc'[c] # "none" => port'[c] \in Ports
         /\ UNCHANGED <<pc, port>>
         /\ \A c \in Children : proc'[c] = IF c = c0 THEN "dead" ELSE proc[c]
         /\ \A c \in Children : proc'[c] = "listening" => listener'[port'[c]] = c
         /\ \A p \in Ports : listener'[p] # <<>> => /\ listener'[p] \in Children
                                                    /\ proc'[listener'[p]] = "listening"
                                                    /\ port'[listener'[p]] = p
         /\ \A a, b \in Alive' : port'[a] = port'[b] => a = b
BY PairsAreChildren DEF IInv, TypeOK, Bridges, Gone, Alive

LEMMA BridgesStep == NoSurprises /\ IInv /\ [Next]_vars => IInv'
<1> SUFFICES ASSUME NoSurprises, IInv, [Next]_vars PROVE IInv'
  OBVIOUS
<1> USE ConstantsAssumption, PairsAreChildren DEF IInv, TypeOK, Bridges
<1>1. ASSUME NEW s \in Starts, StartX11vnc(s) PROVE IInv'
  <2>1. proc[<<s, "x11vnc">>] = "none" /\ proc[<<s, "websockify">>] = "none"
    BY <1>1 DEF StartX11vnc
  <2>2. /\ pc' = [pc EXCEPT ![s] = "x11vnc"] /\ Spawn(<<s, "x11vnc">>) /\ listener' = listener
    BY <1>1 DEF StartX11vnc
  <2>3. <<s, "x11vnc">> \in Children
    OBVIOUS
  <2> HIDE DEF IInv
  <2>4. QED
    BY <2>1, <2>2, <2>3, SpawnStep DEF IInv, Alive
<1>2. ASSUME NEW s \in Starts, X11vncReady(s) PROVE IInv'
  <2>1. proc[<<s, "websockify">>] = "none" /\ <<s, "x11vnc">> \in Alive
    BY <1>2 DEF X11vncReady
  <2>2. /\ pc[s] = "x11vnc" /\ pc' = [pc EXCEPT ![s] = "websockify"]
        /\ Spawn(<<s, "websockify">>) /\ listener' = listener
        /\ listener[port[<<s, "x11vnc">>]] # <<>>
    BY <1>2 DEF X11vncReady, Accepting
  <2>3. <<s, "websockify">> \in Children /\ <<s, "x11vnc">> \in Children
    OBVIOUS
  <2>4. proc[<<s, "x11vnc">>] = "listening"
    BY <2>1, <2>2, <2>3 DEF Alive
  <2> HIDE DEF IInv
  <2>5. QED
    BY <2>1, <2>2, <2>3, <2>4, SpawnStep DEF IInv, Alive
<1>3. ASSUME NEW s \in Starts, WebsockifyReady(s) PROVE IInv'
  <2>1. proc[<<s, "x11vnc">>] = "listening" /\ <<s, "websockify">> \in Alive
    BY <1>3 DEF WebsockifyReady
  <2>2. proc[<<s, "websockify">>] = "listening"
    BY <1>3, <2>1 DEF WebsockifyReady, Accepting, Alive
  <2>3. Alive' = Alive /\ pc' = [pc EXCEPT ![s] = "ready"] /\ UNCHANGED <<port, proc, listener>>
    BY <1>3 DEF WebsockifyReady, Alive
  <2>4. QED
    BY <2>1, <2>2, <2>3
<1>4. ASSUME NEW s \in Starts, Fails(s) \/ Stop(s) PROVE IInv'
  <2>1. /\ \E end \in {"failed", "stopped"} : pc' = [pc EXCEPT ![s] = end]
        /\ UNCHANGED <<port, proc, listener, Alive>>
    BY <1>4 DEF Fails, Stop, Alive
  <2>2. QED
    BY <2>1
<1>5. ASSUME NEW s \in Starts, NEW k \in Programs, Ends(s, k) PROVE IInv'
  <2>1. pc[s] \in {"failed", "stopped"} /\ <<s, k>> \in Children /\ Gone(<<s, k>>)
    BY <1>5 DEF Ends
  <2>2. \A r \in Starts, j \in Programs :
          pc[r] \notin {"failed", "stopped"} => proc'[<<r, j>>] = proc[<<r, j>>]
    <3>1. \A c \in Children \ {<<s, k>>} : proc'[c] = proc[c]
      BY <2>1, GoneStep
    <3>2. \A r \in Starts, j \in Programs :
            pc[r] \notin {"failed", "stopped"} => <<r, j>> \in Children \ {<<s, k>>}
      BY <2>1
    <3>3. QED
      BY <3>1, <3>2
  <2>3. UNCHANGED pc /\ \A c \in Children : proc'[c] # proc[c] => proc'[c] = "dead"
    BY <2>1, GoneStep
  <2> HIDE DEF IInv
  <2>4. QED
    BY <2>1, <2>2, <2>3, GoneStep DEF IInv, Alive
<1>6. ASSUME NEW c \in Children, Binds(c) PROVE IInv'
  <2>1. c \in Alive /\ proc[c] = "booting" /\ port[c] \in Ports
    BY <1>6 DEF Binds, Alive
  <2>2. listener[port[c]] = <<>>
    BY <2>1 DEF Alive
  <2>3. /\ proc' = [proc EXCEPT ![c] = "listening"] /\ listener' = [listener EXCEPT ![port[c]] = c]
        /\ UNCHANGED <<pc, port>>
    BY <1>6, <2>2 DEF Binds
  <2>4. Alive' = Alive
    BY <2>1, <2>3 DEF Alive
  <2>5. TypeOK'
    BY <2>1, <2>3
  <2>6. \A b \in Children : proc'[b] = "listening" => b \in Alive /\ listener'[port'[b]] = b
    BY <2>1, <2>3 DEF Alive
  <2>7. Bridges'
    BY <2>1, <2>3, <2>4, <2>6
  <2>8. QED
    BY <2>5, <2>7
<1>7. ASSUME NEW c \in Children, Dies(c) PROVE IInv'
  BY <1>7 DEF Dies, NoSurprises
<1>8. ASSUME UNCHANGED vars PROVE IInv'
  BY <1>8 DEF vars, Alive
<1> HIDE DEF IInv
<1>9. QED
  BY <1>1, <1>2, <1>3, <1>4, <1>5, <1>6, <1>7, <1>8 DEF Next, Settled

\* What a viewer of a ready session reaches is the websockify of that session, and
\* behind it its own x11vnc.
OwnScreen ==
  \A s \in Starts : pc[s] = "ready" =>
    \A k \in Programs : listener[port[<<s, k>>]] = <<s, k>>

\* A ready session shows its own screen: its port is served by its websockify, and
\* the port behind it by its x11vnc, as long as no port is handed out twice before
\* it is bound and no program dies.
THEOREM Own == NoSurprises => (Spec => []OwnScreen)
<1> SUFFICES ASSUME NoSurprises PROVE Spec => []OwnScreen
  OBVIOUS
<1>1. Init => IInv
  BY ConstantsAssumption, PairsAreChildren DEF Init, IInv, TypeOK, Bridges, Alive
<1>2. IInv => OwnScreen
  <2> SUFFICES ASSUME IInv, NEW s \in Starts, pc[s] = "ready", NEW k \in Programs
               PROVE  listener[port[<<s, k>>]] = <<s, k>>
    BY DEF OwnScreen
  <2>1. <<s, k>> \in Children /\ proc[<<s, k>>] = "listening"
    BY PairsAreChildren DEF IInv, Bridges
  <2>2. QED
    BY <2>1 DEF IInv, Bridges
<1>3. IInv /\ [Next]_vars => IInv'
  BY BridgesStep
<1>4. QED
  BY <1>1, <1>2, <1>3, PTL DEF Spec
-----------------------------------------------------------------------------
(* Ports that were given to one child only                                  *)

Unshared(c) == \A d \in Children \ {c} : port[d] # port[c]

\* The programs start s has waited for.
Passed(s, k) == \/ pc[s] = "websockify" /\ k = "x11vnc"
                \/ pc[s] = "ready"

\* Who listens does so on its own port, so that somebody accepting on a port that
\* is nobody else's is the child that was waited for.
Listening ==
  /\ \A c \in Children : proc[c] = "none" => port[c] = None
  /\ \A c \in Children : proc[c] = "listening" => listener[port[c]] = c
  /\ \A p \in Ports : listener[p] # <<>> => /\ proc[listener[p]] = "listening"
                                            /\ port[listener[p]] = p

Spawned ==
  \A s \in Starts :
    /\ pc[s] = "idle" => \A k \in Programs : proc[<<s, k>>] = "none"
    /\ pc[s] = "x11vnc" => proc[<<s, "x11vnc">>] # "none" /\ proc[<<s, "websockify">>] = "none"
    /\ pc[s] \in {"websockify", "ready"} => \A k \in Programs : proc[<<s, k>>] # "none"

Waited ==
  \A s \in Starts, k \in Programs :
    Passed(s, k) /\ Unshared(<<s, k>>) => proc[<<s, k>>] \in {"listening", "dead"}

UInv == TypeOK /\ Listening /\ Spawned /\ Waited

\* A spawn takes nobody's port away from being unshared later: a port that is
\* unshared afterwards was so before.
LEMMA SpawnKeeps ==
  ASSUME UInv, NEW c \in Children, proc[c] = "none", Spawn(c), listener' = listener
  PROVE  /\ port' \in [Children -> Ports \union {None}]
         /\ proc' = [proc EXCEPT ![c] = "booting"]
         /\ \A b \in Children : proc'[b] # "none" => port'[b] \in Ports
         /\ Listening'
         /\ \A b \in Children \ {c} : proc[b] # "none" /\ Unshared(b)' => Unshared(b)
<1> USE ConstantsAssumption DEF UInv, TypeOK, Listening
<1>1. PICK p \in Ports : /\ port' = [port EXCEPT ![c] = p]
                         /\ proc' = [proc EXCEPT ![c] = "booting"]
  BY DEF Spawn, FreePorts, Free
<1>2. \A b \in Children \ {c} : port'[b] = port[b] /\ proc'[b] = proc[b]
  BY <1>1
<1>3. port'[c] = p /\ proc'[c] = "booting" /\ port[c] = None
  BY <1>1
<1>4. \A q \in Ports : listener[q] # <<>> => listener[q] # c
  BY <1>3
<1>5. Listening'
  BY <1>1, <1>2, <1>3, <1>4, PairsAreChildren
<1>6. \A b \in Children \ {c} : proc[b] # "none" /\ Unshared(b)' => Unshared(b)
  BY <1>2, <1>3 DEF Unshared
<1>7. QED
  BY <1>1, <1>2, <1>3, <1>5, <1>6

\* Programs that are gone leave the ports of the others alone.
LEMMA GoneKeeps ==
  ASSUME UInv, NEW c0 \in Children, Gone(c0)
  PROVE  /\ proc' \in [Children -> {"none", "booting", "listening", "dead"}]
         /\ listener' \in [Ports -> Children \union {<<>>}]
         /\ \A c \in Children : proc'[c] # "none" => port'[c] \in Ports
         /\ \A c \in Children : proc'[c] = IF c = c0 THEN "dead" ELSE proc[c]
         /\ Listening'
         /\ \A c \in Children : Unshared(c)' <=> Unshared(c)
<1> USE PairsAreChildren DEF UInv, TypeOK, Gone
<1>1. \A c \in Children : proc'[c] = IF c = c0 THEN "dead" ELSE proc[c]
  OBVIOUS
<1>2. \A p \in Ports : listener'[p] = IF listener[p] = c0 THEN <<>> ELSE listener[p]
  OBVIOUS
<1>3. \A c \in Children : Unshared(c)' <=> Unshared(c)
  BY DEF Unshared
<1>4. /\ proc' \in [Children -> {"none", "booting", "listening", "dead"}]
      /\ listener' \in [Ports -> Children \union {<<>>}]
      /\ \A c \in Children : proc'[c] # "none" => port'[c] \in Ports
  OBVIOUS
<1>5. Listening'
  BY <1>1, <1>2, <1>4 DEF Listening
<1>6. QED
  BY <1>1, <1>3, <1>4, <1>5

\* Somebody accepts on the port of c, and nobody else was given it.
LEMMA AcceptingIsListening ==
  ASSUME UInv, NEW c \in Children, proc[c] # "none", Accepting(c), Unshared(c)
  PROVE  proc[c] \in {"listening", "dead"}
<1> USE DEF UInv, TypeOK, Listening
<1>1. port[c] \in Ports /\ listener[port[c]] # <<>>
  BY DEF Accepting
<1>2. /\ listener[port[c]] \in Children
      /\ port[listener[port[c]]] = port[c]
      /\ proc[listener[port[c]]] = "listening"
  BY <1>1
<1>3. listener[port[c]] = c
  BY <1>2 DEF Unshared
<1>4. QED
  BY <1>2, <1>3

LEMMA UnsharedStep == UInv /\ [Next]_vars => UInv'
<1> SUFFICES ASSUME UInv, [Next]_vars PROVE UInv'
  OBVIOUS
<1> USE ConstantsAssumption, PairsAreChildren DEF Passed
<1>1. ASSUME NEW s \in Starts, StartX11vnc(s) PROVE UInv'
  <2>1. proc[<<s, "x11vnc">>] = "none" /\ proc[<<s, "websockify">>] = "none" /\ pc[s] = "idle"
    BY <1>1 DEF StartX11vnc, UInv, Spawned
  <2>2. /\ pc' = [pc EXCEPT ![s] = "x11vnc"] /\ Spawn(<<s, "x11vnc">>) /\ listener' = listener
    BY <1>1 DEF StartX11vnc
  <2>3. <<s, "x11vnc">> \in Children
    OBVIOUS
  <2>4. TypeOK' /\ Listening'
    BY <2>1, <2>2, <2>3, SpawnKeeps DEF UInv, TypeOK
  <2>5. /\ proc' = [proc EXCEPT ![<<s, "x11vnc">>] = "booting"]
        /\ \A b \in Children \ {<<s, "x11vnc">>} : proc[b] # "none" /\ Unshared(b)' => Unshared(b)
    BY <2>1, <2>2, <2>3, SpawnKeeps
  <2>6. Spawned' /\ Waited'
    BY <2>1, <2>2, <2>5 DEF UInv, TypeOK, Spawned, Waited
  <2>7. QED
    BY <2>4, <2>6 DEF UInv
<1>2. ASSUME NEW s \in Starts, X11vncReady(s) PROVE UInv'
  <2>1. /\ proc[<<s, "websockify">>] = "none" /\ proc[<<s, "x11vnc">>] # "none"
        /\ pc[s] = "x11vnc" /\ Accepting(<<s, "x11vnc">>)
    BY <1>2 DEF X11vncReady, UInv, Spawned
  <2>2. /\ pc' = [pc EXCEPT ![s] = "websockify"]
        /\ Spawn(<<s, "websockify">>) /\ listener' = listener
    BY <1>2 DEF X11vncReady
  <2>3. <<s, "websockify">> \in Children /\ <<s, "x11vnc">> \in Children
    OBVIOUS
  <2>4. TypeOK' /\ Listening'
    BY <2>1, <2>2, <2>3, SpawnKeeps DEF UInv, TypeOK
  <2>5. /\ proc' = [proc EXCEPT ![<<s, "websockify">>] = "booting"]
        /\ \A b \in Children \ {<<s, "websockify">>} : proc[b] # "none" /\ Unshared(b)' => Unshared(b)
    BY <2>1, <2>2, <2>3, SpawnKeeps
  <2>6. Unshared(<<s, "x11vnc">>) => proc[<<s, "x11vnc">>] \in {"listening", "dead"}
    BY <2>1, <2>3, AcceptingIsListening
  <2>7. Spawned' /\ Waited'
    BY <2>1, <2>2, <2>5, <2>6 DEF UInv, TypeOK, Spawned, Waited
  <2>8. QED
    BY <2>4, <2>7 DEF UInv
<1>3. ASSUME NEW s \in Starts, WebsockifyReady(s) PROVE UInv'
  <2>1. /\ pc[s] = "websockify" /\ pc' = [pc EXCEPT ![s] = "ready"]
        /\ UNCHANGED <<port, proc, listener>> /\ Accepting(<<s, "websockify">>)
    BY <1>3 DEF WebsockifyReady
  <2>2. proc[<<s, "websockify">>] # "none" /\ <<s, "websockify">> \in Children
    BY <2>1 DEF UInv, Spawned
  <2>3. Unshared(<<s, "websockify">>) => proc[<<s, "websockify">>] \in {"listening", "dead"}
    BY <2>1, <2>2, AcceptingIsListening
  <2>4. \A c : Unshared(c)' <=> Unshared(c)
    BY <2>1 DEF Unshared
  <2>5. TypeOK' /\ Listening' /\ Spawned'
    BY <2>1 DEF UInv, TypeOK, Listening, Spawned
  <2>6. Waited'
    BY <2>1, <2>3, <2>4 DEF UInv, TypeOK, Waited
  <2>7. QED
    BY <2>5, <2>6 DEF UInv
<1>4. ASSUME NEW c0 \in Children, Gone(c0) PROVE UInv'
  <2>1. TypeOK' /\ Listening'
    BY <1>4, GoneKeeps DEF UInv, TypeOK, Gone
  <2>2. /\ \A c \in Children : proc'[c] = IF c = c0 THEN "dead" ELSE proc[c]
        /\ \A c \in Children : Unshared(c)' <=> Unshared(c)
    BY <1>4, GoneKeeps
  <2>3. pc' = pc /\ proc[c0] # "none"
    BY <1>4 DEF Gone
  <2>4. \A r \in Starts, k \in Programs :
           /\ <<r, k>> \in Children
           /\ proc'[<<r, k>>] = proc[<<r, k>>] \/ proc'[<<r, k>>] = "dead"
           /\ proc[<<r, k>>] = "none" => proc'[<<r, k>>] = "none"
           /\ Unshared(<<r, k>>)' <=> Unshared(<<r, k>>)
    BY <2>2, <2>3
  <2>5. "x11vnc" \in Programs /\ "websockify" \in Programs
    OBVIOUS
  <2> HIDE PairsAreChildren
  <2>6. Spawned'
    <3>1. \A r \in Starts : pc'[r] = "idle" => \A k \in Programs : proc'[<<r, k>>] = "none"
      <4> SUFFICES ASSUME NEW r \in Starts, pc'[r] = "idle", NEW k \in Programs
                   PROVE  proc'[<<r, k>>] = "none"
        OBVIOUS
      <4>1. proc[<<r, k>>] = "none"
        BY <2>3 DEF UInv, Spawned
      <4>2. QED
        BY <4>1, <2>4
    <3>2. \A r \in Starts : pc'[r] = "x11vnc" => /\ proc'[<<r, "x11vnc">>] # "none"
                                                /\ proc'[<<r, "websockify">>] = "none"
      <4> SUFFICES ASSUME NEW r \in Starts, pc'[r] = "x11vnc"
                   PROVE  proc'[<<r, "x11vnc">>] # "none" /\ proc'[<<r, "websockify">>] = "none"
        OBVIOUS
      <4>1. proc[<<r, "x11vnc">>] # "none" /\ proc[<<r, "websockify">>] = "none"
        BY <2>3 DEF UInv, Spawned
      <4>2. proc'[<<r, "x11vnc">>] \in {proc[<<r, "x11vnc">>], "dead"}
        BY <2>4, <2>5
      <4>3. proc'[<<r, "websockify">>] = "none"
        BY <2>4, <2>5, <4>1
      <4>4. QED
        BY <4>1, <4>2, <4>3
    <3>3. \A r \in Starts : pc'[r] \in {"websockify", "ready"}
                             => \A k \in Programs : proc'[<<r, k>>] # "none"
      <4> SUFFICES ASSUME NEW r \in Starts, pc'[r] \in {"websockify", "ready"}, NEW k \in Programs
                   PROVE  proc'[<<r, k>>] # "none"
        OBVIOUS
      <4>1. proc[<<r, k>>] # "none"
        BY <2>3 DEF UInv, Spawned
      <4>2. proc'[<<r, k>>] = proc[<<r, k>>] \/ proc'[<<r, k>>] = "dead"
        BY <2>4
      <4>3. QED
        BY <4>1, <4>2
    <3>4. QED
      BY <3>1, <3>2, <3>3 DEF Spawned
  <2>7. Waited'
    BY <2>3, <2>4 DEF UInv, Waited
  <2>8. QED
    BY <2>1, <2>6, <2>7 DEF UInv
<1>5. ASSUME NEW s \in Starts, Fails(s) \/ Stop(s) PROVE UInv'
  <2>1. /\ \E end \in {"failed", "stopped"} : pc' = [pc EXCEPT ![s] = end]
        /\ UNCHANGED <<port, proc, listener>>
    BY <1>5 DEF Fails, Stop
  <2>2. \A c \in Children : Unshared(c)' <=> Unshared(c)
    BY <2>1 DEF Unshared
  <2>3. QED
    BY <2>1, <2>2 DEF UInv, TypeOK, Listening, Spawned, Waited
<1>6. ASSUME NEW s \in Starts, NEW k \in Programs, Ends(s, k) PROVE UInv'
  BY <1>4, <1>6 DEF Ends
<1>7. ASSUME NEW c \in Children, Dies(c) PROVE UInv'
  BY <1>4, <1>7 DEF Dies
<1>8. ASSUME NEW c \in Children, Binds(c) PROVE UInv'
  <2>1. proc[c] = "booting" /\ port[c] \in Ports /\ UNCHANGED <<pc, port>>
    BY <1>8 DEF Binds, UInv, TypeOK
  <2>2. \A d : Unshared(d)' <=> Unshared(d)
    BY <2>1 DEF Unshared
  <2>3. \E st \in {"listening", "dead"} : proc' = [proc EXCEPT ![c] = st]
    BY <1>8 DEF Binds
  <2>4. TypeOK' /\ Listening'
    BY <1>8, <2>1 DEF Binds, UInv, TypeOK, Listening
  <2>5. Spawned' /\ Waited'
    BY <2>1, <2>2, <2>3 DEF UInv, TypeOK, Spawned, Waited
  <2>6. QED
    BY <2>4, <2>5 DEF UInv
<1>9. ASSUME UNCHANGED vars PROVE UInv'
  BY <1>9 DEF vars, UInv, TypeOK, Listening, Spawned, Waited, Unshared
<1>10. QED
  BY <1>1, <1>2, <1>3, <1>5, <1>6, <1>7, <1>8, <1>9 DEF Next, Settled

LEMMA AlwaysUnshared == Spec => []UInv
<1>1. Init => UInv
  BY ConstantsAssumption, PairsAreChildren
     DEF Init, UInv, TypeOK, Listening, Spawned, Waited, Passed
<1>2. QED
  BY <1>1, UnsharedStep, PTL DEF Spec

\* The variables keep their types, under every fault.
THEOREM Typed == Spec => []TypeOK
<1>1. UInv => TypeOK
  BY DEF UInv
<1>2. QED
  BY <1>1, AlwaysUnshared, PTL

\* Whatever is late, dies or collides: the live programs of a ready session listen
\* on its ports, if those were given to nobody else.
THEOREM OwnPorts == Spec => []OwnUnlessShared
<1>1. UInv => OwnUnlessShared
  <2> SUFFICES ASSUME UInv, NEW s \in Starts, NEW k \in Programs,
                      pc[s] = "ready", proc[<<s, k>>] # "dead",
                      \A d \in Children \ {<<s, k>>} : port[d] # port[<<s, k>>]
               PROVE  listener[port[<<s, k>>]] = <<s, k>>
    BY DEF OwnUnlessShared
  <2>1. proc[<<s, k>>] = "listening"
    BY DEF UInv, Waited, Passed, Unshared
  <2>2. QED
    BY <2>1, PairsAreChildren DEF UInv, Listening
<1>2. QED
  BY <1>1, AlwaysUnshared, PTL
=============================================================================
