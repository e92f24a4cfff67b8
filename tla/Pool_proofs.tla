---------------------------- MODULE Pool_proofs -----------------------------
(***************************************************************************)
(* For any number of users, connections, calls and limits: a connection of *)
(* the pool has one owner, a hand-off never blocks, the size is bounded    *)
(* and Close closes every tunnel.                                          *)
(***************************************************************************)
EXTENDS PoolAcquire_proofs

\* Zenon proves the leaves that do not name another prover.
USE Zenon

(* Release keeps the invariant.                                            *)
LEMMA ReleaseKeeps ==
    ASSUME IInv, NEW u \in Users, NEW mark \in BOOLEAN, Release(u, mark)
    PROVE  IInv'
  <1> DEFINE c == held[u]
  <1>1. /\ pc[u] = "idle" /\ ~released[u] /\ released' = [released EXCEPT ![u] = TRUE]
        /\ marked' = (IF mark THEN marked \cup {c} ELSE marked)
        /\ UNCHANGED <<closed, pending, noWait, dials, sick, pc, held, saved, calls, start, health, closer>>
    BY DEF Release, Releasable
  <1>2. c \in 1 .. dials /\ c \in 0 .. dials /\ c \in Conns /\ c \notin Range(idle) /\ c # None
    <2>1. c \in 1 .. dials /\ c \notin Range(idle)
      BY <1>1 DEF IInv, OwnInv
    <2> HIDE DEF c
    <2> QED
      BY <2>1, PoolAssumption, SMT DEF IInv, Fields, Conns, None
  <1>3. /\ \A v \in Users : v # u => held[v] # c \/ released[v]
        /\ \A v \in Users : ch[v].conn # c
    BY <1>1, <1>2 DEF IInv, OwnInv
  <1> HIDE DEF c
  <1>4. /\ \A v \in Users : v # u => released'[v] = released[v]
        /\ released'[u] = TRUE
        /\ released' \in [Users -> BOOLEAN]
    BY <1>1 DEF IInv, Locals
  <1>5. marked' \subseteq 1 .. dials
    BY <1>1, <1>2 DEF IInv, Fields
  <1>6. Loops' /\ DialInv'
    <2>1. Dialing' = Dialing
      BY <1>1 DEF Dialing
    <2> QED
      BY <1>1, <2>1 DEF IInv, Loops, DialInv, Conns
  <1>7. ASSUME NEW h \in 0 .. dials, wakeWaiterLocked(h)
        PROVE  /\ waiters' \in Seq(Users) /\ Locals' /\ UserInv' /\ WaitInv'
               /\ waiters = << >> => waiters' = << >>
               /\ \A v \in Users : ch'[v] = ch[v] \/ ch'[v] = Handoff(h)
               /\ \A v, w \in Users : ch'[v] # ch[v] /\ ch'[w] # ch[w] => v = w
    <2>1. /\ waiters' \in Seq(Users) /\ IsInjective(waiters') /\ Range(waiters') \subseteq Range(waiters)
          /\ waiters = << >> => waiters' = << >>
          /\ ch' \in [Users -> [kind : {"empty", "conn", "closed"}, conn : Conns \cup {None}]]
          /\ \A v \in Users : ch'[v] = ch[v] \/ (ch'[v] = Handoff(h) /\ pc[v] \in Waiting)
          /\ \A v \in Range(waiters') : ch'[v] = Empty /\ pc[v] \in Waiting
          /\ \A v, w \in Users : ch'[v] # ch[v] /\ ch'[w] # ch[w] => v = w
      BY <1>7, WakeKeeps DEF IInv
    <2>2. Locals'
      BY <1>1, <1>4, <2>1 DEF IInv, Locals, Conns
    <2>3. UserInv'
      BY <1>1, <1>4, <2>1 DEF IInv, UserInv
    <2>4. WaitInv'
      BY <1>1, <2>1 DEF WaitInv
    <2> QED
      BY <2>1, <2>2, <2>3, <2>4
  <1>8. ASSUME UNCHANGED <<waiters, ch>>
        PROVE  Locals' /\ UserInv' /\ WaitInv'
    BY <1>1, <1>4, <1>8 DEF IInv, Locals, UserInv, WaitInv, Conns
  <1>9. CASE closed /\ shut' = shut \cup {c} /\ UNCHANGED <<conns, idle, waiters, ch>>
    <2>1. Fields' /\ CloseInv' /\ SizeInv'
      BY <1>1, <1>2, <1>5, <1>9 DEF IInv, Fields, CloseInv, SizeInv, Conns
    <2>2. OwnInv'
      BY <1>1, <1>4, <1>9 DEF IInv, OwnInv
    <2> QED
      BY <1>6, <1>8, <1>9, <2>1, <2>2 DEF IInv
  <1>10. CASE ~closed /\ removeConnLocked(c) /\ shut' = shut \cup {c} /\ wakeWaiterLocked(None)
    <2>1. None \in 0 .. dials
      BY SMT DEF IInv, Fields, None
    <2>2. /\ waiters' \in Seq(Users) /\ Locals' /\ UserInv' /\ WaitInv'
          /\ \A v \in Users : ch'[v] = ch[v] \/ ch'[v] = Handoff(None)
      BY <1>7, <1>10, <2>1
    <2>3. /\ conns' \subseteq Conns /\ idle' \in Seq(Conns) /\ shut' \subseteq 1 .. dials
          /\ IsInjective(idle') /\ Range(idle') = Range(idle) \ {c}
          /\ CloseInv' /\ SizeInv'
      BY <1>1, <1>2, <1>10, RemoveKeeps DEF IInv
    <2>4. Fields'
      BY <1>1, <1>5, <2>2, <2>3 DEF IInv, Fields, Conns
    <2>5. OwnInv'
      <3>1. \A v \in Users : ch'[v].conn # None => ch'[v].conn = ch[v].conn
        BY <2>2, SMT DEF Handoff
      <3> QED
        BY <1>1, <1>4, <2>3, <3>1, SMT DEF IInv, OwnInv
    <2> QED
      BY <1>6, <2>2, <2>3, <2>4, <2>5 DEF IInv
  <1>11. CASE ~closed /\ wakeWaiterLocked(c) /\ UNCHANGED <<conns, idle, shut>>
    <2>1. /\ waiters' \in Seq(Users) /\ Locals' /\ UserInv' /\ WaitInv'
          /\ \A v \in Users : ch'[v] = ch[v] \/ ch'[v] = Handoff(c)
          /\ \A v, w \in Users : ch'[v] # ch[v] /\ ch'[w] # ch[w] => v = w
      BY <1>2, <1>7, <1>11
    <2>2. Fields' /\ CloseInv' /\ SizeInv'
      BY <1>1, <1>5, <1>11, <2>1 DEF IInv, Fields, CloseInv, SizeInv, Conns
    <2>3. OwnInv'
      <3>1. \A v \in Users : ch'[v].conn = ch[v].conn \/ (ch'[v].conn = c /\ ch'[v] # ch[v])
        BY <1>3, <2>1, SMTT(20) DEF Handoff
      <3> QED
        BY <1>1, <1>2, <1>3, <1>4, <1>11, <2>1, <3>1, SMTT(20) DEF IInv, OwnInv
    <2> QED
      BY <1>6, <2>1, <2>2, <2>3 DEF IInv
  <1>12. CASE ~closed /\ idle' = Append(idle, c) /\ UNCHANGED <<conns, waiters, ch, shut>>
    <2>1. idle' \in Seq(Conns) /\ IsInjective(idle') /\ Range(idle') = Range(idle) \cup {c}
      BY <1>2, <1>12, AppendToList, SMT DEF IInv, Fields, OwnInv
    <2>2. Fields' /\ CloseInv' /\ SizeInv'
      BY <1>1, <1>5, <1>12, <2>1 DEF IInv, Fields, CloseInv, SizeInv, Conns
    <2>3. OwnInv'
      BY <1>1, <1>2, <1>3, <1>4, <1>12, <2>1 DEF IInv, OwnInv
    <2> QED
      BY <1>6, <1>8, <1>12, <2>2, <2>3 DEF IInv
  <1> QED
    BY <1>9, <1>10, <1>11, <1>12 DEF Release, c
-----------------------------------------------------------------------------
(* The steps of the pool itself *)

(* A new connection on the idle list.                                      *)
LEMMA AddIdleKeeps ==
    ASSUME Fields, Locals, OwnInv, DialSucceeds, AddIdle, UNCHANGED <<held, released, ch>>
    PROVE  /\ dials' = dials + 1 /\ dials' \in 0 .. MaxDials /\ dials \in Nat
           /\ 1 .. dials' = (1 .. dials) \cup {dials + 1}
           /\ conns' \subseteq Conns /\ idle' \in Seq(Conns)
           /\ conns' = conns \cup {dials + 1}
           /\ OwnInv'
  <1> DEFINE c == dials + 1
  <1>1. /\ dials' = c /\ dials' \in 0 .. MaxDials /\ dials \in Nat /\ c \in Conns
        /\ conns' = conns \cup {c} /\ idle' = Append(idle, c)
    BY PoolAssumption, SMT DEF DialSucceeds, AddIdle, Fields, Conns
  <1>2. 1 .. dials' = (1 .. dials) \cup {c} /\ c \notin 1 .. dials
    BY <1>1, SMT
  <1> HIDE DEF c
  <1>3. c \notin Range(idle)
    BY <1>2 DEF OwnInv
  <1>4. idle' \in Seq(Conns) /\ IsInjective(idle') /\ Range(idle') = Range(idle) \cup {c}
    BY <1>1, <1>3, AppendToList, SMT DEF Fields, OwnInv
  <1>5. OwnInv'
    BY <1>1, <1>2, <1>4, SMT DEF OwnInv
  <1> QED
    BY <1>1, <1>2, <1>4, <1>5 DEF c, Fields

(* The steps of Start keep the invariant.                                  *)
LEMMA StartKeeps ==
    ASSUME IInv, Start \/ StartDial \/ SetHealthCancel \/ StartHealthChecker
    PROVE  IInv'
  <1>1. ASSUME UNCHANGED users, UNCHANGED noWait, UNCHANGED <<waiters, pending>>
        PROVE  /\ UNCHANGED <<pc, held, released, ch>> /\ Locals' /\ WaitInv' /\ Dialing' = Dialing
    BY <1>1 DEF users, IInv, Locals, WaitInv, Dialing, Conns
  <1>2. CASE Start
    <2>1. /\ start.pc = "new"
          /\ start' = IF closed THEN [pc |-> "done", left |-> 0] ELSE [pc |-> "dialing", left |-> MinConns]
          /\ UNCHANGED <<conns, idle, waiters, closed, pending, noWait, dials, shut, marked, sick,
                         health, closer>>
          /\ UNCHANGED users
      BY <1>2 DEF Start, lists, tunnels
    <2>2. Locals' /\ WaitInv' /\ Dialing' = Dialing /\ UNCHANGED <<pc, held, released, ch>>
      BY <1>1, <2>1
    <2>3. Fields' /\ UserInv' /\ OwnInv'
      BY <2>1, <2>2 DEF IInv, Fields, UserInv, OwnInv, Conns
    <2>4. Loops'
      BY <2>1, PoolAssumption, SMT DEF IInv, Loops, Conns
    <2>5. CloseInv'
      BY <2>1 DEF IInv, CloseInv
    <2>6. start.left = 0 /\ health.left = 0 /\ health.pc = "off"
      BY <2>1 DEF IInv, Loops, DialInv
    <2>7. DialInv'
      BY <2>1, <2>2, <2>6 DEF IInv, DialInv
    <2>8. SizeInv'
      <3>1. start'.left \in Nat /\ start'.left <= MinConns /\ start'.pc # "new"
        BY <2>1, PoolAssumption, SMT
      <3>2. pending \in Nat /\ Cardinality(conns) \in Nat
        BY ConnsFinite DEF IInv, Fields
      <3> QED
        BY <2>1, <2>6, <3>1, <3>2, LeftTypes, SMT DEF IInv, SizeInv
    <2> QED
      BY <2>2, <2>3, <2>4, <2>5, <2>7, <2>8 DEF IInv
  <1>3. CASE StartDial
    <2>1. /\ start.pc = "dialing" /\ start.left > 0 /\ start' = [start EXCEPT !.left = @ - 1]
          /\ UNCHANGED <<waiters, closed, pending, noWait, shut, marked, sick, health, closer>>
          /\ UNCHANGED users
      BY <1>3 DEF StartDial
    <2>2. Locals' /\ WaitInv' /\ Dialing' = Dialing /\ UNCHANGED <<pc, held, released, ch>>
      BY <1>1, <2>1
    <2>3. (closed => closer.duringStart) /\ health.pc = "off" /\ health.left = 0
      BY <2>1 DEF IInv, Loops, CloseInv, DialInv
    <2>4. /\ start'.pc = "dialing" /\ start'.left = start.left - 1 /\ start'.left \in 0 .. MinConns
          /\ start' \in [pc : {"new", "dialing", "starting", "done"}, left : 0 .. MinConns]
      BY <2>1, PoolAssumption, SMT DEF IInv, Loops
    <2>5. Loops' /\ DialInv'
      BY <2>1, <2>2, <2>3, <2>4 DEF IInv, Loops, DialInv, Conns
    <2>6. pending \in Nat /\ Cardinality(conns) \in Nat /\ start.left \in Nat
      BY ConnsFinite, LeftTypes DEF IInv, Fields
    <2>7. CASE DialSucceeds /\ AddIdle
      <3>1. /\ dials' = dials + 1 /\ dials' \in 0 .. MaxDials /\ dials \in Nat
            /\ 1 .. dials' = (1 .. dials) \cup {dials + 1}
            /\ conns' \subseteq Conns /\ idle' \in Seq(Conns)
            /\ conns' = conns \cup {dials + 1}
            /\ OwnInv'
        BY <2>2, <2>7, AddIdleKeeps DEF IInv
      <3>2. Fields'
        BY <2>1, <3>1 DEF IInv, Fields, Conns
      <3>3. UserInv'
        BY <2>2, <3>1, SMT DEF IInv, UserInv
      <3>4. CloseInv'
        BY <2>1, <2>3, <3>1 DEF IInv, CloseInv
      <3>5. SizeInv'
        <4>1. Cardinality(conns') \in Nat /\ Cardinality(conns') <= Cardinality(conns) + 1
          BY <3>1, ConnsFinite DEF IInv
        <4> QED
          BY <2>1, <2>3, <2>4, <2>6, <4>1, LeftTypes, SMT DEF IInv, SizeInv
      <3> QED
        BY <2>2, <2>5, <3>1, <3>2, <3>3, <3>4, <3>5 DEF IInv
    <2>8. CASE DialFails /\ UNCHANGED <<conns, idle>>
      <3>1. dials' = dials
        BY <2>8 DEF DialFails
      <3>2. Fields' /\ UserInv' /\ OwnInv'
        BY <2>1, <2>2, <2>8, <3>1 DEF IInv, Fields, UserInv, OwnInv, Conns
      <3>3. CloseInv'
        BY <2>1, <2>3, <2>8, <3>1 DEF IInv, CloseInv
      <3>4. SizeInv'
        BY <2>1, <2>4, <2>6, <2>8, LeftTypes, SMT DEF IInv, SizeInv
      <3> QED
        BY <2>2, <2>5, <3>2, <3>3, <3>4 DEF IInv
    <2> QED
      BY <1>3, <2>7, <2>8 DEF StartDial
  <1>4. CASE SetHealthCancel
    <2>1. /\ start.pc = "dialing" /\ start.left = 0 /\ start' = [start EXCEPT !.pc = "starting"]
          /\ health' = [health EXCEPT !.cancel = "set"]
          /\ UNCHANGED <<conns, idle, waiters, closed, pending, noWait, dials, shut, marked, sick, closer>>
          /\ UNCHANGED users
      BY <1>4 DEF SetHealthCancel, lists, tunnels
    <2>2. Locals' /\ WaitInv' /\ Dialing' = Dialing /\ UNCHANGED <<pc, held, released, ch>>
      BY <1>1, <2>1
    <2>3. health.left = 0 /\ health.pc = "off"
      BY <2>1 DEF IInv, Loops, DialInv
    <2>4. /\ start'.pc = "starting" /\ start'.left = 0 /\ health'.pc = "off" /\ health'.left = 0
          /\ Loops'
      BY <2>1, <2>3 DEF IInv, Loops, Conns
    <2>5. Fields' /\ UserInv' /\ OwnInv'
      BY <2>1, <2>2 DEF IInv, Fields, UserInv, OwnInv, Conns
    <2>6. CloseInv' /\ DialInv'
      BY <2>1, <2>2, <2>4 DEF IInv, CloseInv, DialInv
    <2>7. SizeInv'
      BY <2>1, <2>3, <2>4 DEF IInv, SizeInv
    <2> QED
      BY <2>2, <2>4, <2>5, <2>6, <2>7 DEF IInv
  <1>5. CASE StartHealthChecker
    <2>1. /\ start.pc = "starting" /\ start.left = 0 /\ start' = [start EXCEPT !.pc = "done"]
          /\ health' = [health EXCEPT !.pc = "tick"]
          /\ UNCHANGED <<conns, idle, waiters, closed, pending, noWait, dials, shut, marked, sick, closer>>
          /\ UNCHANGED users
      BY <1>5 DEF StartHealthChecker, lists, tunnels, IInv, DialInv
    <2>2. Locals' /\ WaitInv' /\ Dialing' = Dialing /\ UNCHANGED <<pc, held, released, ch>>
      BY <1>1, <2>1
    <2>3. health.left = 0
      BY <2>1 DEF IInv, Loops, DialInv
    <2>4. /\ start'.pc = "done" /\ start'.left = 0 /\ health'.pc = "tick" /\ health'.left = 0
          /\ Loops'
      BY <2>1, <2>3 DEF IInv, Loops, Conns
    <2>5. Fields' /\ UserInv' /\ OwnInv'
      BY <2>1, <2>2 DEF IInv, Fields, UserInv, OwnInv, Conns
    <2>6. CloseInv' /\ DialInv'
      BY <2>1, <2>2, <2>4 DEF IInv, CloseInv, DialInv
    <2>7. SizeInv'
      BY <2>1, <2>3, <2>4 DEF IInv, SizeInv
    <2> QED
      BY <2>2, <2>4, <2>5, <2>6, <2>7 DEF IInv
  <1> QED
    BY <1>2, <1>3, <1>4, <1>5

\* What the health checker's record can be.
HealthRecords == [pc : {"off", "tick", "deficit", "dialing", "stopped"}, left : 0 .. MinConns,
                  cancel : {"nil", "set", "called"}]

(* The steps of the health checker keep the invariant.                     *)
LEMMA HealthKeeps ==
    ASSUME IInv, HealthStep \/ HealthDial
    PROVE  IInv'
  <1>1. UNCHANGED <<waiters, closed, pending, noWait, marked, sick, start, closer>> /\ UNCHANGED users
    BY DEF HealthStep, CheckIdle, Deficit, HealthDial, StopHealthChecker, lists, tunnels
  <1>2. /\ Locals' /\ WaitInv' /\ Dialing' = Dialing /\ UNCHANGED <<pc, held, released, ch>>
    BY <1>1 DEF users, IInv, Locals, WaitInv, Dialing, Conns
  <1>3. /\ pending \in Nat /\ Cardinality(conns) \in Nat /\ MinConns \in Nat /\ MaxConns \in Nat
        /\ start.left \in Nat /\ health.left \in Nat
    BY ConnsFinite, LeftTypes DEF IInv, Fields
  <1>4. ASSUME health' \in HealthRecords,
               health.pc # "off", health'.left # 0 <=> health'.pc = "dialing"
        PROVE  Loops' /\ DialInv' /\ start.pc = "done" /\ start.left = 0
    BY <1>1, <1>2, <1>4 DEF IInv, Loops, DialInv, Conns, HealthRecords
  <1>5. ASSUME UNCHANGED <<conns, idle, dials, shut>>
        PROVE  Fields' /\ UserInv' /\ OwnInv' /\ CloseInv'
    BY <1>1, <1>2, <1>5 DEF IInv, Fields, UserInv, OwnInv, CloseInv, Conns
  <1>6. CASE CheckIdle
    <2> DEFINE bad == {c \in Range(idle) : ~isHealthy(c)}
               keep == {i \in DOMAIN idle : isHealthy(idle[i])}
    <2>1. /\ health.pc = "tick" /\ ~closed /\ health' = [health EXCEPT !.pc = "deficit"]
          /\ idle' = ElementsAt(idle, keep) /\ conns' = conns \ bad /\ shut' = shut \cup bad
          /\ dials' = dials
      BY <1>6 DEF CheckIdle
    <2>2. /\ idle' \in Seq(Conns) /\ IsInjective(idle') /\ Range(idle') \subseteq Range(idle)
      <3>1. keep \in SUBSET (1 .. Len(idle)) /\ keep \subseteq DOMAIN idle
        BY SeqDomain DEF IInv, Fields
      <3> HIDE DEF keep
      <3>2. /\ idle' \in Seq(Conns) /\ IsInjective(idle')
            /\ Range(idle') \subseteq {idle[i] : i \in keep}
        BY <2>1, <3>1, ElementsAtPositions, SMT DEF IInv, Fields, OwnInv
      <3> QED
        BY <3>1, <3>2 DEF Range
    <2>3. bad \subseteq 1 .. dials
      BY DEF IInv, OwnInv
    <2> HIDE DEF bad
    <2>4. Fields'
      BY <1>1, <2>1, <2>2, <2>3 DEF IInv, Fields, Conns
    <2>5. /\ health'.pc = "deficit" /\ health'.left = 0 /\ health.left = 0
          /\ health' \in HealthRecords
      BY <2>1 DEF IInv, Loops, DialInv, HealthRecords
    <2>6. Loops' /\ DialInv'
      BY <1>4, <2>1, <2>5
    <2>7. UserInv' /\ OwnInv'
      BY <1>2, <2>1, <2>2 DEF IInv, UserInv, OwnInv
    <2>8. CloseInv'
      BY <1>1, <2>1 DEF IInv, CloseInv
    <2>9. SizeInv'
      <3>1. Cardinality(conns') \in Nat /\ Cardinality(conns') <= Cardinality(conns)
        BY <2>1, ConnsFinite DEF IInv
      <3> QED
        BY <1>1, <1>3, <2>5, <3>1, SMT DEF IInv, SizeInv
    <2> QED
      BY <1>2, <2>4, <2>6, <2>7, <2>8, <2>9 DEF IInv
  <1>7. CASE Deficit
    <2>1. /\ health.pc = "deficit" /\ UNCHANGED <<conns, idle, dials, shut>>
          /\ health' = IF Cardinality(conns) < MinConns
                       THEN [health EXCEPT !.pc = "dialing", !.left = MinConns - Cardinality(conns)]
                       ELSE [health EXCEPT !.pc = "tick"]
      BY <1>7 DEF Deficit, lists, tunnels
    <2>2. health.left = 0
      BY <2>1 DEF IInv, Loops, DialInv
    <2>3. CASE Cardinality(conns) < MinConns
      <3>1. /\ health'.pc = "dialing" /\ health'.left = MinConns - Cardinality(conns)
            /\ health'.left \in 0 .. MinConns /\ health'.left # 0
            /\ health' \in HealthRecords
        <4>1. MinConns - Cardinality(conns) \in 0 .. MinConns /\ MinConns - Cardinality(conns) # 0
          BY <1>3, <2>3, SMT
        <4> QED
          BY <2>1, <2>3, <4>1 DEF IInv, Loops, HealthRecords
      <3>2. Loops' /\ DialInv' /\ start.pc = "done" /\ start.left = 0
        BY <1>4, <2>1, <3>1
      <3>3. SizeInv'
        BY <1>1, <1>3, <2>1, <3>1, <3>2, SMT DEF IInv, SizeInv
      <3> QED
        BY <1>2, <1>5, <2>1, <3>2, <3>3 DEF IInv
    <2>4. CASE ~(Cardinality(conns) < MinConns)
      <3>1. /\ health'.pc = "tick" /\ health'.left = 0
            /\ health' \in HealthRecords
        BY <2>1, <2>2, <2>4 DEF IInv, Loops, HealthRecords
      <3>2. Loops' /\ DialInv'
        BY <1>4, <2>1, <3>1
      <3>3. SizeInv'
        BY <1>1, <2>1, <2>2, <3>1 DEF IInv, SizeInv
      <3> QED
        BY <1>2, <1>5, <2>1, <3>2, <3>3 DEF IInv
    <2> QED
      BY <2>3, <2>4
  <1>8. CASE HealthDial
    <2>1. health.pc = "dialing" /\ health.left # 0 /\ health.left \in 1 .. MinConns
      BY <1>8, PoolAssumption, SMT DEF HealthDial, IInv, Loops, DialInv
    <2>2. ASSUME health' = [health EXCEPT !.pc = "tick", !.left = 0]
          PROVE  Loops' /\ DialInv' /\ health'.left = 0
      <3>1. /\ health'.pc = "tick" /\ health'.left = 0
            /\ health' \in HealthRecords
        <4>1. 0 \in 0 .. MinConns
          BY PoolAssumption, SMT
        <4> QED
          BY <2>2, <4>1 DEF IInv, Loops, HealthRecords
      <3> QED
        BY <1>4, <2>1, <3>1
    <2>3. CASE DialFails /\ health' = [health EXCEPT !.pc = "tick", !.left = 0] /\ UNCHANGED <<conns, idle, shut>>
      <3>1. Fields' /\ UserInv' /\ OwnInv' /\ CloseInv'
        BY <1>5, <2>3 DEF DialFails
      <3>2. SizeInv'
        BY <1>1, <1>3, <2>2, <2>3, SMT DEF IInv, SizeInv
      <3> QED
        BY <1>2, <2>2, <2>3, <3>1, <3>2 DEF IInv
    <2>4. CASE /\ DialSucceeds /\ closed /\ DiscardDialed /\ health' = [health EXCEPT !.pc = "tick", !.left = 0]
               /\ UNCHANGED <<conns, idle>>
      <3>1. dials' = dials + 1 /\ dials' \in 0 .. MaxDials /\ dials \in Nat /\ shut' = shut \cup {dials + 1}
        BY <2>4, PoolAssumption, SMT DEF DialSucceeds, DiscardDialed, IInv, Fields
      <3>2. 1 .. dials' = (1 .. dials) \cup {dials + 1}
        BY <3>1, SMT
      <3>3. Fields'
        BY <1>1, <2>4, <3>1, <3>2 DEF IInv, Fields, Conns
      <3>4. UserInv'
        BY <1>2, <3>1, SMT DEF IInv, UserInv
      <3>5. OwnInv'
        BY <1>2, <2>4, <3>2 DEF IInv, OwnInv
      <3>6. CloseInv'
        BY <1>1, <2>4, <3>1, <3>2 DEF IInv, CloseInv
      <3>7. SizeInv'
        BY <1>1, <1>3, <2>2, <2>4, SMT DEF IInv, SizeInv
      <3> QED
        BY <1>2, <2>2, <2>4, <3>3, <3>4, <3>5, <3>6, <3>7 DEF IInv
    <2>5. CASE /\ DialSucceeds /\ ~closed /\ AddIdle /\ UNCHANGED shut
               /\ health' = [health EXCEPT !.pc = IF health.left = 1 THEN "tick" ELSE "dialing",
                                           !.left = @ - 1]
      <3>1. /\ dials' = dials + 1 /\ dials' \in 0 .. MaxDials /\ dials \in Nat
            /\ 1 .. dials' = (1 .. dials) \cup {dials + 1}
            /\ conns' \subseteq Conns /\ idle' \in Seq(Conns)
            /\ conns' = conns \cup {dials + 1}
            /\ OwnInv'
        BY <1>2, <2>5, AddIdleKeeps DEF IInv
      <3>2. /\ health'.left = health.left - 1
            /\ health'.left # 0 <=> health'.pc = "dialing"
            /\ health' \in HealthRecords
        <4>1. health.left - 1 \in 0 .. MinConns /\ (health.left - 1 # 0 <=> health.left # 1)
          BY <2>1, PoolAssumption, SMT
        <4>2. health'.left = health.left - 1 /\ health'.pc = IF health.left = 1 THEN "tick" ELSE "dialing"
          BY <2>5 DEF IInv, Loops
        <4>3. health' \in HealthRecords
          BY <2>5, <4>1 DEF IInv, Loops, HealthRecords
        <4> QED
          BY <4>1, <4>2, <4>3
      <3>3. Loops' /\ DialInv'
        BY <1>4, <2>1, <3>2
      <3>4. Fields'
        BY <1>1, <2>5, <3>1 DEF IInv, Fields, Conns
      <3>5. UserInv'
        BY <1>2, <3>1, SMT DEF IInv, UserInv
      <3>6. CloseInv'
        BY <1>1, <2>5, <3>1 DEF IInv, CloseInv
      <3>7. SizeInv'
        <4>1. Cardinality(conns') \in Nat /\ Cardinality(conns') <= Cardinality(conns) + 1
          BY <3>1, ConnsFinite DEF IInv
        <4>2. start.pc = "done"
          BY <2>1 DEF IInv, DialInv
        <4> QED
          BY <1>1, <1>3, <3>2, <4>1, <4>2, SMT DEF IInv, SizeInv
      <3> QED
        BY <1>2, <3>1, <3>3, <3>4, <3>5, <3>6, <3>7 DEF IInv
    <2> QED
      BY <1>8, <2>3, <2>4, <2>5 DEF HealthDial
  <1>9. CASE StopHealthChecker
    <2>1. /\ health.pc = "tick" /\ health' = [health EXCEPT !.pc = "stopped"]
          /\ UNCHANGED <<conns, idle, dials, shut>>
      BY <1>9 DEF StopHealthChecker, lists, tunnels
    <2>2. /\ health'.pc = "stopped" /\ health'.left = 0 /\ health.left = 0
          /\ health' \in HealthRecords
      BY <2>1 DEF IInv, Loops, DialInv, HealthRecords
    <2>3. Loops' /\ DialInv'
      BY <1>4, <2>1, <2>2
    <2>4. SizeInv'
      BY <1>1, <2>1, <2>2 DEF IInv, SizeInv
    <2> QED
      BY <1>2, <1>5, <2>1, <2>3, <2>4 DEF IInv
  <1> QED
    BY <1>6, <1>7, <1>8, <1>9 DEF HealthStep

(* The two halves of Pool.Close keep the invariant.                        *)
LEMMA CloseKeeps ==
    ASSUME IInv, Close \/ CloseConns
    PROVE  IInv'
  <1>1. CASE Close
    <2>1. /\ closer.pc = "open" /\ closed' = TRUE
          /\ ch' = [u \in Users |-> IF u \in Range(waiters) THEN Shut ELSE ch[u]]
          /\ waiters' = << >> /\ conns' = {} /\ idle' = << >>
          /\ health' = [health EXCEPT !.cancel = IF @ = "set" THEN "called" ELSE @]
          /\ closer' = [pc |-> "waiting", conns |-> conns, duringStart |-> start.pc = "dialing"]
          /\ UNCHANGED <<pending, noWait, dials, shut, marked, sick, pc, held, released, saved, calls,
                         start>>
      BY <1>1 DEF Close, tunnels
    <2>2. /\ waiters' \in Seq(Users) /\ idle' \in Seq(Conns) /\ Range(waiters') = {} /\ Range(idle') = {}
          /\ IsInjective(waiters') /\ IsInjective(idle')
      <3>1. << >> \in Seq(Users) /\ << >> \in Seq(Conns) /\ DOMAIN << >> = {}
        BY SMT
      <3>2. Range(<< >>) = {} /\ IsInjective(<< >>)
        BY <3>1 DEF Range, IsInjective
      <3> QED
        BY <2>1, <3>1, <3>2
    <2>3. \A u \in Users : ch'[u] = ch[u] \/ (ch'[u] = Shut /\ pc[u] \in Waiting)
      BY <2>1 DEF IInv, WaitInv
    <2>4. Fields' /\ Loops'
      BY <2>1, <2>2 DEF IInv, Fields, Loops, Conns
    <2>5. Locals'
      <3>1. Shut \in [kind : {"empty", "conn", "closed"}, conn : Conns \cup {None}]
        BY DEF Shut
      <3>2. ch' \in [Users -> [kind : {"empty", "conn", "closed"}, conn : Conns \cup {None}]]
        BY <2>1, <3>1 DEF IInv, Locals
      <3> QED
        BY <2>1, <3>2 DEF IInv, Locals, Conns
    <2>6. UserInv'
      BY <2>1, <2>3 DEF IInv, UserInv
    <2>7. WaitInv'
      BY <2>2 DEF WaitInv
    <2>8. OwnInv'
      <3>1. \A u \in Users : ch'[u].conn # None => ch'[u].conn = ch[u].conn
        BY <2>3, SMT DEF Shut
      <3> QED
        BY <2>1, <2>2, <3>1, SMT DEF IInv, OwnInv
    <2>9. CloseInv'
      BY <2>1 DEF IInv, CloseInv
    <2>10. health'.pc = health.pc /\ health'.left = health.left
      BY <2>1 DEF IInv, Loops
    <2>11. DialInv'
      <3>1. Dialing' = Dialing
        BY <2>1 DEF Dialing
      <3> QED
        BY <2>1, <2>10, <3>1 DEF IInv, DialInv
    <2>12. SizeInv'
      <3>1. /\ Cardinality(conns) \in Nat /\ Cardinality(conns') \in Nat
            /\ Cardinality(conns') <= Cardinality(conns) /\ pending \in Nat
        BY <2>1, ConnsFinite DEF IInv, Fields
      <3> QED
        BY <2>1, <2>10, <3>1, LeftTypes, SMT DEF IInv, SizeInv
    <2> QED
      BY <2>4, <2>5, <2>6, <2>7, <2>8, <2>9, <2>11, <2>12 DEF IInv
  <1>2. CASE CloseConns
    <2>1. /\ closer.pc = "waiting" /\ shut' = shut \cup closer.conns
          /\ closer' = [closer EXCEPT !.pc = "returned", !.conns = {}]
          /\ UNCHANGED <<conns, idle, waiters, closed, pending, noWait, dials, marked, sick,
                         pc, held, released, ch, saved, calls, start, health>>
      BY <1>2 DEF CloseConns, lists, users
    <2>2. closer.conns \subseteq 1 .. dials
      BY DEF IInv, CloseInv
    <2>3. Fields' /\ Loops'
      BY <2>1, <2>2 DEF IInv, Fields, Loops, Conns
    <2>4. Locals' /\ UserInv' /\ WaitInv' /\ OwnInv' /\ SizeInv'
      BY <2>1 DEF IInv, Locals, UserInv, WaitInv, OwnInv, SizeInv, Conns
    <2>5. DialInv'
      <3>1. Dialing' = Dialing
        BY <2>1 DEF Dialing
      <3> QED
        BY <2>1, <3>1 DEF IInv, DialInv
    <2>6. CloseInv'
      <3>1. /\ closer'.pc = "returned" /\ closer'.conns = {}
            /\ closer'.duringStart = closer.duringStart
        BY <2>1 DEF IInv, Loops
      <3> QED
        BY <2>1, <3>1 DEF IInv, CloseInv
    <2> QED
      BY <2>3, <2>4, <2>5, <2>6 DEF IInv
  <1> QED
    BY <1>1, <1>2

(* A connection that becomes unhealthy changes nothing the invariant says. *)
LEMMA SickenKeeps ==
    ASSUME IInv, NEW c \in 1 .. MaxDials, Sicken(c)
    PROVE  IInv'
  <1>1. /\ c \in 1 .. dials /\ sick' = sick \cup {c}
        /\ UNCHANGED <<conns, idle, waiters, closed, pending, noWait, dials, shut, marked,
                       pc, held, released, ch, saved, calls, start, health, closer>>
    BY DEF Sicken, lists, users
  <1>2. Fields' /\ Locals' /\ Loops' /\ UserInv' /\ WaitInv'
    BY <1>1 DEF IInv, Fields, Locals, Loops, UserInv, WaitInv, Conns
  <1>3. OwnInv' /\ CloseInv' /\ SizeInv'
    BY <1>1 DEF IInv, OwnInv, CloseInv, SizeInv
  <1>4. DialInv'
    BY <1>1 DEF IInv, DialInv, Dialing
  <1> QED
    BY <1>2, <1>3, <1>4 DEF IInv
-----------------------------------------------------------------------------
(* The theorems *)

(* The invariant holds in every state the pool can reach.                  *)
THEOREM PoolInvariant == Spec => []IInv
  <1>1. Init => IInv
    <2> SUFFICES ASSUME Init
                 PROVE  IInv
      OBVIOUS
    <2>1. Range(<< >>) = {} /\ IsInjective(<< >>)
      BY SMT DEF Range, IsInjective
    <2>2. Fields /\ Locals /\ Loops
      <3>1. Fields
        <4>1. closed \in BOOLEAN
          BY DEF Init, NewPool
        <4>2. pending \in Nat /\ dials \in 0 .. MaxDials
          BY PoolAssumption, SMT DEF Init, NewPool
        <4>3. idle \in Seq(Conns) /\ waiters \in Seq(Users)
          BY SMT DEF Init, NewPool
        <4> QED
          BY <4>1, <4>2, <4>3 DEF Init, NewPool, Fields
      <3>2. Locals
        <4>1. calls \in 0 .. MaxCalls
          BY PoolAssumption, SMT DEF Init
        <4>2. noWait \in BOOLEAN /\ released \in [Users -> BOOLEAN]
          BY DEF Init, NewPool
        <4>3. /\ held \in [Users -> Conns \cup {None}]
              /\ ch \in [Users -> [kind : {"empty", "conn", "closed"}, conn : Conns \cup {None}]]
          BY DEF Init, Empty
        <4> QED
          BY <4>1, <4>2, <4>3 DEF Init, Locals
      <3>3. Loops
        BY PoolAssumption, SMT DEF Init, Loops
      <3> QED
        BY <3>1, <3>2, <3>3
    <2>3. UserInv /\ WaitInv
      BY <2>1 DEF Init, NewPool, UserInv, WaitInv, Waiting
    <2>4. OwnInv
      BY <2>1 DEF Init, NewPool, OwnInv, Empty
    <2>5. CloseInv
      BY SMT DEF Init, NewPool, CloseInv
    <2>6. Dialing = {}
      BY DEF Init, Dialing
    <2>7. DialInv
      BY <2>6, FS_EmptySet DEF Init, NewPool, DialInv
    <2>8. SizeInv
      BY FS_EmptySet, PoolAssumption, SMT DEF Init, NewPool, SizeInv
    <2> QED
      BY <2>2, <2>3, <2>4, <2>5, <2>7, <2>8 DEF IInv
  <1>2. IInv /\ [Next]_vars => IInv'
    <2> SUFFICES ASSUME IInv, [Next]_vars
                 PROVE  IInv'
      OBVIOUS
    <2>1. CASE UNCHANGED vars
      <3>1. Fields' /\ Locals' /\ Loops' /\ UserInv' /\ WaitInv'
        BY <2>1 DEF IInv, Fields, Locals, Loops, UserInv, WaitInv, Conns, vars
      <3>2. OwnInv' /\ CloseInv' /\ SizeInv' /\ DialInv'
        BY <2>1 DEF IInv, OwnInv, CloseInv, SizeInv, DialInv, Dialing, vars
      <3> QED
        BY <3>1, <3>2 DEF IInv
    <2>2. CASE \E u \in Users : UserCall(u) \/ UserStep(u) \/ FinishDial(u)
      BY <2>2, BeginAcquireKeeps, AcquireKeeps, FinishDialKeeps, WaitResultKeeps, WaitTimeoutKeeps,
         handleWaitTimeoutKeeps, EndAcquireKeeps, ReleaseKeeps DEF UserCall, UserStep
    <2>3. CASE \E c \in 1 .. MaxDials : Sicken(c)
      BY <2>3, SickenKeeps
    <2>4. CASE Start \/ StartDial \/ StartStep
      BY <2>4, StartKeeps DEF StartStep
    <2>5. CASE HealthStep \/ HealthDial
      BY <2>5, HealthKeeps
    <2>6. CASE Close \/ CloseConns
      BY <2>6, CloseKeeps
    <2> QED
      BY <2>1, <2>2, <2>3, <2>4, <2>5, <2>6 DEF Next, DialEnds
  <1> QED
    BY <1>1, <1>2, PTL DEF Spec

(* The pool's fields and the locals of its goroutines keep their types.    *)
THEOREM PoolTypes == Spec => []TypeOK
  <1>1. IInv => TypeOK
    BY DEF IInv, Fields, Locals, Loops, TypeOK
  <1> QED
    BY <1>1, PoolInvariant, PTL

(* A connection is never in two places at once, whatever the users, the    *)
(* health checker and Close do (Pool.release, tryGetIdleLocked and the     *)
(* released flag of PoolConn).                                             *)
THEOREM EveryConnectionHasOneOwner == Spec => []OneOwner
  <1>1. IInv => OneOwner
    <2> SUFFICES ASSUME IInv, NEW c \in 1 .. dials
                 PROVE  Cardinality(Places(c)) <= 1
      BY DEF OneOwner
    <2>1. c # None
      BY SMT DEF IInv, Fields, None
    <2>2. DOMAIN idle = 1 .. Len(idle)
      BY SeqDomain DEF IInv, Fields
    <2>3. \A i \in 1 .. Len(idle) : idle[i] \in Range(idle)
      BY <2>2 DEF Range
    <2>4. \A u \in Users : ch[u] = Handoff(c) => ch[u].conn = c
      BY SMT DEF Handoff
    <2>5. \A p, q \in Places(c) : p = q
      BY <2>1, <2>2, <2>3, <2>4, SMT DEF IInv, OwnInv, Places, IsInjective
    <2>6. CASE Places(c) = {}
      BY <2>6, FS_EmptySet, SMT
    <2>7. CASE Places(c) # {}
      <3>1. PICK p : Places(c) = {p}
        BY <2>5, <2>7
      <3> QED
        BY <3>1, FS_Singleton, SMT
    <2> QED
      BY <2>6, <2>7
  <1> QED
    BY <1>1, PoolInvariant, PTL

(* No send on a waiter's channel blocks with the pool's lock held, and     *)
(* Close closes each channel once (release, wakeWaiterLocked, Close).      *)
THEOREM SendsNeverBlock == Spec => []HandoffNeverBlocks
  <1>1. IInv => HandoffNeverBlocks
    <2> SUFFICES ASSUME IInv
                 PROVE  HandoffNeverBlocks
      OBVIOUS
    <2>1. DOMAIN waiters = 1 .. Len(waiters)
      BY SeqDomain DEF IInv, Fields
    <2>2. \A i \in 1 .. Len(waiters) : waiters[i] \in Range(waiters)
      BY <2>1 DEF Range
    <2> QED
      BY <2>1, <2>2 DEF IInv, WaitInv, HandoffNeverBlocks, IsInjective, Waiting
  <1> QED
    BY <1>1, PoolInvariant, PTL

(* The pool exceeds MaxConns by at most MinConns, the connections that     *)
(* Start and the health checker add without a look at the limit.           *)
THEOREM PoolSizeBounded == Spec => []SizeBounded
  <1>1. IInv => SizeBounded
    <2> SUFFICES ASSUME IInv
                 PROVE  SizeBounded
      OBVIOUS
    <2>1. pending \in Nat /\ Cardinality(conns) \in Nat
      BY ConnsFinite DEF IInv, Fields
    <2> QED
      BY <2>1, LeftTypes, SMT DEF IInv, SizeInv, SizeBounded
  <1> QED
    BY <1>1, PoolInvariant, PTL

(* When Pool.Close has returned, no tunnel of the pool was forgotten, also *)
(* not one that was in use, on its way to a waiter or being dialled,       *)
(* whenever Close is called, except for the connections of a Start that    *)
(* was dialing then.                                                       *)
THEOREM NoTunnelForgotten == Spec => []CloseClosesAll
  <1>1. IInv => CloseClosesAll
    BY DEF IInv, Fields, CloseInv, CloseClosesAll
  <1> QED
    BY <1>1, PoolInvariant, PTL
=============================================================================
