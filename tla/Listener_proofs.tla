-------------------------- MODULE Listener_proofs ---------------------------
(***************************************************************************)
(* For any number of connections, addresses, callers and limits: the       *)
(* per-address slots of the listener are exact, and every open connection  *)
(* has an owner.                                                           *)
(***************************************************************************)
EXTENDS Listener, FiniteSetTheorems, TLAPS

\* Zenon proves the leaves that do not name another prover.
USE Zenon

Stages == {"new", "shed", "checkIP", "createSession", "performHandshake", "handshake",
           "newTransport", "deliver", "deliverError", "release", "gone"}

Unchecked == {"new", "checkIP"}

Results == [conn : Conns, ok : BOOLEAN]

Types ==
    /\ stage \in [Conns -> Stages] /\ open \subseteq Conns /\ slot \subseteq Conns
    /\ owned \subseteq Conns /\ results \in Seq(Results)

\* What Accept returned, or will return, has been through the check.
Passed ==
    /\ \A c \in owned : stage[c] \notin Unchecked
    /\ \A n \in DOMAIN results : stage[results[n].conn] \notin Unchecked

\* Nobody closes a connection that waits for the check.
Untouched == \A c \in Conns : stage[c] \in Unchecked => c \in open

FlowInv == Types /\ Passed /\ Untouched

Held(i) == {c \in slot : IPOf[c] = i}

Counted == connections \in [IPs -> Nat] /\ \A i \in IPs : connections[i] = Cardinality(Held(i))

\* A connection carries a slot from the check until it is closed.
Carried ==
    \A c \in Conns : c \in slot <=> (MaxPerIP > 0 /\ c \in open /\ stage[c] \notin Unchecked)

SlotInv == Counted /\ Carried

-----------------------------------------------------------------------------
(* The way of a connection *)

(* A goroutine that moves past the check, or beyond, keeps FlowInv, with   *)
(* the connection closed or not.                                           *)
LEMMA MoveKeepsFlow ==
    ASSUME FlowInv, NEW c \in Conns, NEW s \in Stages \ Unchecked,
           stage' = [stage EXCEPT ![c] = s], open' \in {open, open \ {c}},
           slot' \subseteq Conns, UNCHANGED <<owned, results>>
    PROVE  FlowInv'
  <1>1. Types'
    BY DEF FlowInv, Types
  <1>2. Passed'
    BY SMT DEF FlowInv, Types, Passed, Results
  <1>3. Untouched'
    BY DEF FlowInv, Types, Untouched
  <1> QED
    BY <1>1, <1>2, <1>3 DEF FlowInv

(* No step disturbs FlowInv.                                               *)
LEMMA FlowStep ==
    ASSUME FlowInv, [Next]_vars
    PROVE  FlowInv'
  <1>1. ASSUME NEW c \in Conns, closeConn(c)
        PROVE  open' = open \ {c} /\ slot' \subseteq Conns
    BY <1>1 DEF closeConn, FlowInv, Types
  <1>2. ASSUME UNCHANGED sockets
        PROVE  open' = open /\ slot' \subseteq Conns
    BY <1>2 DEF sockets, FlowInv, Types
  <1>3. ASSUME UNCHANGED <<stage, sockets, owned, results>>
        PROVE  FlowInv'
    BY <1>3 DEF sockets, FlowInv, Types, Passed, Untouched
  <1>4. ASSUME NEW c \in Conns, acceptLoop(c)
        PROVE  FlowInv'
    <2>1. CASE pending < Limit
      <3>1. /\ stage[c] = "new" /\ stage' = [stage EXCEPT ![c] = "checkIP"]
            /\ open' = open /\ slot' = slot /\ owned' = owned /\ results' = results
        BY <1>4, <2>1 DEF acceptLoop, sockets, application
      <3>2. Types' /\ Untouched'
        BY <3>1 DEF FlowInv, Types, Untouched, Stages, Unchecked
      <3>3. Passed'
        BY <3>1, SMT DEF FlowInv, Types, Passed, Unchecked, Results
      <3> QED
        BY <3>2, <3>3 DEF FlowInv
    <2>2. CASE ~(pending < Limit)
      BY <1>4, <2>2, <1>1, MoveKeepsFlow DEF acceptLoop, application, Stages, Unchecked
    <2> QED
      BY <2>1, <2>2
  <1>5. ASSUME NEW c \in Conns, checkIPRateLimit(c)
        PROVE  FlowInv'
    <2>1. CASE MaxPerIP = 0 \/ AllowConnection(c)
      <3>1. /\ stage' = [stage EXCEPT ![c] = "createSession"] /\ open' = open
            /\ slot' \subseteq Conns /\ UNCHANGED <<owned, results>>
        BY <1>5, <2>1 DEF checkIPRateLimit, Goes, application, FlowInv, Types
      <3> QED
        BY <3>1, MoveKeepsFlow DEF Stages, Unchecked
    <2>2. CASE ~(MaxPerIP = 0 \/ AllowConnection(c))
      BY <1>5, <2>2, <1>1, MoveKeepsFlow
         DEF checkIPRateLimit, Fails, Goes, application, Stages, Unchecked
    <2> QED
      BY <2>1, <2>2
  <1>6. ASSUME NEW c \in Conns, createSession(c)
        PROVE  FlowInv'
    BY <1>6, <1>1, <1>2, MoveKeepsFlow
       DEF createSession, Fails, Goes, application, Stages, Unchecked
  <1>7. ASSUME NEW c \in Conns, performHandshake(c)
        PROVE  FlowInv'
    BY <1>7, <1>1, <1>2, MoveKeepsFlow
       DEF performHandshake, Fails, Goes, application, Stages, Unchecked
  <1>8. ASSUME NEW c \in Conns, handshake(c)
        PROVE  FlowInv'
    BY <1>8, <1>1, <1>2, MoveKeepsFlow
       DEF handshake, Fails, Goes, application, Stages, Unchecked
  <1>9. ASSUME NEW c \in Conns, deliver(c)
        PROVE  FlowInv'
    <2> DEFINE r == [conn |-> c, ok |-> stage[c] = "deliver"]
    <2>1. CASE results' = Append(results, r) /\ UNCHANGED sockets
      <3>1. /\ stage[c] \notin Unchecked /\ stage' = [stage EXCEPT ![c] = "release"]
            /\ open' = open /\ slot' = slot /\ owned' = owned
        BY <1>9, <2>1 DEF deliver, Goes, sockets, application, Unchecked
      <3>2. r \in Results
        BY DEF Results
      <3>3. Types' /\ Untouched'
        BY <2>1, <3>1, <3>2, SMT DEF FlowInv, Types, Untouched, Stages, Unchecked
      <3>4. \A d \in Conns : stage[d] \notin Unchecked => stage'[d] \notin Unchecked
        BY <3>1 DEF FlowInv, Types, Unchecked
      <3>5. \A n \in DOMAIN results' :
               \/ n \in DOMAIN results /\ results'[n] = results[n]
               \/ results'[n] = r
        BY <2>1, <3>2, SMT DEF FlowInv, Types
      <3>6. \A n \in DOMAIN results : results[n].conn \in Conns
        <4>1. \A n \in DOMAIN results : results[n] \in Results
          BY SMT DEF FlowInv, Types
        <4> QED
          BY <4>1 DEF Results
      <3>7. Passed'
        BY <3>1, <3>4, <3>5, <3>6, SMT DEF FlowInv, Types, Passed
      <3> QED
        BY <3>3, <3>7 DEF FlowInv
    <2>2. CASE UNCHANGED results /\ (closeConn(c) \/ UNCHANGED sockets)
      BY <1>9, <2>2, <1>1, <1>2, MoveKeepsFlow DEF deliver, Goes, application, Stages, Unchecked
    <2> QED
      BY <1>9, <2>1, <2>2 DEF deliver
  <1>10. ASSUME NEW c \in Conns, release(c)
         PROVE  FlowInv'
    BY <1>10, <1>2, MoveKeepsFlow DEF release, Goes, application, Stages, Unchecked
  <1>11. ASSUME NEW c \in Conns, CloseTunnel(c)
         PROVE  FlowInv'
    <2>1. /\ stage[c] \notin Unchecked /\ UNCHANGED <<stage, results>>
          /\ owned' = owned \ {c}
      BY <1>11 DEF CloseTunnel, FlowInv, Passed
    <2>2. open' \in {open, open \ {c}} /\ slot' \subseteq Conns
      BY <1>11, <1>1, <1>2 DEF CloseTunnel
    <2> QED
      BY <2>1, <2>2 DEF FlowInv, Types, Passed, Untouched
  <1>12. ASSUME NEW c \in Conns, PeerCloses(c)
         PROVE  FlowInv'
    BY <1>12, <1>3 DEF PeerCloses, sockets
  <1>13. ASSUME NEW a \in Callers, CallAccept(a)
         PROVE  FlowInv'
    BY <1>13, <1>3 DEF CallAccept, sockets
  <1>14. ASSUME NEW a \in Callers, Accept(a)
         PROVE  FlowInv'
    <2>1. CASE results = << >>
      BY <1>14, <2>1, <1>3 DEF Accept, sockets
    <2>2. CASE results # << >>
      <3>1. /\ results' = Tail(results) /\ owned' \subseteq owned \cup {Head(results).conn}
            /\ UNCHANGED <<stage, sockets>>
        BY <1>14, <2>2 DEF Accept
      <3>2. 1 \in DOMAIN results /\ Head(results) = results[1] /\ Head(results) \in Results
        BY <2>2, SMT DEF FlowInv, Types
      <3>3. \A n \in DOMAIN results' : n + 1 \in DOMAIN results /\ results'[n] = results[n + 1]
        BY <2>2, <3>1, SMT DEF FlowInv, Types
      <3>4. Types' /\ Untouched'
        BY <2>2, <3>1, <3>2, SMT DEF FlowInv, Types, Untouched, sockets, Results
      <3>5. Passed'
        BY <3>1, <3>2, <3>3 DEF FlowInv, Passed
      <3> QED
        BY <3>4, <3>5 DEF FlowInv
    <2> QED
      BY <2>1, <2>2
  <1>15. CASE acceptFails \/ Close \/ Refill
    BY <1>15, <1>3 DEF acceptFails, Close, Refill, sockets, application
  <1>16. CASE UNCHANGED vars
    BY <1>16, <1>3 DEF vars, sockets, application
  <1> QED
    BY <1>4, <1>5, <1>6, <1>7, <1>8, <1>9, <1>10, <1>11, <1>12, <1>13, <1>14, <1>15, <1>16
       DEF Next, Goroutine

-----------------------------------------------------------------------------
(* The slots *)

(* The connections of an address that carry a slot are finitely many.      *)
LEMMA HeldFinite ==
    ASSUME slot \subseteq Conns, NEW i
    PROVE  IsFiniteSet(Held(i)) /\ Cardinality(Held(i)) \in Nat
  <1>1. Held(i) \subseteq Conns
    BY DEF Held
  <1>2. IsFiniteSet(Held(i))
    BY <1>1, FS_Subset, ListenerAssumption DEF ListenerAssumption
  <1> QED
    BY <1>2, FS_CardinalityType

(* Closing a connection keeps the counters exact, whether or not it        *)
(* carries a slot (rateLimitedConn.Close, ReleaseConnection).              *)
LEMMA CloseKeepsCount ==
    ASSUME slot \subseteq Conns, Counted, NEW c \in Conns, closeConn(c)
    PROVE  Counted'
  <1>1. CASE c \notin slot
    <2>1. slot' = slot /\ connections' = connections
      BY <1>1 DEF closeConn
    <2> QED
      BY <2>1 DEF Counted, Held
  <1>2. CASE c \in slot
    <2> DEFINE a == IPOf[c]
    <2>1. a \in IPs
      BY ListenerAssumption DEF ListenerAssumption
    <2>2. IsFiniteSet(Held(a)) /\ Cardinality(Held(a)) \in Nat
      BY HeldFinite
    <2>3. c \in Held(a) /\ Held(a)' = Held(a) \ {c}
      BY <1>2 DEF closeConn, Held
    <2>4. Cardinality(Held(a)') = Cardinality(Held(a)) - 1
      BY <2>2, <2>3, FS_RemoveElement
    <2>5. Cardinality(Held(a)) > 0
      BY <2>2, <2>3, FS_EmptySet, SMT
    <2>6. \A i \in IPs \ {a} : Held(i)' = Held(i)
      BY DEF closeConn, Held
    <2>7. connections' = [connections EXCEPT ![a] = connections[a] - 1]
      BY <1>2, <2>1, <2>5 DEF closeConn, ReleaseConnection, Counted
    <2>8. connections' \in [IPs -> Nat]
      BY <2>1, <2>2, <2>5, <2>7, SMT DEF Counted
    <2>9. \A i \in IPs : connections'[i] = Cardinality(Held(i)')
      BY <2>1, <2>4, <2>6, <2>7 DEF Counted
    <2> QED
      BY <2>8, <2>9 DEF Counted
  <1> QED
    BY <1>1, <1>2

(* Taking a slot counts it (AllowConnection).                              *)
LEMMA TakeKeepsCount ==
    ASSUME slot \subseteq Conns, Counted, NEW c \in Conns, c \notin slot,
           slot' = slot \cup {c}, connections' = [connections EXCEPT ![IPOf[c]] = @ + 1]
    PROVE  Counted'
  <1> DEFINE a == IPOf[c]
  <1>1. a \in IPs
    BY ListenerAssumption DEF ListenerAssumption
  <1>2. IsFiniteSet(Held(a)) /\ Cardinality(Held(a)) \in Nat
    BY HeldFinite
  <1>3. c \notin Held(a) /\ Held(a)' = Held(a) \cup {c}
    BY DEF Held
  <1>4. Cardinality(Held(a)') = Cardinality(Held(a)) + 1
    BY <1>2, <1>3, FS_AddElement
  <1>5. \A i \in IPs \ {a} : Held(i)' = Held(i)
    BY DEF Held
  <1>6. connections' \in [IPs -> Nat]
    BY <1>1, SMT DEF Counted
  <1>7. \A i \in IPs : connections'[i] = Cardinality(Held(i)')
    BY <1>1, <1>4, <1>5 DEF Counted
  <1> QED
    BY <1>6, <1>7 DEF Counted

(* No step disturbs the slot invariant.                                    *)
LEMMA SlotStep ==
    ASSUME FlowInv, SlotInv, [Next]_vars
    PROVE  SlotInv'
  <1> USE DEF SlotInv, FlowInv
  <1>1. ASSUME NEW c \in Conns, closeConn(c), NEW s \in Stages,
               stage' = [stage EXCEPT ![c] = s]
        PROVE  SlotInv'
    <2>1. Counted'
      BY <1>1, CloseKeepsCount DEF Types
    <2>2. Carried'
      BY <1>1 DEF closeConn, Types, Carried
    <2> QED
      BY <2>1, <2>2
  <1>2. ASSUME NEW c \in Conns, closeConn(c), UNCHANGED stage
        PROVE  SlotInv'
    <2>1. Counted'
      BY <1>2, CloseKeepsCount DEF Types
    <2>2. Carried'
      BY <1>2 DEF closeConn, Types, Carried
    <2> QED
      BY <2>1, <2>2
  <1>3. ASSUME NEW c \in Conns, UNCHANGED sockets, NEW s \in Stages,
               stage' = [stage EXCEPT ![c] = s],
               stage[c] \in Unchecked <=> s \in Unchecked
        PROVE  SlotInv'
    <2>1. Counted'
      BY <1>3 DEF sockets, Counted, Held
    <2>2. Carried'
      BY <1>3 DEF sockets, Types, Carried
    <2> QED
      BY <2>1, <2>2
  <1>4. ASSUME UNCHANGED <<stage, sockets>>
        PROVE  SlotInv'
    BY <1>4 DEF sockets, Types, Counted, Held, Carried
  <1>5. ASSUME NEW c \in Conns, acceptLoop(c)
        PROVE  SlotInv'
    <2>1. CASE pending < Limit
      BY <1>5, <2>1, <1>3 DEF acceptLoop, Stages, Unchecked
    <2>2. CASE ~(pending < Limit)
      BY <1>5, <2>2, <1>1 DEF acceptLoop, Stages
    <2> QED
      BY <2>1, <2>2
  <1>6. ASSUME NEW c \in Conns, checkIPRateLimit(c)
        PROVE  SlotInv'
    <2>1. CASE MaxPerIP = 0
      <3>1. UNCHANGED sockets /\ stage' = [stage EXCEPT ![c] = "createSession"]
        BY <1>6, <2>1 DEF checkIPRateLimit, Goes, sockets
      <3>2. Counted'
        BY <3>1 DEF sockets, Counted, Held
      <3>3. Carried'
        BY <3>1, <2>1, SMT DEF sockets, Types, Carried, Stages
      <3> QED
        BY <3>2, <3>3
    <2>2. CASE MaxPerIP # 0 /\ AllowConnection(c)
      <3>1. /\ stage[c] = "checkIP" /\ stage' = [stage EXCEPT ![c] = "createSession"]
            /\ slot' = slot \cup {c} /\ open' = open
            /\ connections' = [connections EXCEPT ![IPOf[c]] = @ + 1]
        BY <1>6, <2>2 DEF checkIPRateLimit, Goes
      <3>2. c \notin slot
        BY <3>1 DEF Carried, Unchecked
      <3>3. Counted'
        BY <3>1, <3>2, TakeKeepsCount DEF Types
      <3>4. MaxPerIP > 0
        BY <2>2, ListenerAssumption, SMT DEF ListenerAssumption
      <3>5. c \in open
        BY <3>1 DEF Untouched, Unchecked
      <3>6. Carried'
        BY <3>1, <3>4, <3>5 DEF Types, Carried, Stages, Unchecked
      <3> QED
        BY <3>3, <3>6
    <2>3. CASE MaxPerIP # 0 /\ ~AllowConnection(c)
      BY <1>6, <2>3, <1>1 DEF checkIPRateLimit, Fails, Goes, Stages
    <2> QED
      BY <2>1, <2>2, <2>3
  <1>7. ASSUME NEW c \in Conns, createSession(c)
        PROVE  SlotInv'
    BY <1>7, <1>1, <1>3 DEF createSession, Fails, Goes, Stages, Unchecked
  <1>8. ASSUME NEW c \in Conns, performHandshake(c)
        PROVE  SlotInv'
    BY <1>8, <1>1, <1>3 DEF performHandshake, Fails, Goes, Stages, Unchecked
  <1>9. ASSUME NEW c \in Conns, handshake(c)
        PROVE  SlotInv'
    BY <1>9, <1>1, <1>3 DEF handshake, Fails, Goes, Stages, Unchecked
  <1>10. ASSUME NEW c \in Conns, deliver(c)
         PROVE  SlotInv'
    BY <1>10, <1>1, <1>3 DEF deliver, Goes, Stages, Unchecked
  <1>11. ASSUME NEW c \in Conns, release(c)
         PROVE  SlotInv'
    BY <1>11, <1>3 DEF release, Goes, Stages, Unchecked
  <1>12. ASSUME NEW c \in Conns, CloseTunnel(c)
         PROVE  SlotInv'
    BY <1>12, <1>2, <1>4 DEF CloseTunnel
  <1>13. ASSUME NEW c \in Conns, PeerCloses(c)
         PROVE  SlotInv'
    BY <1>13, <1>4 DEF PeerCloses, sockets
  <1>14. ASSUME NEW a \in Callers, CallAccept(a) \/ Accept(a)
         PROVE  SlotInv'
    BY <1>14, <1>4 DEF CallAccept, Accept, sockets
  <1>15. CASE acceptFails \/ Close \/ Refill
    BY <1>15, <1>4 DEF acceptFails, Close, Refill, sockets
  <1>16. CASE UNCHANGED vars
    BY <1>16, <1>4 DEF vars, sockets
  <1> QED
    BY <1>5, <1>6, <1>7, <1>8, <1>9, <1>10, <1>11, <1>12, <1>13, <1>14, <1>15, <1>16
       DEF Next, Goroutine

(* The slots taken for an address are exactly its open connections beyond  *)
(* the check.                                                              *)
THEOREM SlotsAreExact == Spec => []SlotsExact
  <1>1. Init => FlowInv /\ SlotInv
    <2> SUFFICES ASSUME Init PROVE FlowInv /\ SlotInv
      OBVIOUS
    <2>1. \A i \in IPs : Held(i) = {}
      BY DEF Init, Held
    <2>2. Counted
      BY <2>1, FS_EmptySet DEF Init, Counted
    <2>3. FlowInv /\ Carried
      BY SMT DEF Init, FlowInv, Types, Passed, Untouched, Carried, Stages, Unchecked
    <2> QED
      BY <2>2, <2>3 DEF SlotInv
  <1>2. FlowInv /\ SlotInv /\ [Next]_vars => FlowInv' /\ SlotInv'
    BY FlowStep, SlotStep
  <1>3. FlowInv /\ SlotInv => SlotsExact
    <2> SUFFICES ASSUME FlowInv, SlotInv, MaxPerIP > 0, NEW i \in IPs
                 PROVE  connections[i] =
                        Cardinality({c \in Conns : /\ IPOf[c] = i /\ c \in open
                                                   /\ stage[c] \notin {"new", "checkIP"}})
      BY DEF SlotsExact
    <2>1. Held(i) = {c \in Conns : /\ IPOf[c] = i /\ c \in open
                                   /\ stage[c] \notin {"new", "checkIP"}}
      BY DEF FlowInv, SlotInv, Types, Carried, Held, Unchecked
    <2> QED
      BY <2>1 DEF SlotInv, Counted
  <1> QED
    BY <1>1, <1>2, <1>3, PTL DEF Spec

-----------------------------------------------------------------------------
(* The owners of open connections *)

Working == {"checkIP", "createSession", "performHandshake", "handshake", "newTransport",
            "deliver"}

HasOwner(c) == stage[c] = "new" \/ c \in owned \/ Waiting(c) \/ stage[c] \in Working

(* NoOrphans says that an open connection has an owner.                    *)
LEMMA OwnersNoOrphans == NoOrphans <=> \A c \in open \ notified : HasOwner(c)
  BY DEF NoOrphans, HasOwner, InProgress, Working

(* A step of the goroutine of c that closes c, or leaves it at work, takes *)
(* no connection from its owner.                                           *)
LEMMA MoveKeepsOwners ==
    ASSUME FlowInv, \A d \in open \ notified : HasOwner(d), NEW c \in Conns, NEW s,
           stage' = [stage EXCEPT ![c] = s], UNCHANGED <<owned, notified, results>>,
           open' = open \ {c} \/ (open' = open /\ s \in Working)
    PROVE  \A d \in open' \ notified' : HasOwner(d)'
  <1> SUFFICES ASSUME NEW d \in open' \ notified'
               PROVE  HasOwner(d)'
    OBVIOUS
  <1>1. d \in open \ notified /\ d \in Conns
    BY DEF FlowInv, Types
  <1>2. Waiting(d)' <=> Waiting(d)
    BY DEF Waiting
  <1>3. CASE d = c
    BY <1>3 DEF HasOwner, FlowInv, Types
  <1>4. CASE d # c
    <2>1. stage'[d] = stage[d]
      BY <1>1, <1>4 DEF FlowInv, Types
    <2> QED
      BY <1>1, <1>2, <2>1 DEF HasOwner
  <1> QED
    BY <1>3, <1>4

(* No step takes an open connection from its owner without giving it to    *)
(* another: the queue of Accept, the application, or a close.              *)
LEMMA OwnerStep ==
    ASSUME FlowInv, \A d \in open \ notified : HasOwner(d), [Next]_vars
    PROVE  \A d \in open' \ notified' : HasOwner(d)'
  <1>1. ASSUME NEW c \in Conns, closeConn(c)
        PROVE  open' = open \ {c}
    BY <1>1 DEF closeConn
  <1>2. ASSUME UNCHANGED sockets
        PROVE  open' = open
    BY <1>2 DEF sockets
  <1>3. ASSUME UNCHANGED <<stage, open, owned, notified, results>>
        PROVE  \A d \in open' \ notified' : HasOwner(d)'
    BY <1>3 DEF HasOwner, Waiting
  <1>4. ASSUME NEW c \in Conns, acceptLoop(c)
        PROVE  \A d \in open' \ notified' : HasOwner(d)'
    BY <1>4, <1>1, <1>2, MoveKeepsOwners DEF acceptLoop, application, Working
  <1>5. ASSUME NEW c \in Conns, checkIPRateLimit(c)
        PROVE  \A d \in open' \ notified' : HasOwner(d)'
    BY <1>5, <1>1, MoveKeepsOwners DEF checkIPRateLimit, Fails, Goes, application, Working
  <1>6. ASSUME NEW c \in Conns, createSession(c)
        PROVE  \A d \in open' \ notified' : HasOwner(d)'
    BY <1>6, <1>1, <1>2, MoveKeepsOwners DEF createSession, Fails, Goes, application, Working
  <1>7. ASSUME NEW c \in Conns, performHandshake(c)
        PROVE  \A d \in open' \ notified' : HasOwner(d)'
    BY <1>7, <1>1, <1>2, MoveKeepsOwners DEF performHandshake, Fails, Goes, application, Working
  <1>8. ASSUME NEW c \in Conns, handshake(c)
        PROVE  \A d \in open' \ notified' : HasOwner(d)'
    BY <1>8, <1>1, <1>2, MoveKeepsOwners DEF handshake, Fails, Goes, application, Working
  <1>9. ASSUME NEW c \in Conns, deliver(c)
        PROVE  \A d \in open' \ notified' : HasOwner(d)'
    <2> DEFINE r == [conn |-> c, ok |-> stage[c] = "deliver"]
    <2>1. /\ stage[c] \in {"deliver", "deliverError"} /\ stage' = [stage EXCEPT ![c] = "release"]
          /\ owned' = owned /\ notified' = notified
      BY <1>9 DEF deliver, Goes, application
    <2>2. CASE results' = Append(results, r) /\ UNCHANGED sockets
      <3> SUFFICES ASSUME NEW d \in open' \ notified'
                   PROVE  HasOwner(d)'
        OBVIOUS
      <3>1. d \in open \ notified /\ d \in Conns
        BY <2>1, <2>2, <1>2 DEF FlowInv, Types
      <3>2. /\ \A n \in DOMAIN results : n \in DOMAIN results' /\ results'[n] = results[n]
            /\ \E n \in DOMAIN results' : results'[n] = r
        <4>1. r \in Results
          BY DEF Results
        <4>2. Len(results) + 1 \in DOMAIN results' /\ results'[Len(results) + 1] = r
          BY <2>2, <4>1, SMT DEF FlowInv, Types
        <4> QED
          BY <2>2, <4>1, <4>2, SMT DEF FlowInv, Types
      <3>3. Waiting(d) => Waiting(d)'
        BY <3>2 DEF Waiting
      <3>4. CASE d = c
        <4>1. CASE stage[c] = "deliver"
          <5>1. Waiting(c)'
            <6>1. r.conn = c /\ r.ok
              BY <4>1
            <6> HIDE DEF r
            <6>2. PICK n \in DOMAIN results' : results'[n] = r
              BY <3>2
            <6> QED
              BY <6>1, <6>2 DEF Waiting
          <5> QED
            BY <5>1, <3>4 DEF HasOwner
        <4>2. CASE stage[c] = "deliverError"
          <5>1. c \in owned \/ Waiting(c)
            BY <3>1, <3>4, <4>2 DEF HasOwner, Working
          <5> QED
            BY <5>1, <3>3, <3>4, <2>1 DEF HasOwner
        <4> QED
          BY <4>1, <4>2, <2>1
      <3>5. CASE d # c
        <4>1. stage'[d] = stage[d]
          BY <2>1, <3>1, <3>5 DEF FlowInv, Types
        <4> QED
          BY <4>1, <3>1, <3>3, <2>1 DEF HasOwner
      <3> QED
        BY <3>4, <3>5
    <2>3. CASE results' = results /\ stage[c] = "deliver" /\ closeConn(c)
      BY <2>1, <2>3, <1>1, MoveKeepsOwners
    <2>4. CASE results' = results /\ stage[c] = "deliverError" /\ UNCHANGED sockets
      <3> SUFFICES ASSUME NEW d \in open' \ notified'
                   PROVE  HasOwner(d)'
        OBVIOUS
      <3>1. d \in open \ notified /\ d \in Conns
        BY <2>1, <2>4, <1>2 DEF FlowInv, Types
      <3>2. Waiting(d) => Waiting(d)'
        BY <2>4 DEF Waiting
      <3>3. stage'[d] = stage[d] \/ (d = c /\ stage[d] = "deliverError")
        BY <2>1, <2>4, <3>1 DEF FlowInv, Types
      <3> QED
        BY <2>1, <3>1, <3>2, <3>3 DEF HasOwner, Working
    <2> QED
      BY <1>9, <2>2, <2>3, <2>4 DEF deliver
  <1>10. ASSUME NEW c \in Conns, release(c)
         PROVE  \A d \in open' \ notified' : HasOwner(d)'
    <2> SUFFICES ASSUME NEW d \in open' \ notified'
                 PROVE  HasOwner(d)'
      OBVIOUS
    <2>1. /\ stage[c] = "release" /\ stage' = [stage EXCEPT ![c] = "gone"]
          /\ owned' = owned /\ notified' = notified /\ open' = open /\ results' = results
      BY <1>10, <1>2 DEF release, Goes, application
    <2>2. d \in open \ notified /\ d \in Conns
      BY <2>1 DEF FlowInv, Types
    <2>3. Waiting(d) => Waiting(d)'
      BY <2>1 DEF Waiting
    <2>4. stage'[d] = stage[d] \/ stage[d] = "release"
      BY <2>1, <2>2 DEF FlowInv, Types
    <2> QED
      BY <2>1, <2>2, <2>3, <2>4 DEF HasOwner, Working
  <1>11. ASSUME NEW c \in Conns, CloseTunnel(c)
         PROVE  \A d \in open' \ notified' : HasOwner(d)'
    <2> SUFFICES ASSUME NEW d \in open' \ notified'
                 PROVE  HasOwner(d)'
      OBVIOUS
    <2>1. d \in open \ notified /\ d # c
      BY <1>11, <1>1, <1>2 DEF CloseTunnel
    <2>2. owned' = owned \ {c} /\ UNCHANGED <<stage, results>>
      BY <1>11 DEF CloseTunnel
    <2> QED
      BY <2>1, <2>2 DEF HasOwner, Waiting
  <1>12. ASSUME NEW c \in Conns, PeerCloses(c)
         PROVE  \A d \in open' \ notified' : HasOwner(d)'
    BY <1>12, <1>2 DEF PeerCloses, HasOwner, Waiting
  <1>13. ASSUME NEW a \in Callers, CallAccept(a)
         PROVE  \A d \in open' \ notified' : HasOwner(d)'
    BY <1>13, <1>2, <1>3 DEF CallAccept
  <1>14. ASSUME NEW a \in Callers, Accept(a)
         PROVE  \A d \in open' \ notified' : HasOwner(d)'
    <2>1. CASE results = << >>
      BY <1>14, <2>1, <1>2, <1>3 DEF Accept
    <2>2. CASE results # << >>
      <3> SUFFICES ASSUME NEW d \in open' \ notified'
                   PROVE  HasOwner(d)'
        OBVIOUS
      <3>1. /\ results' = Tail(results) /\ UNCHANGED <<stage, open, notified>>
            /\ owned' = IF Head(results).ok THEN owned \cup {Head(results).conn} ELSE owned
        BY <1>14, <2>2, <1>2 DEF Accept
      <3>2. \A n \in DOMAIN results :
               n = 1 \/ (n - 1 \in DOMAIN results' /\ results'[n - 1] = results[n])
        BY <2>2, <3>1, SMT DEF FlowInv, Types
      <3>3. Head(results) = results[1]
        BY <2>2, SMT DEF FlowInv, Types
      <3>4. Waiting(d) => Waiting(d)' \/ d \in owned'
        BY <3>1, <3>2, <3>3 DEF Waiting
      <3> QED
        BY <3>1, <3>4 DEF HasOwner
    <2> QED
      BY <2>1, <2>2
  <1>15. CASE acceptFails \/ Close \/ Refill
    BY <1>15, <1>2, <1>3 DEF acceptFails, Close, Refill, application
  <1>16. CASE UNCHANGED vars
    BY <1>16, <1>2, <1>3 DEF vars, application
  <1> QED
    BY <1>4, <1>5, <1>6, <1>7, <1>8, <1>9, <1>10, <1>11, <1>12, <1>13, <1>14, <1>15, <1>16
       DEF Next, Goroutine

(* A connection that is open belongs to its goroutine, to the queue of     *)
(* Accept or to the application, unless it heard its peer's close.         *)
THEOREM EveryConnectionOwned == Spec => []NoOrphans
  <1>1. Init => FlowInv /\ NoOrphans
    BY SMT DEF Init, FlowInv, Types, Passed, Untouched, Stages, Unchecked, NoOrphans
  <1>2. FlowInv /\ NoOrphans /\ [Next]_vars => FlowInv' /\ NoOrphans'
    <2> SUFFICES ASSUME FlowInv, NoOrphans, [Next]_vars
                 PROVE  FlowInv' /\ NoOrphans'
      OBVIOUS
    <2>1. \A d \in open' \ notified' : HasOwner(d)'
      BY OwnersNoOrphans, OwnerStep
    <2>2. NoOrphans'
      BY <2>1 DEF NoOrphans, HasOwner, InProgress, Working
    <2> QED
      BY <2>2, FlowStep
  <1> QED
    BY <1>1, <1>2, PTL DEF Spec
=============================================================================
