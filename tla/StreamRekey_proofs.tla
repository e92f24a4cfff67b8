------------------------- MODULE StreamRekey_proofs -------------------------
(***************************************************************************)
(* Writing and reading records, starting a rekey and handling its messages *)
(* keep the inductive invariant of an established stream tunnel.           *)
(***************************************************************************)
EXTENDS StreamSend_proofs

\* Zenon proves the leaves that do not name another prover.
USE Zenon

(* Writing, and starting a rekey *)

(* A frame is appended to what is in flight to p: one that is no message   *)
(* of a rekey changes nothing, one that is becomes the only message.       *)
LEMMA Arrives ==
    ASSUME Types, NEW p \in Peers, NEW f \in Frames,
           wire' = [wire EXCEPT ![p] = Append(@, f)]
    PROVE  /\ f.kind # "rekey" => SameWire
           /\ f.kind = "rekey" /\ RekeysOn(p) = {} => \E i \in Nat : RekeysOn(p)' = {i} /\ wire'[p][i] = f
           /\ \A q \in Peers : q # p => RekeysOn(q)' = RekeysOn(q)
  <1>1. wire[p] \in Seq(Frames) /\ wire'[p] = Append(wire[p], f)
        /\ \A q \in Peers : q # p => wire'[q] = wire[q]
    BY DEF Types, ConnTypes
  <1>2. /\ Len(wire'[p]) = Len(wire[p]) + 1 /\ Len(wire[p]) \in Nat
        /\ \A i \in 1 .. Len(wire[p]) : wire'[p][i] = wire[p][i]
        /\ wire'[p][Len(wire[p]) + 1] = f
    BY <1>1, SMT
  <1>3. 1 .. Len(wire'[p]) = (1 .. Len(wire[p])) \cup {Len(wire[p]) + 1}
    BY <1>2, SMT
  <1>4. \A q \in Peers : q # p => RekeysOn(q)' = RekeysOn(q)
    BY <1>1 DEF RekeysOn
  <1>5. f.kind # "rekey" => RekeysOn(p)' = RekeysOn(p) /\ \A i \in RekeysOn(p) : wire'[p][i] = wire[p][i]
    BY <1>2, <1>3 DEF RekeysOn
  <1>6. f.kind = "rekey" /\ RekeysOn(p) = {} => RekeysOn(p)' = {Len(wire[p]) + 1}
    BY <1>2, <1>3 DEF RekeysOn
  <1>7. f.kind # "rekey" => SameWire
    BY <1>1, <1>4, <1>5 DEF SameWire
  <1> QED
    BY <1>2, <1>4, <1>6, <1>7, SMT

(* The message of a rekey that t carries goes on the wire: it is the only  *)
(* one.                                                                    *)
LEMMA TransmitRekey ==
    ASSUME IInv, NEW t \in Threads, out[t].kind = "rekey", Alone(t), out'[t].kind = "data",
           pc'[t] \notin {"promote", "handleRekey"}, sess' = sess,
           wire' = [wire EXCEPT ![Peer(Owner(t))] = Append(@, out[t])]
    PROVE  TokenInv' /\ NoNews
  <1> DEFINE p == Owner(t)
             to == Peer(p)
  <1>1. /\ Types /\ TokenInv /\ Role(t) /\ Carries(t) /\ out[t] \in Frames
        /\ p \in Peers /\ to \in Peers /\ to # p
    BY ThreadFacts, PeerFacts DEF IInv, Safe, Types, ThreadTypes, Roles, Carries
  <1>2. /\ \A v \in Threads : v # t => ~Carries(v)
        /\ \A q \in Peers : RekeysOn(q) = {}
        /\ sess[Initiator].rekeyInProgress
    BY <1>1 DEF TokenInv
  <1>3. \A v \in Threads : ~Carries(v)'
    BY <1>2 DEF Carries, Alone, Stays, Handles
  <1>4. PICK i \in Nat : RekeysOn(to)' = {i} /\ wire'[to][i] = out[t]
    BY <1>1, <1>2, Arrives
  <1>5. \A q \in Peers : RekeysOn(q)' = {} \/ (q = to /\ RekeysOn(q)' = {i})
    <2>1. RekeysOn(p)' = {}
      BY <1>1, <1>2, Arrives
    <2> QED
      BY <1>1, <1>4, <2>1, PeerFacts
  <1>6. TokenInv'
    <2>1. sess'[Initiator].rekeyInProgress
      BY <1>2
    <2> QED
      BY <1>3, <1>5, <2>1, PeerFacts DEF TokenInv
  <1>7. \A v \in Threads : out'[v].kind # "rekey" /\ (v \in Peers => ~Handles(v)')
    BY <1>3 DEF Carries
  <1>8. ASSUME NEW kp \in Nat, NEW ct \in Nat, Answering(kp, ct)'
        PROVE  Answering(kp, ct)
    <2> \E j \in RekeysOn(Initiator)' : wire'[Initiator][j].kp = kp /\ wire'[Initiator][j].ct = ct
      BY <1>7, <1>8, PeerFacts DEF Answering
    <2>1. to = Initiator /\ out[t].kp = kp /\ out[t].ct = ct
      BY <1>4, <1>5, PeerFacts
    <2>2. t = Responder
      BY <1>1, <2>1, PeerFacts, ThreadFacts DEF Role
    <2> QED
      BY <2>1, <2>2 DEF Answering
  <1>9. ASSUME NEW kp \in Nat, Asking(kp)'
        PROVE  Asking(kp)
    <2> \E j \in RekeysOn(Responder)' : wire'[Responder][j].kp = kp
      BY <1>7, <1>9, PeerFacts, ThreadFacts DEF Asking
    <2>1. to = Responder /\ out[t].kp = kp
      BY <1>4, <1>5, PeerFacts
    <2>2. t \in InitiatorSenders
      BY <1>1, <2>1, PeerFacts DEF Role
    <2> QED
      BY <2>1, <2>2 DEF Asking
  <1> QED
    BY <1>6, <1>8, <1>9 DEF NoNews

(* A record is written, or its write fails.                                *)
LEMMA WriteKeeps ==
    ASSUME IInv, NEW t \in Threads, Write(t)
    PROVE  Safe' /\ NoNews
  <1> DEFINE to == Peer(Owner(t))
  <1>1. /\ Types /\ Roles /\ NonceInv /\ WearInv /\ TokenInv /\ FreshInv /\ Role(t)
        /\ pc[t] = "write" /\ out[t] \in Frames /\ to \in Peers
    BY ThreadFacts, PeerFacts DEF IInv, Safe, Roles, Write, Types, ThreadTypes
  <1>2. /\ UNCHANGED <<sess, kem, in, sealed, nonceReused>>
        /\ out' = [out EXCEPT ![t] = DataFrame] /\ Release(t)
        /\ \/ pc' = [pc EXCEPT ![t] = AfterWrite(t)]
           \/ pc' = [pc EXCEPT ![t] = "idle"]
        /\ \/ wire' = wire
           \/ wire' = [wire EXCEPT ![to] = Append(@, out[t])]
    BY DEF Write, Transmit, AfterFailedWrite, session, history
  <1>3. out'[t] = DataFrame /\ out'[t].kind = "data"
    BY <1>1, <1>2, FrameFields DEF Types, ThreadTypes
  <1>4. Alone(t)
    BY <1>1, <1>2, ThreadFacts DEF Release, Types, ThreadTypes, Alone, Stays
  <1>5. pc'[t] = "idle" \/ (pc'[t] = "check" /\ t \in InitiatorSenders)
        \/ (pc'[t] = "activate" /\ t = Responder)
    <2>1. t \in Peers => t = Responder
      BY <1>1, PeerFacts DEF Role
    <2>2. \/ AfterWrite(t) = "idle"
          \/ AfterWrite(t) = "check" /\ t \in InitiatorSenders
          \/ AfterWrite(t) = "activate" /\ t = Responder
      BY <2>1, SMT DEF AfterWrite
    <2> QED
      BY <1>1, <1>2, <2>2 DEF Types, ThreadTypes
  <1>6. Role(t)'
    BY <1>1, <1>3, <1>5, PeerFacts, ThreadFacts, SMT DEF Role
  <1>7. SameMessage(t) /\ SameKeys /\ pc'[t] \notin {"seal", "promote", "handleRekey"}
    BY <1>2, <1>3, <1>5 DEF SameMessage, SameKeys, Handles
  <1>8. CASE SameWire
    BY <1>4, <1>6, <1>7, <1>8, QuietKeeps
  <1>9. CASE out[t].kind = "rekey" /\ wire' = [wire EXCEPT ![to] = Append(@, out[t])]
    <2>1. TokenInv' /\ NoNews
      BY <1>2, <1>3, <1>4, <1>7, <1>9, TransmitRekey
    <2>2. NoSeal
      BY <1>4, <1>7 DEF SameKeys, NoSeal, Alone, Stays
    <2>3. NoSecret
      BY <1>7, <2>1 DEF SameKeys, NoSecret, NoNews
    <2> QED
      BY <1>1, <1>4, <1>6, <2>1, <2>2, <2>3, RolesKept, SealQuiet, FreshQuiet DEF Safe
  <1>10. wire' = wire => SameWire
    BY DEF SameWire, RekeysOn
  <1> QED
    BY <1>1, <1>2, <1>8, <1>9, <1>10, Arrives

\* InitiateRekey has made a key pair and a message.
Starts(t) ==
    /\ ~sess[Owner(t)].rekeyInProgress /\ kem' = kem + 1
    /\ sess' = [sess EXCEPT ![Owner(t)].rekeyInProgress = TRUE,
                            ![Owner(t)].pendingRekeyKeyPair = kem + 1,
                            ![Owner(t)].state = "Rekeying"]
    /\ out' = [out EXCEPT ![t] = RekeyFrame(kem + 1, 0)]
    /\ pc[t] = "initiate" /\ pc' = [pc EXCEPT ![t] = "encrypt"]
    /\ UNCHANGED <<writeMu, wire, in, sealed, nonceReused, closePc>>

(* It is a sender of the initiator, and its message is the only one.       *)
LEMMA StartsAlone ==
    ASSUME IInv, NEW t \in Threads, Starts(t)
    PROVE  /\ t \in InitiatorSenders /\ Owner(t) = Initiator /\ Alone(t)
           /\ pc'[t] = "encrypt" /\ out'[t].kind = "rekey"
           /\ \A v \in Threads : v # t => ~Carries(v)'
           /\ \A q \in Peers : RekeysOn(q)' = {}
           /\ \A kp, ct \in Nat : ~Answering(kp, ct)' /\ (Asking(kp)' => kp = kem + 1)
  <1>1. Types /\ TokenInv /\ Role(t) /\ pc[t] = "initiate" /\ kem + 1 \in Nat
    BY SMT DEF IInv, Safe, Roles, Starts, Types, SessionTypes
  <1>2. t \in InitiatorSenders /\ Owner(t) = Initiator /\ t # Initiator /\ t # Responder
    <2>1. t \in InitiatorSenders
      BY <1>1, PeerFacts, ThreadFacts DEF Role
    <2> QED
      BY <2>1, PeerFacts, ThreadFacts, SMT
  <1>3. /\ pc'[t] = "encrypt" /\ out'[t].kind = "rekey" /\ out'[t].kp = kem + 1
        /\ Alone(t) /\ in' = in
    BY <1>1, FrameFields, SMT DEF Types, ThreadTypes, Alone, Stays, Starts
  <1>4. /\ \A v \in Threads : ~Carries(v)
        /\ \A q \in Peers : RekeysOn(q) = {}
    BY <1>1, <1>2 DEF TokenInv, Starts
  <1>5. \A v \in Threads : v # t => ~Carries(v)'
    BY <1>3, <1>4 DEF Carries, Handles, Alone, Stays
  <1>6. \A q \in Peers : RekeysOn(q)' = {}
    BY <1>4 DEF RekeysOn, Starts
  <1>7. \A kp, ct \in Nat : ~Answering(kp, ct)'
    BY <1>2, <1>5, <1>6, PeerFacts DEF Answering, Carries
  <1>8. \A kp \in Nat : Asking(kp)' => kp = kem + 1
    <2>1. \A v \in InitiatorSenders : out'[v].kind = "rekey" => out'[v].kp = kem + 1
      BY <1>3, <1>5, ThreadFacts DEF Carries
    <2>2. ~Handles(Responder)' /\ RekeysOn(Responder)' = {}
      BY <1>2, <1>5, <1>6, PeerFacts DEF Carries
    <2> QED
      BY <2>1, <2>2 DEF Asking
  <1> QED
    BY <1>2, <1>3, <1>5, <1>6, <1>7, <1>8

(* A rekey is started, or was started meanwhile.                           *)
LEMMA InitiateKeeps ==
    ASSUME IInv, NEW t \in Threads, InitiateRekey(t)
    PROVE  Safe'
  <1>1. Types /\ Roles /\ NonceInv /\ WearInv /\ TokenInv /\ FreshInv /\ Role(t) /\ pc[t] = "initiate"
    BY DEF IInv, Safe, Roles, InitiateRekey
  <1>2. CASE UNCHANGED <<session, out>> /\ pc' = [pc EXCEPT ![t] = "idle"]
    BY <1>1, <1>2, MoveKeeps DEF InitiateRekey, session, history
  <1>3. CASE Starts(t)
    <2>1. /\ t \in InitiatorSenders /\ Owner(t) = Initiator /\ Alone(t)
          /\ pc'[t] = "encrypt" /\ out'[t].kind = "rekey"
          /\ \A v \in Threads : v # t => ~Carries(v)'
          /\ \A q \in Peers : RekeysOn(q)' = {}
          /\ \A kp, ct \in Nat : ~Answering(kp, ct)'
      BY <1>3, StartsAlone
    <2>2. UNCHANGED <<writeMu, wire, in, sealed, nonceReused>> /\ kem' = kem + 1
      BY <1>3 DEF Starts
    <2>3. /\ \A q \in Peers : /\ sess'[q].sendSeq = sess[q].sendSeq
                              /\ sess'[q].sendEpochStartSeq = sess[q].sendEpochStartSeq
                              /\ sess'[q].sendCipher = sess[q].sendCipher
                              /\ sess'[q].pendingSendCipher = sess[q].pendingSendCipher
          /\ sess'[Initiator].rekeyInProgress
      BY <1>1, <1>3, <2>1, PeerFacts, SMT DEF Types, SessionTypes, Sessions, Starts
    <2>4. Role(t)'
      BY <1>1, <2>1, PeerFacts, ThreadFacts DEF Role
    <2>5. NoSeal
      BY <2>1, <2>2, <2>3 DEF NoSeal, Alone, Stays
    <2>6. TokenInv'
      BY <2>1, <2>3, PeerFacts DEF TokenInv
    <2>7. NoSecret
      BY <2>1, <2>2, <2>3, PeerFacts DEF NoSecret
    <2> QED
      BY <1>1, <2>1, <2>4, <2>5, <2>6, <2>7, RolesKept, SealQuiet, FreshQuiet DEF Safe
  <1> QED
    BY <1>2, <1>3 DEF InitiateRekey, Starts, history
-----------------------------------------------------------------------------
(* Reading a record *)

(* Receive is called, or its read fails.                                   *)
LEMMA ReceiveKeeps ==
    ASSUME IInv, NEW p \in Peers, Receive(p) \/ ReadFails(p)
    PROVE  Safe' /\ NoNews
  <1>1. PICK l \in {"idle", "reading"} : pc' = [pc EXCEPT ![p] = l]
    BY DEF Receive, ReadFails
  <1>2. /\ pc[p] \in {"idle", "reading"} /\ p \in Threads
        /\ UNCHANGED <<sess, kem, writeMu, wire, out, in, sealed, nonceReused>>
    BY PeerFacts DEF Receive, ReadFails, session, history
  <1> QED
    BY <1>1, <1>2, MoveKeeps

(* The first frame in flight to p is taken.                                *)
LEMMA Departs ==
    ASSUME Types, NEW p \in Peers, wire[p] # << >>, wire' = [wire EXCEPT ![p] = Tail(@)]
    PROVE  /\ \A q \in Peers : q # p => RekeysOn(q)' = RekeysOn(q) /\ wire'[q] = wire[q]
           /\ \A i \in RekeysOn(p)' : /\ i \in Nat /\ i + 1 \in RekeysOn(p) /\ i + 1 # 1
                                      /\ wire'[p][i] = wire[p][i + 1]
           /\ Head(wire[p]) \in Frames /\ Head(wire[p]) = wire[p][1]
           /\ Head(wire[p]).kind = "rekey" => 1 \in RekeysOn(p)
  <1>1. /\ wire[p] \in Seq(Frames) /\ wire'[p] = Tail(wire[p])
        /\ \A q \in Peers : q # p => wire'[q] = wire[q]
    BY DEF Types, ConnTypes
  <1>2. /\ Len(wire[p]) \in Nat /\ Len(wire[p]) > 0 /\ Len(wire'[p]) = Len(wire[p]) - 1
        /\ \A i \in 1 .. Len(wire[p]) - 1 : wire'[p][i] = wire[p][i + 1]
        /\ Head(wire[p]) \in Frames /\ Head(wire[p]) = wire[p][1]
    <2>1. wire[p] \in Seq(Frames) /\ wire[p] # << >>
      BY <1>1
    <2>2. /\ Len(wire[p]) \in Nat /\ Len(wire[p]) > 0 /\ Len(Tail(wire[p])) = Len(wire[p]) - 1
          /\ \A i \in 1 .. Len(wire[p]) - 1 : Tail(wire[p])[i] = wire[p][i + 1]
          /\ Head(wire[p]) \in Frames /\ Head(wire[p]) = wire[p][1]
      BY <2>1, SMT
    <2> QED
      BY <1>1, <2>2
  <1>3. \A i \in RekeysOn(p)' : i \in Nat /\ i \in 1 .. Len(wire[p]) - 1 /\ wire'[p][i].kind = "rekey"
    BY <1>2, SMT DEF RekeysOn
  <1>4. \A i \in RekeysOn(p)' : /\ i \in Nat /\ i + 1 \in RekeysOn(p) /\ i + 1 # 1
                                /\ wire'[p][i] = wire[p][i + 1]
    BY <1>2, <1>3, SMT DEF RekeysOn
  <1>5. Head(wire[p]).kind = "rekey" => 1 \in RekeysOn(p)
    BY <1>2, SMT DEF RekeysOn
  <1>6. \A q \in Peers : q # p => RekeysOn(q)' = RekeysOn(q)
    BY <1>1 DEF RekeysOn
  <1> QED
    BY <1>1, <1>2, <1>4, <1>5, <1>6

\* The frames of a rekey in flight after a step were in flight before it, and so was what
\* p then handles.
Takes(p) ==
    /\ \A q \in Peers : \A i \in RekeysOn(q)' : \E j \in RekeysOn(q) : wire'[q][i] = wire[q][j]
    /\ Handles(p)' => \E j \in RekeysOn(p) : in'[p].kp = wire[p][j].kp /\ in'[p].ct = wire[p][j].ct

(* Moving a message from the wire to the receive loop brings nothing new.  *)
LEMMA TakesNoNews ==
    ASSUME NEW p \in Peers, Takes(p), Alone(p), out'[p] = out[p]
    PROVE  NoNews
  <1>1. \A v \in Threads : out'[v] = out[v]
    BY DEF Alone, Stays
  <1>2. \A q \in Peers : q # p => (Handles(q)' => Handles(q)) /\ in'[q] = in[q]
    BY PeerFacts DEF Alone, Stays, Handles
  <1>3. ASSUME NEW q \in Peers, Handles(q)'
        PROVE  \/ Handles(q) /\ in'[q] = in[q]
               \/ \E j \in RekeysOn(q) : in'[q].kp = wire[q][j].kp /\ in'[q].ct = wire[q][j].ct
    BY <1>2, <1>3 DEF Takes
  <1>4. ASSUME NEW kp \in Nat, Asking(kp)'
        PROVE  Asking(kp)
    <2>1. /\ \A i \in RekeysOn(Responder)' : \E j \in RekeysOn(Responder) : wire'[Responder][i] = wire[Responder][j]
          /\ Handles(Responder)' =>
                \/ Handles(Responder) /\ in'[Responder] = in[Responder]
                \/ \E j \in RekeysOn(Responder) : in'[Responder].kp = wire[Responder][j].kp
      BY <1>3, PeerFacts DEF Takes
    <2>2. \A t \in InitiatorSenders : out'[t] = out[t]
      BY <1>1, ThreadFacts
    <2> QED
      BY <1>4, <2>1, <2>2 DEF Asking
  <1>5. ASSUME NEW kp \in Nat, NEW ct \in Nat, Answering(kp, ct)'
        PROVE  Answering(kp, ct)
    <2>1. /\ \A i \in RekeysOn(Initiator)' : \E j \in RekeysOn(Initiator) : wire'[Initiator][i] = wire[Initiator][j]
          /\ Handles(Initiator)' =>
                \/ Handles(Initiator) /\ in'[Initiator] = in[Initiator]
                \/ \E j \in RekeysOn(Initiator) : /\ in'[Initiator].kp = wire[Initiator][j].kp
                                                  /\ in'[Initiator].ct = wire[Initiator][j].ct
      BY <1>3, PeerFacts DEF Takes
    <2>2. out'[Responder] = out[Responder]
      BY <1>1, PeerFacts
    <2> QED
      BY <1>5, <2>1, <2>2 DEF Answering
  <1> QED
    BY <1>4, <1>5 DEF NoNews

(* A record is read: the message of a rekey goes from the wire to p.       *)
LEMMA ReadKeeps ==
    ASSUME IInv, NEW p \in Peers, ReadMessage(p)
    PROVE  Safe' /\ NoNews
  <1> DEFINE frame == Head(wire[p])
  <1>1. /\ Types /\ Roles /\ NonceInv /\ WearInv /\ TokenInv /\ FreshInv /\ Role(p)
        /\ p \in Threads /\ pc[p] = "reading"
    BY PeerFacts DEF IInv, Safe, Roles, ReadMessage
  <1>2. /\ UNCHANGED <<sess, kem, writeMu, out, sealed, nonceReused>>
        /\ wire[p] # << >> /\ wire' = [wire EXCEPT ![p] = Tail(@)]
        /\ in' = [in EXCEPT ![p] = IF frame.kind = "rekey" THEN RekeyFrame(frame.kp, frame.ct) ELSE DataFrame]
        /\ \E l \in {"idle", "promote", Handling(frame)} : pc' = [pc EXCEPT ![p] = l]
    BY DEF ReadMessage, Decrypt, session
  <1>3. /\ \A q \in Peers : q # p => RekeysOn(q)' = RekeysOn(q) /\ wire'[q] = wire[q]
        /\ \A i \in RekeysOn(p)' : /\ i \in Nat /\ i + 1 \in RekeysOn(p) /\ i + 1 # 1
                                   /\ wire'[p][i] = wire[p][i + 1]
        /\ frame \in Frames /\ frame = wire[p][1]
        /\ frame.kind = "rekey" => 1 \in RekeysOn(p)
    BY <1>1, <1>2, Departs
  <1> HIDE DEF frame
  <1>4. /\ in'[p].kind = "rekey" <=> frame.kind = "rekey"
        /\ frame.kind = "rekey" => in'[p].kp = frame.kp /\ in'[p].ct = frame.ct
    <2>1. in'[p] = IF frame.kind = "rekey" THEN RekeyFrame(frame.kp, frame.ct) ELSE DataFrame
      BY <1>1, <1>2 DEF Types, ThreadTypes
    <2>2. frame.kp \in Nat /\ frame.ct \in Nat
      BY <1>3 DEF Frames
    <2> QED
      BY <2>1, <2>2, FrameFields, SMT
  <1>5. /\ Alone(p)
        /\ pc'[p] \in {"idle", "promote"} \/ (pc'[p] = "handleRekey" /\ frame.kind = "rekey")
    BY <1>1, <1>2 DEF Handling, Types, ThreadTypes, Alone, Stays
  <1>6. Role(p)'
    BY <1>1, <1>2, <1>4, <1>5, PeerFacts, ThreadFacts DEF Role
  <1>7. NoSeal
    BY <1>2, <1>5 DEF NoSeal, Alone, Stays
  <1>8. Takes(p)
    <2>1. Handles(p)' => frame.kind = "rekey"
      BY <1>4 DEF Handles
    <2>2. \A q \in Peers : q # p => \A i \in RekeysOn(q)' : i \in RekeysOn(q) /\ wire'[q][i] = wire[q][i]
      BY <1>3
    <2>3. \A i \in RekeysOn(p)' : \E j \in RekeysOn(p) : wire'[p][i] = wire[p][j]
      BY <1>3
    <2>4. \A q \in Peers : \A i \in RekeysOn(q)' : \E j \in RekeysOn(q) : wire'[q][i] = wire[q][j]
      BY <2>2, <2>3
    <2>5. Handles(p)' => \E j \in RekeysOn(p) : in'[p].kp = wire[p][j].kp /\ in'[p].ct = wire[p][j].ct
      BY <1>3, <1>4, <2>1
    <2> QED
      BY <2>4, <2>5 DEF Takes
  <1>9. NoNews
    BY <1>2, <1>5, <1>8, TakesNoNews
  <1>10. /\ \A v \in Threads : Carries(v)' => Carries(v) \/ (v = p /\ frame.kind = "rekey")
    BY <1>2, <1>4, <1>5 DEF Carries, Handles, Alone, Stays
  <1>11. TokenInv'
    <2>1. CASE frame.kind = "rekey"
      <3>1. /\ \A v \in Threads : ~Carries(v)
            /\ \A i \in RekeysOn(p) : i = 1
            /\ \A q \in Peers : q # p => RekeysOn(q) = {}
            /\ sess[Initiator].rekeyInProgress
        BY <1>1, <1>3, <2>1, PeerFacts, SMT DEF TokenInv
      <3>2. \A q \in Peers : RekeysOn(q)' = {}
        BY <1>3, <3>1
      <3>3. \A v \in Threads : Carries(v)' => v = p
        BY <1>10, <3>1
      <3>4. sess'[Initiator].rekeyInProgress
        BY <1>2, <3>1
      <3> QED
        BY <3>2, <3>3, <3>4, PeerFacts DEF TokenInv
    <2>2. CASE frame.kind # "rekey"
      <3>1. \A v \in Threads : Carries(v)' => Carries(v)
        BY <1>10, <2>2
      <3>2. /\ \A q \in Peers : RekeysOn(q) = {} => RekeysOn(q)' = {}
            /\ \A q \in Peers : \A i, j \in RekeysOn(q)' : i = j
        BY <1>1, <1>3, SMT DEF TokenInv
      <3>3. sess'[Initiator].rekeyInProgress = sess[Initiator].rekeyInProgress
        BY <1>2
      <3> QED
        BY <1>1, <3>1, <3>2, <3>3, PeerFacts DEF TokenInv
    <2> QED
      BY <2>1, <2>2
  <1>12. NoSecret
    BY <1>2, <1>9 DEF NoSecret, NoNews
  <1> QED
    BY <1>1, <1>5, <1>6, <1>7, <1>9, <1>11, <1>12, RolesKept, SealQuiet, FreshQuiet DEF Safe

(* The pending receive cipher is promoted.                                 *)
LEMMA PromoteKeeps ==
    ASSUME IInv, NEW p \in Peers, promotePendingRecvCipher(p)
    PROVE  Safe' /\ NoNews
  <1>1. Types /\ Role(p) /\ p \in Threads /\ pc[p] = "promote"
    BY PeerFacts DEF IInv, Safe, Roles, promotePendingRecvCipher
  <1>2. /\ UNCHANGED <<kem, writeMu, wire, out, in, sealed, nonceReused>>
        /\ pc' = [pc EXCEPT ![p] = Handling(in[p])]
    BY DEF promotePendingRecvCipher, history
  <1>3. /\ Alone(p) /\ pc'[p] \in {"idle", "handleRekey"}
        /\ pc'[p] = "handleRekey" => in[p].kind = "rekey"
    BY <1>1, <1>2 DEF Handling, Types, ThreadTypes, Alone, Stays
  <1>4. \A q \in Peers : /\ sess'[q].sendSeq = sess[q].sendSeq
                         /\ sess'[q].sendEpochStartSeq = sess[q].sendEpochStartSeq
                         /\ sess'[q].sendCipher = sess[q].sendCipher
                         /\ sess'[q].pendingSendCipher = sess[q].pendingSendCipher
                         /\ sess'[q].rekeyInProgress = sess[q].rekeyInProgress
    BY <1>1 DEF promotePendingRecvCipher, Types, SessionTypes, Sessions
  <1>5. SameKeys
    BY <1>2, <1>4, PeerFacts DEF SameKeys
  <1>6. Role(p)'
    BY <1>1, <1>2, <1>3, PeerFacts, ThreadFacts DEF Role
  <1>7. SameMessage(p) /\ SameWire
    BY <1>1, <1>2, <1>3 DEF SameMessage, Handles, SameWire, RekeysOn
  <1> QED
    BY <1>1, <1>3, <1>5, <1>6, <1>7, QuietKeeps
-----------------------------------------------------------------------------
(* Handling the message of a rekey *)

(* A key with one more secret in it.                                       *)
LEMMA ExtendedKey ==
    ASSUME NEW k \in Keys, NEW c \in Nat
    PROVE  Append(k, c) \in Keys /\ Last(Append(k, c)) = c /\ Append(k, c) # nil
  BY SMT DEF Last, Keys, nil

\* p switches to a key it has not used, while at most one of its goroutines holds a number
\* it drew before.
Switches(p) ==
    /\ UNCHANGED <<sealed, nonceReused>>
    /\ \A q \in Peers : sess'[q].sendSeq = sess[q].sendSeq
    /\ \A q \in Peers : q # p => /\ sess'[q].sendEpochStartSeq = sess[q].sendEpochStartSeq
                                 /\ sess'[q].sendCipher = sess[q].sendCipher
    /\ sess'[p].sendEpochStartSeq = sess[p].sendSeq
    /\ \A u \in sealed : u.peer = p => u.key # sess'[p].sendCipher
    /\ \A t \in Threads : pc'[t] = "seal" => pc[t] = "seal" /\ out'[t] = out[t]
    /\ \A t, v \in Threads : pc[t] = "seal" /\ pc[v] = "seal" /\ Owner(t) = p /\ Owner(v) = p => t = v

(* Such a switch keeps the numbers and the wear of the keys.               *)
LEMMA SwitchKeeps ==
    ASSUME Types, NonceInv, WearInv, NEW p \in Peers, Switches(p)
    PROVE  NonceInv' /\ WearInv'
  <1>1. /\ \A t \in Threads : Owner(t) \in Peers
        /\ \A u \in sealed : u.peer \in Peers
        /\ \A q \in Peers : sess[q].sendSeq \in Nat
        /\ sealed' = sealed
    BY ThreadFacts DEF Types, SessionTypes, Sessions, Switches
  <1>2. NonceInv'
    BY <1>1, SMT DEF NonceInv, Switches
  <1>3. \A u \in sealed' : StaleUse(u)' => StaleUse(u) /\ u.peer # p
    BY <1>1 DEF StaleUse, Switches
  <1>4. \A t \in Threads : StaleDraw(t)' => pc[t] = "seal" /\ (Owner(t) # p => StaleDraw(t))
    BY <1>1 DEF StaleDraw, Switches
  <1>5. \A t, v \in Threads : StaleDraw(t)' /\ StaleDraw(v)' /\ Owner(t) = Owner(v) => t = v
    BY <1>4 DEF WearInv, Switches
  <1>6. \A t \in Threads, u \in sealed' : StaleDraw(t)' /\ StaleUse(u)' => u.peer # Owner(t)
    BY <1>1, <1>3, <1>4 DEF WearInv
  <1>7. /\ \A q \in Peers : sess'[q].sendEpochStartSeq <= sess'[q].sendSeq
        /\ \A u \in sealed' : u.key = sess'[u.peer].sendCipher
                               => u.seq < sess'[u.peer].sendEpochStartSeq + MaxPackets
    BY <1>1, SMT DEF WearInv, Switches
  <1> QED
    BY <1>1, <1>2, <1>3, <1>5, <1>6, <1>7 DEF WearInv

\* A step of p's receive loop that handles the only message under way.
Handled(p) ==
    /\ Handles(p) /\ pc[p] = "handleRekey" /\ in'[p].kind = "data" /\ Alone(p)
    /\ UNCHANGED <<writeMu, wire, sealed, nonceReused>>
    /\ sess[Initiator].rekeyInProgress
    /\ \A t \in Threads : out[t].kind = "data"
    /\ \A q \in Peers : RekeysOn(q)' = {}
    /\ \A v \in Threads : v # p => ~Carries(v)'

(* handleRekey is such a step.                                             *)
LEMMA HandlesOnly ==
    ASSUME IInv, NEW p \in Peers, HandleRekey(p)
    PROVE  Handled(p)
  <1>1. /\ Types /\ Roles /\ TokenInv /\ Role(p) /\ p \in Threads /\ pc[p] = "handleRekey"
        /\ DataFrame.kind = "data"
    BY PeerFacts, FrameFields DEF IInv, Safe, Roles, HandleRekey
  <1>2. Handles(p) /\ Carries(p) /\ out[p].kind = "data"
    BY <1>1 DEF Handles, Carries, Role
  <1>3. /\ \A v \in Threads : v # p => ~Carries(v)
        /\ \A q \in Peers : RekeysOn(q) = {}
        /\ sess[Initiator].rekeyInProgress
    BY <1>1, <1>2 DEF TokenInv
  <1>4. \A t \in Threads : out[t].kind = "data"
    BY <1>1, <1>2, <1>3 DEF Roles, Role, Carries
  <1>5. /\ UNCHANGED <<writeMu, wire, sealed, nonceReused>>
        /\ in' = [in EXCEPT ![p] = DataFrame]
        /\ \E l \in {"idle", "encrypt"} : pc' = [pc EXCEPT ![p] = l]
        /\ out' = out \/ out' = [out EXCEPT ![p] = RekeyFrame(in[p].kp, kem + 1)]
    BY DEF HandleRekey, PrepareRekeyResponse, ProcessRekeyResponse, history
  <1>6. Alone(p) /\ in'[p].kind = "data"
    BY <1>1, <1>5 DEF Types, ThreadTypes, Alone, Stays
  <1>7. \A v \in Threads : v # p => ~Carries(v)'
    BY <1>3, <1>6, SMT DEF Alone, Stays, Carries, Handles
  <1>8. \A q \in Peers : RekeysOn(q)' = {}
    BY <1>3, <1>5 DEF RekeysOn
  <1> QED
    BY <1>1, <1>2, <1>3, <1>4, <1>5, <1>6, <1>7, <1>8 DEF Handled

(* A rekey message is ignored or refused.                                  *)
LEMMA IgnoreKeeps ==
    ASSUME IInv, NEW p \in Peers, HandleRekey(p), UNCHANGED <<session, out>>,
           pc' = [pc EXCEPT ![p] = "idle"]
    PROVE  Safe' /\ NoNews
  <1>1. Types /\ Role(p) /\ p \in Threads /\ Handled(p)
    BY HandlesOnly, PeerFacts DEF IInv, Safe, Roles
  <1>2. pc'[p] = "idle" /\ UNCHANGED <<sess, kem, out>>
    BY <1>1 DEF Types, ThreadTypes, session
  <1>3. Role(p)'
    BY <1>1, <1>2, PeerFacts DEF Role, Handled
  <1>4. SameKeys
    BY <1>1, <1>2 DEF SameKeys, Handled
  <1>5. SameMessage(p) /\ SameWire
    BY <1>1, <1>2 DEF SameMessage, SameWire, RekeysOn, Handles, Handled
  <1> QED
    BY <1>1, <1>2, <1>3, <1>4, <1>5, QuietKeeps DEF Handled

\* The responder extends its master secret with newSecret.
Prepares(newSecret) ==
    /\ newSecret = Append(sess[Responder].masterSecret, kem + 1) /\ kem' = kem + 1
    /\ sess' = [sess EXCEPT ![Responder] = PendingResponse(sess[Responder], newSecret)]
    /\ out' = [out EXCEPT ![Responder] = RekeyFrame(in[Responder].kp, kem + 1)]
    /\ pc' = [pc EXCEPT ![Responder] = "encrypt"]

(* The responder prepares its response.                                    *)
LEMMA PrepareKeeps ==
    ASSUME IInv, HandleRekey(Responder), NEW newSecret, Prepares(newSecret)
    PROVE  Safe'
  <1> DEFINE p == Responder
  <1>1. Types /\ Roles /\ NonceInv /\ WearInv /\ TokenInv /\ FreshInv /\ Role(p) /\ Handled(p)
    BY HandlesOnly, PeerFacts DEF IInv, Safe, Roles
  <1>2. /\ kem \in Nat /\ kem + 1 \in Nat /\ kem' = kem + 1 /\ in[p].kp \in Nat
        /\ newSecret \in Keys /\ Last(newSecret) = kem + 1 /\ newSecret # nil
    <2>1. kem \in Nat /\ kem + 1 \in Nat /\ sess[p].masterSecret \in Keys /\ in[p].kp \in Nat
      BY <1>1, PeerFacts, SMT DEF Types, SessionTypes, Sessions, ThreadTypes, Frames
    <2> QED
      BY <2>1, ExtendedKey DEF Prepares
  <1>3. pc'[p] = "encrypt" /\ out'[p].kind = "rekey" /\ out'[p].ct = kem + 1
    BY <1>1, <1>2, PeerFacts, FrameFields, SMT DEF Types, ThreadTypes, Prepares
  <1>4. /\ \A q \in Peers : /\ sess'[q].sendSeq = sess[q].sendSeq
                            /\ sess'[q].sendEpochStartSeq = sess[q].sendEpochStartSeq
                            /\ sess'[q].sendCipher = sess[q].sendCipher
        /\ sess'[Initiator] = sess[Initiator]
        /\ sess'[p].pendingSendCipher = newSecret
    BY <1>1, PeerFacts, SMT DEF Types, SessionTypes, Sessions, Prepares, PendingResponse
  <1>5. Role(p)'
    BY <1>1, <1>3, PeerFacts, ThreadFacts DEF Role, Handled
  <1>6. NoSeal
    BY <1>1, <1>3, <1>4 DEF NoSeal, Handled, Alone, Stays
  <1>7. TokenInv'
    <2>1. sess'[Initiator].rekeyInProgress
      BY <1>1, <1>4 DEF Handled
    <2> QED
      BY <1>1, <2>1, PeerFacts DEF TokenInv, Handled
  <1>8. \A kp, ct \in Nat : Answering(kp, ct)' => ct = kem + 1
    <2>1. ~Carries(Initiator)' /\ RekeysOn(Initiator)' = {}
      BY <1>1, PeerFacts DEF Handled
    <2> QED
      BY <1>3, <2>1, PeerFacts DEF Answering, Carries
  <1>9. \A q \in Peers : Unused(q, kem + 1) /\ Unused(q, kem + 1 + 1)
    BY <1>1, <1>2, LaterUnused, SMT DEF FreshInv
  <1>10. ASSUME NEW q \in Peers, NEW c, Unused(q, c)
         PROVE  /\ sess'[q].sendCipher # nil => Last(sess'[q].sendCipher) < c
                /\ \A u \in sealed' : u.peer = q => Last(u.key) < c
    BY <1>1, <1>4, <1>10 DEF Unused, Handled
  <1>11. FreshInv'
    <2>1. \A q \in Peers : Unused(q, kem + 1)'
      BY <1>2, <1>9, <1>10 DEF Unused
    <2>2. ASSUME NEW kp \in Nat, NEW ct \in Nat, Answering(kp, ct)'
          PROVE  Unused(Initiator, ct)' /\ ct <= kem'
      <3>1. ct = kem + 1 /\ Unused(Initiator, ct)
        BY <1>8, <1>9, <2>2, PeerFacts
      <3>2. Unused(Initiator, ct)'
        BY <1>10, <3>1, PeerFacts DEF Unused
      <3> QED
        BY <1>2, <3>1, <3>2, SMT
    <2>3. /\ Last(sess'[p].pendingSendCipher) <= kem'
          /\ Unused(p, Last(sess[p].pendingSendCipher))'
      <3>1. Last(sess'[p].pendingSendCipher) = kem + 1 /\ Unused(p, kem + 1)
        BY <1>2, <1>4, <1>9, PeerFacts
      <3>2. /\ sess'[p].sendCipher # nil => Last(sess'[p].sendCipher) < kem + 1
            /\ \A u \in sealed' : u.peer = p => Last(u.key) < kem + 1
        BY <1>10, <3>1, PeerFacts
      <3>3. Unused(p, Last(sess[p].pendingSendCipher))'
        BY <3>1, <3>2 DEF Unused
      <3> QED
        BY <1>2, <3>1, <3>3, SMT
    <2> QED
      BY <2>1, <2>2, <2>3 DEF FreshInv
  <1> QED
    BY <1>1, <1>5, <1>6, <1>7, <1>11, RolesKept, SealQuiet, PeerFacts DEF Safe, Handled

\* The session ProcessRekeyResponse leaves, with the new secret.
Processed(s, newSecret) ==
    finalizeRekeyStateLocked([s EXCEPT !.sendCipher = newSecret,
                                       !.sendEpochStartSeq = s.sendSeq,
                                       !.pendingRecvCipher = newSecret,
                                       !.pendingRekeySecret = newSecret,
                                       !.pendingRekeyKeyPair = 0])

(* Its fields.                                                             *)
LEMMA ProcessedFields ==
    ASSUME NEW s \in Sessions, NEW newSecret \in Keys, newSecret # nil
    PROVE  LET z == Processed(s, newSecret)
           IN  /\ z.sendSeq = s.sendSeq /\ z.sendEpochStartSeq = s.sendSeq
               /\ z.sendCipher = newSecret /\ z.masterSecret = newSecret
               /\ z.pendingRecvCipher = newSecret /\ z.pendingRekeySecret = nil
               /\ z.pendingSendCipher = s.pendingSendCipher
               /\ ~z.rekeyInProgress /\ z.state = "Established"
  BY DEF Processed, finalizeRekeyStateLocked, Sessions

\* The initiator extends its master secret with the secret c, which gives newSecret.
Processes(c, newSecret) ==
    /\ c = Decapsulate(sess[Initiator].pendingRekeyKeyPair, in[Initiator])
    /\ newSecret = Append(sess[Initiator].masterSecret, c)
    /\ kem' = IF in[Initiator].kp = sess[Initiator].pendingRekeyKeyPair THEN kem ELSE kem + 1
    /\ sess' = [sess EXCEPT ![Initiator] = Processed(sess[Initiator], newSecret)]
    /\ UNCHANGED out /\ pc' = [pc EXCEPT ![Initiator] = "idle"]

(* The secret is a number.                                                 *)
LEMMA ResponseSecret ==
    ASSUME Types, NEW c, NEW newSecret, Processes(c, newSecret)
    PROVE  c \in Nat
  <1>1. in[Initiator].ct \in Nat /\ kem + 1 \in Nat
    BY PeerFacts, SMT DEF Types, SessionTypes, ThreadTypes, Frames
  <1> QED
    BY <1>1 DEF Decapsulate, Processes

(* The secret of a response is one the initiator has not used.             *)
LEMMA ResponseFresh ==
    ASSUME Types, FreshInv, Handles(Initiator), NEW c \in Nat, NEW newSecret, Processes(c, newSecret)
    PROVE  Unused(Initiator, c) /\ c <= kem' /\ kem' \in {kem, kem + 1}
  <1> DEFINE p == Initiator
  <1>1. kem \in Nat /\ in[p].kp \in Nat
    BY PeerFacts DEF Types, SessionTypes, ThreadTypes, Frames
  <1>2. CASE in[p].kp = sess[p].pendingRekeyKeyPair
    <2>1. c = in[p].ct /\ kem' = kem
      BY <1>2 DEF Decapsulate, Processes
    <2>2. Answering(in[p].kp, c)
      BY <2>1 DEF Answering
    <2> QED
      BY <1>1, <2>1, <2>2 DEF FreshInv
  <1>3. CASE in[p].kp # sess[p].pendingRekeyKeyPair
    <2>1. c = kem + 1 /\ kem' = kem + 1
      BY <1>3 DEF Decapsulate, Processes
    <2> QED
      BY <1>1, <2>1, PeerFacts, SMT DEF FreshInv
  <1> QED
    BY <1>2, <1>3

(* The initiator processes the response and switches its keys.             *)
LEMMA ProcessKeeps ==
    ASSUME IInv, HandleRekey(Initiator), NEW c \in Nat, NEW newSecret, Processes(c, newSecret)
    PROVE  Safe' /\ NoNews
  <1> DEFINE p == Initiator
  <1>1. Types /\ Roles /\ NonceInv /\ WearInv /\ TokenInv /\ FreshInv /\ Role(p) /\ Handled(p)
    BY HandlesOnly, PeerFacts DEF IInv, Safe, Roles
  <1>2. newSecret \in Keys /\ newSecret # nil /\ Last(newSecret) = c
    <2>1. sess[p].masterSecret \in Keys
      BY <1>1, PeerFacts DEF Types, SessionTypes, Sessions
    <2> QED
      BY <2>1, ExtendedKey DEF Processes
  <1>3. /\ sess'[p].sendSeq = sess[p].sendSeq /\ sess'[p].sendEpochStartSeq = sess[p].sendSeq
        /\ sess'[p].sendCipher = newSecret /\ ~sess'[p].rekeyInProgress
        /\ \A q \in Peers : q # p => sess'[q] = sess[q]
    <2>1. sess[p] \in Sessions /\ sess'[p] = Processed(sess[p], newSecret)
          /\ \A q \in Peers : q # p => sess'[q] = sess[q]
      BY <1>1, PeerFacts DEF Types, SessionTypes, Processes
    <2> QED
      BY <1>2, <2>1, ProcessedFields, SMT
  <1>4. Unused(p, c) /\ c <= kem' /\ kem' \in {kem, kem + 1}
    BY <1>1, ResponseFresh DEF Handled
  <1>5. /\ kem \in Nat /\ kem' \in Nat /\ kem <= kem'
        /\ kem + 1 \in Nat /\ kem' + 1 \in Nat /\ kem + 1 <= kem' + 1
    <2>1. kem \in Nat
      BY <1>1 DEF Types, SessionTypes
    <2>2. kem' = kem \/ kem' = kem + 1
      BY <1>4
    <2> QED
      BY <2>1, <2>2, SMT
  <1>6. pc'[p] = "idle" /\ out' = out
    BY <1>1, PeerFacts DEF Types, ThreadTypes, Processes
  <1>7. Role(p)'
    BY <1>1, <1>6, PeerFacts DEF Role, Handled
  <1>8. /\ \A t \in Threads : ~Carries(t)'
        /\ \A q \in Peers : RekeysOn(q)' = {}
    BY <1>1, <1>6 DEF Carries, Handled, Handles
  <1>9. TokenInv'
    BY <1>8, PeerFacts DEF TokenInv
  <1>10. \A kp, ct \in Nat : ~Asking(kp)' /\ ~Answering(kp, ct)'
    BY <1>8, PeerFacts, ThreadFacts DEF Asking, Answering, Carries
  <1>11. Switches(p)
    <2>1. \A u \in sealed : u.peer = p => u.key # newSecret
      BY <1>2, <1>4, SMT DEF Unused
    <2>2. \A t \in Threads : pc[t] = "seal" /\ Owner(t) = p => writeMu[p] = t
      BY <1>1, SMT DEF Roles, Role, Handled
    <2>3. \A t \in Threads : pc'[t] = "seal" => pc[t] = "seal" /\ out'[t] = out[t]
      BY <1>1, <1>6 DEF Handled, Alone, Stays
    <2> QED
      BY <1>1, <1>3, <2>1, <2>2, <2>3 DEF Switches, Handled
  <1>12. FreshInv'
    <2>1. \A q \in Peers : Unused(q, kem' + 1)
      BY <1>1, <1>5, LaterUnused DEF FreshInv
    <2>2. sealed' = sealed
      BY <1>1 DEF Handled
    <2>3. ASSUME NEW q \in Peers
          PROVE  Unused(q, kem + 1)'
      <3>1. sess'[q].sendCipher = newSecret \/ sess'[q] = sess[q]
        BY <1>3
      <3>2. sess'[q].sendCipher # nil => Last(sess'[q].sendCipher) < kem' + 1
        BY <1>2, <1>4, <1>5, <2>1, <3>1, SMT DEF Unused
      <3>3. \A u \in sealed' : u.peer = q => Last(u.key) < kem' + 1
        BY <2>1, <2>2 DEF Unused
      <3> QED
        BY <3>2, <3>3 DEF Unused
    <2>4. ASSUME sess'[Responder].pendingSendCipher # nil
          PROVE  /\ Last(sess'[Responder].pendingSendCipher) <= kem'
                 /\ Unused(Responder, Last(sess[Responder].pendingSendCipher))'
      <3>1. sess'[Responder] = sess[Responder]
        BY <1>3, PeerFacts
      <3>2. /\ Last(sess[Responder].pendingSendCipher) \in Nat
            /\ Last(sess[Responder].pendingSendCipher) <= kem
            /\ Unused(Responder, Last(sess[Responder].pendingSendCipher))
        BY <1>1, <2>4, <3>1, PendingSecret DEF FreshInv
      <3>3. Last(sess[Responder].pendingSendCipher) <= kem'
        BY <1>5, <3>2, SMT
      <3> QED
        BY <2>2, <3>1, <3>2, <3>3 DEF Unused
    <2> QED
      BY <1>10, <2>3, <2>4 DEF FreshInv
  <1> QED
    BY <1>1, <1>7, <1>9, <1>10, <1>11, <1>12, RolesKept, SwitchKeeps, PeerFacts DEF Safe, NoNews, Handled

(* A rekey message is handled.                                             *)
LEMMA HandleKeeps ==
    ASSUME IInv, NEW p \in Peers, HandleRekey(p)
    PROVE  Safe'
  <1>1. CASE UNCHANGED <<session, out>> /\ pc' = [pc EXCEPT ![p] = "idle"]
    BY <1>1, IgnoreKeeps
  <1>2. CASE p = Responder /\ \E newSecret : Prepares(newSecret)
    BY <1>2, PrepareKeeps
  <1>3. CASE p = Initiator /\ \E c, newSecret : Processes(c, newSecret)
    <2>1. PICK c, newSecret : Processes(c, newSecret)
      BY <1>3
    <2>2. c \in Nat
      BY <2>1, ResponseSecret DEF IInv
    <2> QED
      BY <1>3, <2>1, <2>2, ProcessKeeps
  <1> QED
    BY <1>1, <1>2, <1>3
       DEF HandleRekey, PrepareRekeyResponse, ProcessRekeyResponse, Prepares, Processes, Processed
-----------------------------------------------------------------------------
(* Completing a rekey, and closing *)

(* The responder switches its send cipher.                                 *)
LEMMA ActivateKeeps ==
    ASSUME IInv, NEW p \in Peers, ActivateRekeySend(p)
    PROVE  Safe' /\ NoNews
  <1> DEFINE k == sess[p].pendingSendCipher
  <1>1. /\ Types /\ Roles /\ NonceInv /\ WearInv /\ TokenInv /\ FreshInv /\ Role(p)
        /\ p \in Threads /\ pc[p] = "activate" /\ p = Responder
    <2>1. Types /\ Safe /\ Role(p) /\ p \in Threads /\ pc[p] = "activate"
      BY PeerFacts DEF IInv, Safe, Roles, ActivateRekeySend
    <2> QED
      BY <2>1, PeerFacts DEF Safe, Role
  <1>2. /\ UNCHANGED <<kem, writeMu, wire, out, in, sealed, nonceReused>>
        /\ pc' = [pc EXCEPT ![p] = "idle"]
        /\ sess' = [sess EXCEPT ![p] = finalizeRekeyStateLocked(SwitchSend(sess[p]))]
    BY DEF ActivateRekeySend, history
  <1>3. pc'[p] = "idle" /\ Alone(p)
    BY <1>1, <1>2 DEF Types, ThreadTypes, Alone, Stays
  <1>4. /\ sess'[p].sendSeq = sess[p].sendSeq /\ sess'[p].pendingSendCipher = nil
        /\ k = nil => /\ sess'[p].sendCipher = sess[p].sendCipher
                      /\ sess'[p].sendEpochStartSeq = sess[p].sendEpochStartSeq
        /\ k # nil => sess'[p].sendCipher = k /\ sess'[p].sendEpochStartSeq = sess[p].sendSeq
        /\ \A q \in Peers : q # p => sess'[q] = sess[q]
    <2>1. sess[p] \in Sessions /\ sess'[p] = finalizeRekeyStateLocked(SwitchSend(sess[p]))
          /\ \A q \in Peers : q # p => sess'[q] = sess[q]
      BY <1>1, <1>2 DEF Types, SessionTypes
    <2> QED
      BY <2>1, SMT DEF finalizeRekeyStateLocked, SwitchSend, Sessions
  <1> HIDE DEF k
  <1>5. Role(p)'
    BY <1>1, <1>2, <1>3, PeerFacts DEF Role
  <1>6. SameMessage(p) /\ SameWire
    BY <1>2, <1>3 DEF SameMessage, SameWire, RekeysOn, Handles
  <1>7. CASE k = nil
    <2>1. SameKeys
      BY <1>1, <1>2, <1>4, <1>7, PeerFacts DEF SameKeys
    <2> QED
      BY <1>1, <1>3, <1>5, <1>6, <2>1, QuietKeeps
  <1>8. CASE k # nil
    <2>1. NoNews /\ \A v \in Threads : Carries(v)' => Carries(v)
      BY <1>1, <1>3, <1>6, AloneQuiet
    <2>2. NoMessage
      BY <1>1, <1>4, <1>6, <2>1, PeerFacts DEF NoMessage, SameWire
    <2>3. Last(k) \in Nat /\ Last(k) <= kem /\ Unused(p, Last(k)) /\ kem \in Nat
      BY <1>1, <1>8, PendingSecret DEF FreshInv, Types, SessionTypes, k
    <2>4. Switches(p)
      <3>1. \A u \in sealed : u.peer = p => u.key # sess'[p].sendCipher
        BY <1>4, <1>8, <2>3, SMT DEF Unused
      <3>2. \A t \in Threads : pc[t] = "seal" /\ Owner(t) = p => writeMu[p] = t
        <4>1. \A t \in Threads : out[t].kind # "rekey" \/ Owner(t) # p \/ pc[t] # "seal"
          BY <1>1, PeerFacts, ThreadFacts, SMT DEF Roles, Role
        <4> QED
          BY <1>1, <4>1 DEF Roles, Role
      <3>3. \A t \in Threads : pc'[t] = "seal" => pc[t] = "seal" /\ out'[t] = out[t]
        BY <1>2, <1>3 DEF Alone, Stays
      <3> QED
        BY <1>1, <1>2, <1>4, <1>8, <3>1, <3>2, <3>3 DEF Switches
    <2>5. FreshInv'
      <3>1. ASSUME NEW q \in Peers
            PROVE  Unused(q, kem + 1)'
        <4>1. Unused(q, kem + 1) /\ (sess'[q].sendCipher = k \/ sess'[q] = sess[q])
          BY <1>1, <1>4, <1>8 DEF FreshInv
        <4>2. sess'[q].sendCipher # nil => Last(sess'[q].sendCipher) < kem + 1
          BY <2>3, <4>1, SMT DEF Unused
        <4>3. \A u \in sealed : u.peer = q => Last(u.key) < kem + 1
          BY <4>1 DEF Unused
        <4> QED
          BY <1>2, <4>2, <4>3 DEF Unused
      <3>2. ASSUME NEW kp \in Nat, NEW ct \in Nat, Answering(kp, ct)'
            PROVE  Unused(Initiator, ct)' /\ ct <= kem'
        <4>1. Unused(Initiator, ct) /\ ct <= kem
          BY <1>1, <2>1, <3>2 DEF NoNews, FreshInv
        <4>2. sess'[Initiator] = sess[Initiator]
          BY <1>1, <1>4, PeerFacts
        <4> QED
          BY <1>2, <4>1, <4>2 DEF Unused
      <3>3. sess'[Responder].pendingSendCipher = nil
        BY <1>1, <1>4
      <3> QED
        BY <3>1, <3>2, <3>3 DEF FreshInv
    <2> QED
      BY <1>1, <1>3, <1>5, <2>1, <2>2, <2>4, <2>5, RolesKept, TokenQuiet, SwitchKeeps DEF Safe
  <1> QED
    BY <1>7, <1>8

(* The steps of a goroutine that closes, and no step at all.               *)
LEMMA CloseKeeps ==
    ASSUME IInv,
           \/ \E p \in Peers : Close(p) \/ CloserStep(p)
           \/ UNCHANGED vars
    PROVE  Safe' /\ NoNews
  <1>1. Types /\ Roles /\ NonceInv /\ WearInv /\ TokenInv /\ FreshInv
    BY DEF IInv, Safe
  <1>2. UNCHANGED <<kem, writeMu, pc, out, in, sealed, nonceReused>>
    BY DEF Close, CloserStep, NotifyPeer, CloseSession, CloseConn, session, locals, history, vars
  <1>3. SameKeys
    <2>1. \/ sess' = sess
          \/ \E p \in Peers : sess' = [sess EXCEPT ![p].state = "Closed", ![p].masterSecret = nil,
                                                  ![p].sendCipher = nil, ![p].recvCipher = nil]
      BY DEF Close, CloserStep, NotifyPeer, CloseSession, CloseConn, session, vars
    <2>2. CASE sess' = sess
      BY <1>2, <2>2 DEF SameKeys
    <2>3. ASSUME NEW p \in Peers, sess' = [sess EXCEPT ![p].state = "Closed", ![p].masterSecret = nil,
                                                       ![p].sendCipher = nil, ![p].recvCipher = nil]
          PROVE  SameKeys
      <3>1. \A q \in Peers : /\ sess'[q].sendSeq = sess[q].sendSeq
                             /\ sess'[q].sendEpochStartSeq = sess[q].sendEpochStartSeq
                             /\ sess'[q].sendCipher \in {sess[q].sendCipher, nil}
                             /\ sess'[q].pendingSendCipher = sess[q].pendingSendCipher
                             /\ sess'[q].rekeyInProgress = sess[q].rekeyInProgress
        BY <1>1, <2>3, SMT DEF Types, SessionTypes, Sessions
      <3> QED
        BY <1>2, <3>1, PeerFacts DEF SameKeys
    <2> QED
      BY <2>1, <2>2, <2>3
  <1>4. SameWire
    <2>1. \/ wire' = wire
          \/ \E q \in Peers : wire' = [wire EXCEPT ![q] = Append(@, CloseNotify)]
      <3>1. \/ wire' = wire
            \/ \E p \in Peers : wire' = [wire EXCEPT ![Peer(p)] = Append(@, CloseNotify)]
        BY DEF Close, CloserStep, NotifyPeer, CloseSession, CloseConn, Transmit, vars
      <3> QED
        BY <3>1, PeerFacts
    <2>2. CloseNotify \in Frames /\ CloseNotify.kind # "rekey"
      BY FrameTypes, FrameFields
    <2>3. wire' = wire => SameWire
      BY DEF SameWire, RekeysOn
    <2> QED
      BY <1>1, <2>1, <2>2, <2>3, Arrives
  <1>5. Roles'
    BY <1>1, <1>2 DEF Roles, Role
  <1>6. \A t \in Threads : SameMessage(t)
    BY <1>2 DEF SameMessage, Handles
  <1>7. NoNews /\ \A v \in Threads : Carries(v)' => Carries(v)
    BY <1>4, <1>6, MessagesQuiet
  <1>8. NoSeal
    BY <1>2, <1>3 DEF SameKeys, NoSeal
  <1>9. NoMessage
    BY <1>3, <1>4, <1>7 DEF SameKeys, SameWire, NoMessage
  <1>10. NoSecret
    BY <1>3, <1>7 DEF SameKeys, NoSecret, NoNews
  <1> QED
    BY <1>1, <1>5, <1>7, <1>8, <1>9, <1>10, SealQuiet, TokenQuiet, FreshQuiet DEF Safe
=============================================================================
