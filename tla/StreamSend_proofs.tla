------------------------- MODULE StreamSend_proofs --------------------------
(***************************************************************************)
(* The types of an established stream tunnel, its inductive invariant,     *)
(* what leaves the parts of it alone, and the numbering and sealing of a   *)
(* record.                                                                 *)
(***************************************************************************)
EXTENDS StreamTunnel, TLAPS

\* Zenon proves the leaves that do not name another prover.
USE Zenon

(* Types *)

\* TypeOK in three parts: the sessions and what they sealed, the transports, the
\* goroutines.
SessionTypes ==
    /\ sess \in [Peers -> Sessions] /\ kem \in Nat
    /\ sealed \subseteq [peer : Peers, key : Keys, seq : Nat]
    /\ nonceReused \in BOOLEAN /\ exhaustedIdle \in BOOLEAN

ConnTypes ==
    /\ closed \in [Peers -> BOOLEAN] /\ connOpen \in [Peers -> BOOLEAN]
    /\ wire \in [Peers -> Seq(Frames)]
    /\ closePc \in [Peers -> {"open", "notify", "alert", "session", "conn", "returned"}]
    /\ writeFailures \in 0 .. MaxWriteFailures
    /\ accepted \in [Peers -> SUBSET Nat] /\ rejected \in [Peers -> BOOLEAN]

Positions == {"idle", "sealAndWrite", "encrypt", "seal", "write", "check", "initiate",
              "reading", "promote", "handleRekey", "activate"}

ThreadTypes ==
    /\ pc \in [Threads -> Positions]
    /\ out \in [Threads -> Frames] /\ in \in [Peers -> Frames]
    /\ writeMu \in [Peers -> Threads \cup {None}]
    /\ sends \in [Senders -> 0 .. MaxSends]

Types == SessionTypes /\ ConnTypes /\ ThreadTypes

(* The two peers.                                                          *)
LEMMA PeerFacts ==
    /\ Initiator \in Peers /\ Responder \in Peers /\ Initiator # Responder
    /\ \A p \in Peers : p \in Threads /\ (p = Initiator \/ p = Responder)
    /\ \A p \in Peers : Peer(p) \in Peers /\ Peer(p) # p /\ Owner(p) = p
    /\ Peer(Initiator) = Responder /\ Peer(Responder) = Initiator
  BY StreamAssumption DEF Peers, Threads, Senders, Peer, Owner

(* The goroutines and their peers.                                         *)
LEMMA ThreadFacts ==
    /\ \A t \in Threads : (t \in Senders \/ t \in Peers) /\ Owner(t) \in Peers
    /\ \A t \in Senders : /\ t \in Threads /\ t \notin Peers
                          /\ t \in InitiatorSenders \/ t \in ResponderSenders
    /\ \A t \in InitiatorSenders : t \in Senders /\ t \notin ResponderSenders /\ Owner(t) = Initiator
    /\ \A t \in ResponderSenders : t \in Senders /\ Owner(t) = Responder
  BY StreamAssumption DEF Peers, Threads, Senders, Owner

(* The frames that are built, and the empty key, have their types.         *)
LEMMA FrameTypes ==
    /\ nil \in Keys /\ DataFrame \in Frames /\ CloseNotify \in Frames
    /\ \A kp, ct \in Nat : RekeyFrame(kp, ct) \in Frames
  <1>1. nil \in Keys
    BY SMT DEF nil, Keys
  <1> QED
    BY <1>1 DEF DataFrame, CloseNotify, RekeyFrame, Frames

(* What is in them.                                                        *)
LEMMA FrameFields ==
    /\ DataFrame.kind = "data" /\ CloseNotify.kind = "closeNotify"
    /\ \A kp, ct \in Nat : /\ RekeyFrame(kp, ct).kind = "rekey"
                           /\ RekeyFrame(kp, ct).kp = kp /\ RekeyFrame(kp, ct).ct = ct
  BY DEF DataFrame, CloseNotify, RekeyFrame
-----------------------------------------------------------------------------
(* Sending *)

(* Send, CheckAndRekey, Receive and a read that fails move a goroutine.    *)
LEMMA MovingTypes ==
    ASSUME Types, NEW t \in Threads,
           \/ t \in Senders /\ Send(t)
           \/ CheckAndRekey(t)
           \/ t \in Peers /\ (Receive(t) \/ ReadFails(t))
    PROVE  Types'
  <1>1. /\ UNCHANGED <<session, closed, connOpen, writeMu, wire, out, in, closePc, writeFailures, accepted, history>>
        /\ \E l \in Positions : pc' = [pc EXCEPT ![t] = l]
    BY DEF Send, CheckAndRekey, Receive, ReadFails, Positions
  <1>2. sends' \in [Senders -> 0 .. MaxSends]
    <2>1. sends' = sends \/ (t \in Senders /\ sends[t] < MaxSends /\ sends' = [sends EXCEPT ![t] = @ + 1])
      BY DEF Send, CheckAndRekey, Receive, ReadFails
    <2> QED
      BY <2>1, StreamAssumption, SMT DEF Types, ThreadTypes
  <1>3. SessionTypes' /\ ConnTypes'
    BY <1>1 DEF Types, SessionTypes, ConnTypes, session, history
  <1>4. ThreadTypes'
    BY <1>1, <1>2 DEF Types, ThreadTypes
  <1> QED
    BY <1>3, <1>4 DEF Types

(* Session.Encrypt draws a number.                                         *)
LEMMA DrawTypes ==
    ASSUME Types, NEW t \in Threads, DrawSeq(t)
    PROVE  Types'
  <1> DEFINE p == Owner(t)
  <1>1. p \in Peers /\ sess[p].sendSeq \in Nat /\ out[t] \in Frames
    BY ThreadFacts DEF Types, SessionTypes, ThreadTypes, Sessions
  <1>2. ConnTypes'
    BY DEF DrawSeq, Types, ConnTypes, history
  <1>3. SessionTypes'
    BY <1>1, SMT DEF DrawSeq, Types, SessionTypes, Sessions, history
  <1>4. out' \in [Threads -> Frames]
    <2>1. [out[t] EXCEPT !.seq = sess[p].sendSeq] \in Frames
      BY <1>1 DEF Frames
    <2>2. out' = [out EXCEPT ![t] = [out[t] EXCEPT !.seq = sess[p].sendSeq]]
      BY DEF DrawSeq
    <2> QED
      BY <2>1, <2>2 DEF Types, ThreadTypes
  <1>5. ThreadTypes'
    BY <1>1, <1>4 DEF DrawSeq, LockWrite, Types, ThreadTypes, Positions
  <1> QED
    BY <1>2, <1>3, <1>5 DEF Types

(* Session.Encrypt seals a record or refuses to.                           *)
LEMMA SealTypes ==
    ASSUME Types, NEW t \in Threads, Seal(t)
    PROVE  Types'
  <1> DEFINE p == Owner(t)
             use == [peer |-> p, key |-> sess[p].sendCipher, seq |-> out[t].seq]
             sealing == [out[t] EXCEPT !.key = sess[p].sendCipher]
  <1>1. /\ p \in Peers /\ sess[p] \in Sessions /\ out[t] \in Frames
        /\ sess[p].sendCipher \in Keys /\ out[t].seq \in Nat
    BY ThreadFacts DEF Types, SessionTypes, ThreadTypes, Sessions, Frames
  <1>2. /\ UNCHANGED <<kem, closed, connOpen, wire, in, closePc, sends, writeFailures, accepted, rejected>>
        /\ sess' = sess \/ sess' = [sess EXCEPT ![p].packetsSent = @ + 1]
        /\ sealed' = sealed \/ sealed' = sealed \cup {use}
        /\ out' = [out EXCEPT ![t] = sealing] \/ out' = [out EXCEPT ![t] = DataFrame]
        /\ UNCHANGED writeMu \/ Release(t)
        /\ \E l \in Positions : pc' = [pc EXCEPT ![t] = l]
    BY DEF Seal, Positions
  <1>3. nonceReused' \in BOOLEAN /\ exhaustedIdle' \in BOOLEAN
    BY DEF Seal, Types, SessionTypes
  <1>4. ConnTypes'
    BY <1>2 DEF Types, ConnTypes
  <1>5. SessionTypes'
    <2>1. use \in [peer : Peers, key : Keys, seq : Nat]
      BY <1>1
    <2>2. sess' \in [Peers -> Sessions]
      BY <1>1, <1>2, SMT DEF Types, SessionTypes, Sessions
    <2> HIDE DEF use
    <2> QED
      BY <1>2, <1>3, <2>1, <2>2 DEF Types, SessionTypes
  <1>6. ThreadTypes'
    <2>1. sealing \in Frames
      BY <1>1 DEF Frames
    <2> HIDE DEF sealing
    <2> QED
      BY <1>1, <1>2, <2>1, FrameTypes, SMT DEF Release, Types, ThreadTypes
  <1> QED
    BY <1>4, <1>5, <1>6 DEF Types

(* A record is written, or its write fails.                                *)
LEMMA WriteTypes ==
    ASSUME Types, NEW t \in Threads, Write(t)
    PROVE  Types'
  <1> DEFINE p == Owner(t)
             to == Peer(p)
  <1>1. p \in Peers /\ to \in Peers /\ out[t] \in Frames /\ wire[to] \in Seq(Frames)
    BY ThreadFacts, PeerFacts DEF Types, ConnTypes, ThreadTypes
  <1>2. /\ UNCHANGED <<session, closed, connOpen, in, closePc, sends, accepted, history>>
        /\ wire' = wire \/ wire' = [wire EXCEPT ![to] = Append(wire[to], out[t])]
        /\ out' = [out EXCEPT ![t] = DataFrame] /\ Release(t)
        /\ pc' = [pc EXCEPT ![t] = AfterWrite(t)] \/ pc' = [pc EXCEPT ![t] = "idle"]
    BY DEF Write, Transmit, AfterFailedWrite
  <1>3. SessionTypes'
    BY <1>2 DEF Types, SessionTypes, session, history
  <1>4. ConnTypes'
    <2>1. wire' \in [Peers -> Seq(Frames)]
      <3>1. Append(wire[to], out[t]) \in Seq(Frames)
        BY <1>1, SMT
      <3> QED
        BY <1>2, <3>1 DEF Types, ConnTypes
    <2>2. writeFailures' \in 0 .. MaxWriteFailures
      BY StreamAssumption, SMT DEF Write, Types, ConnTypes
    <2> QED
      BY <1>2, <2>1, <2>2 DEF Types, ConnTypes, history
  <1>5. ThreadTypes'
    <2>1. AfterWrite(t) \in Positions /\ "idle" \in Positions
      BY DEF AfterWrite, Positions
    <2>2. pc' \in [Threads -> Positions]
      BY <1>2, <2>1 DEF Types, ThreadTypes
    <2> QED
      BY <1>1, <1>2, <2>2, FrameTypes DEF Release, Types, ThreadTypes
  <1> QED
    BY <1>3, <1>4, <1>5 DEF Types

(* A rekey is started, or was started meanwhile.                           *)
LEMMA InitiateTypes ==
    ASSUME Types, NEW t \in Threads, InitiateRekey(t)
    PROVE  Types'
  <1> DEFINE p == Owner(t)
             s == [sess[p] EXCEPT !.rekeyInProgress = TRUE,
                                  !.pendingRekeyKeyPair = kem + 1, !.state = "Rekeying"]
  <1>1. p \in Peers /\ sess[p] \in Sessions /\ kem + 1 \in Nat /\ kem \in Nat
    BY ThreadFacts, SMT DEF Types, SessionTypes
  <1>2. /\ UNCHANGED <<closed, connOpen, writeMu, wire, in, closePc, sends, writeFailures, accepted, history>>
        /\ kem' = kem \/ kem' = kem + 1
        /\ out' = out \/ out' = [out EXCEPT ![t] = RekeyFrame(kem + 1, 0)]
        /\ \E l \in Positions : pc' = [pc EXCEPT ![t] = l]
    BY DEF InitiateRekey, session, Positions
  <1>3. sess' = sess \/ sess' = [sess EXCEPT ![p] = s]
    BY <1>1 DEF InitiateRekey, session, Types, SessionTypes, Sessions
  <1>4. ConnTypes'
    BY <1>2 DEF Types, ConnTypes, history
  <1>5. SessionTypes'
    <2>1. s \in Sessions
      BY <1>1 DEF Sessions
    <2> HIDE DEF s
    <2> QED
      BY <1>1, <1>2, <1>3, <2>1 DEF Types, SessionTypes, history
  <1>6. ThreadTypes'
    <2>1. RekeyFrame(kem + 1, 0) \in Frames
      BY <1>1, FrameTypes
    <2> QED
      BY <1>2, <2>1 DEF Types, ThreadTypes
  <1> QED
    BY <1>4, <1>5, <1>6 DEF Types
-----------------------------------------------------------------------------
(* Receiving *)

(* A frame is read.                                                        *)
LEMMA ReadTypes ==
    ASSUME Types, NEW p \in Peers, ReadMessage(p)
    PROVE  Types'
  <1> DEFINE frame == Head(wire[p])
             payload == IF frame.kind = "rekey" THEN RekeyFrame(frame.kp, frame.ct) ELSE DataFrame
  <1>1. frame \in Frames /\ Tail(wire[p]) \in Seq(Frames)
    <2>1. wire[p] \in Seq(Frames) /\ wire[p] # << >>
      BY DEF ReadMessage, Types, ConnTypes
    <2> QED
      BY <2>1, SMT
  <1>2. frame.seq \in Nat /\ payload \in Frames
    <2>1. frame.seq \in Nat /\ frame.kp \in Nat /\ frame.ct \in Nat
      BY <1>1 DEF Frames
    <2> HIDE DEF frame
    <2> QED
      BY <2>1, FrameTypes
  <1>3. /\ UNCHANGED <<session, connOpen, writeMu, out, closePc, sends, writeFailures,
                       sealed, nonceReused, exhaustedIdle>>
        /\ in' = [in EXCEPT ![p] = payload] /\ wire' = [wire EXCEPT ![p] = Tail(wire[p])]
        /\ closed' = closed \/ closed' = [closed EXCEPT ![p] = TRUE]
    BY DEF ReadMessage
  <1>4. \E l \in Positions : pc' = [pc EXCEPT ![p] = l]
    BY DEF ReadMessage, Decrypt, Handling, Positions
  <1>5. accepted' = accepted \/ accepted' = [accepted EXCEPT ![p] = accepted[p] \cup {frame.seq}]
    BY DEF ReadMessage, Decrypt
  <1>6. rejected' \in [Peers -> BOOLEAN]
    BY DEF ReadMessage, Decrypt, Types, ConnTypes
  <1> HIDE DEF frame, payload
  <1>7. SessionTypes'
    BY <1>3 DEF Types, SessionTypes, session
  <1>8. ConnTypes'
    <2>1. accepted' \in [Peers -> SUBSET Nat]
      <3>1. accepted[p] \cup {frame.seq} \in SUBSET Nat
        BY <1>2 DEF Types, ConnTypes
      <3> QED
        BY <1>5, <3>1 DEF Types, ConnTypes
    <2>2. wire' \in [Peers -> Seq(Frames)]
      BY <1>1, <1>3 DEF Types, ConnTypes
    <2> QED
      BY <1>3, <1>6, <2>1, <2>2 DEF Types, ConnTypes
  <1>9. ThreadTypes'
    BY <1>2, <1>3, <1>4, PeerFacts DEF Types, ThreadTypes
  <1> QED
    BY <1>7, <1>8, <1>9 DEF Types

(* The pending receive cipher is promoted.                                 *)
LEMMA PromoteTypes ==
    ASSUME Types, NEW p \in Peers, promotePendingRecvCipher(p)
    PROVE  Types'
  <1>1. /\ UNCHANGED <<kem, closed, connOpen, writeMu, wire, out, in, closePc, sends,
                       writeFailures, accepted, history>>
        /\ \E l \in Positions : pc' = [pc EXCEPT ![p] = l]
    BY DEF promotePendingRecvCipher, Handling, Positions
  <1>2. SessionTypes'
    BY <1>1, FrameTypes, SMT DEF promotePendingRecvCipher, Types, SessionTypes, Sessions, history
  <1>3. ConnTypes'
    BY <1>1 DEF Types, ConnTypes, history
  <1>4. ThreadTypes'
    BY <1>1, PeerFacts DEF Types, ThreadTypes
  <1> QED
    BY <1>2, <1>3, <1>4 DEF Types

(* finalizeRekeyStateLocked leaves a session.                              *)
LEMMA FinalizeTypes ==
    ASSUME NEW s \in Sessions
    PROVE  finalizeRekeyStateLocked(s) \in Sessions
  BY FrameTypes DEF finalizeRekeyStateLocked, Sessions

(* A rekey message is handled.                                             *)
LEMMA HandleTypes ==
    ASSUME Types, NEW p \in Peers, HandleRekey(p)
    PROVE  Types'
  <1> DEFINE s == sess[p]
             prepared == Append(s.masterSecret, kem + 1)
             processed == Append(s.masterSecret, Decapsulate(s.pendingRekeyKeyPair, in[p]))
             z == [s EXCEPT !.sendCipher = processed, !.sendEpochStartSeq = s.sendSeq,
                            !.pendingRecvCipher = processed, !.pendingRekeySecret = processed,
                            !.pendingRekeyKeyPair = 0]
  <1>1. /\ s \in Sessions /\ kem \in Nat /\ kem + 1 \in Nat
        /\ s.masterSecret \in Seq(Nat) /\ s.sendSeq \in Nat /\ in[p].kp \in Nat /\ in[p].ct \in Nat
    BY SMT DEF Types, SessionTypes, ThreadTypes, Sessions, Frames, Keys
  <1>2. prepared \in Keys /\ processed \in Keys
    <2>1. Decapsulate(s.pendingRekeyKeyPair, in[p]) \in Nat
      BY <1>1 DEF Decapsulate
    <2> QED
      BY <1>1, <2>1, SMT DEF Keys
  <1>3. /\ UNCHANGED <<closed, connOpen, writeMu, wire, closePc, sends, writeFailures, accepted, history>>
        /\ in' = [in EXCEPT ![p] = DataFrame]
        /\ kem' = kem \/ kem' = kem + 1
        /\ \/ sess' = sess
           \/ sess' = [sess EXCEPT ![p] = PendingResponse(s, prepared)]
           \/ sess' = [sess EXCEPT ![p] = finalizeRekeyStateLocked(z)]
        /\ out' = out \/ out' = [out EXCEPT ![p] = RekeyFrame(in[p].kp, kem + 1)]
        /\ \E l \in Positions : pc' = [pc EXCEPT ![p] = l]
    BY DEF HandleRekey, PrepareRekeyResponse, ProcessRekeyResponse, session, Positions
  <1> HIDE DEF prepared, processed
  <1>4. PendingResponse(s, prepared) \in Sessions
    BY <1>1, <1>2 DEF PendingResponse, Sessions
  <1>5. finalizeRekeyStateLocked(z) \in Sessions
    <2>1. z \in Sessions
      BY <1>1, <1>2 DEF Sessions
    <2> QED
      BY <2>1, FinalizeTypes
  <1> HIDE DEF z
  <1>6. SessionTypes'
    BY <1>1, <1>3, <1>4, <1>5 DEF Types, SessionTypes, history
  <1>7. ConnTypes'
    BY <1>3 DEF Types, ConnTypes, history
  <1>8. ThreadTypes'
    <2>1. DataFrame \in Frames /\ RekeyFrame(in[p].kp, kem + 1) \in Frames
      BY <1>1, FrameTypes
    <2> QED
      BY <1>3, <2>1 DEF Types, ThreadTypes
  <1> QED
    BY <1>6, <1>7, <1>8 DEF Types

(* The responder switches its send cipher.                                 *)
LEMMA ActivateTypes ==
    ASSUME Types, NEW p \in Peers, ActivateRekeySend(p)
    PROVE  Types'
  <1>1. SessionTypes'
    <2>1. sess[p] \in Sessions
      BY DEF Types, SessionTypes
    <2>2. SwitchSend(sess[p]) \in Sessions
      BY <2>1, FrameTypes DEF SwitchSend, Sessions
    <2>3. finalizeRekeyStateLocked(SwitchSend(sess[p])) \in Sessions
      BY <2>2, FinalizeTypes
    <2> QED
      BY <2>3 DEF ActivateRekeySend, Types, SessionTypes, history
  <1>2. ConnTypes'
    BY DEF ActivateRekeySend, Types, ConnTypes, history
  <1>3. ThreadTypes'
    BY PeerFacts DEF ActivateRekeySend, Types, ThreadTypes, Positions
  <1> QED
    BY <1>1, <1>2, <1>3 DEF Types
-----------------------------------------------------------------------------
(* Closing, and every step *)

(* The steps of Close.                                                     *)
LEMMA ClosingTypes ==
    ASSUME Types, NEW p \in Peers, Close(p) \/ CloserStep(p)
    PROVE  Types'
  <1> DEFINE to == Peer(p)
             z == [sess[p] EXCEPT !.state = "Closed", !.masterSecret = nil,
                                  !.sendCipher = nil, !.recvCipher = nil]
  <1>1. /\ UNCHANGED <<kem, writeMu, locals, writeFailures, accepted, history>>
        /\ sess' = sess \/ sess' = [sess EXCEPT ![p] = z]
        /\ closed' = closed \/ closed' = [closed EXCEPT ![p] = TRUE]
        /\ connOpen' = connOpen \/ connOpen' = [connOpen EXCEPT ![p] = FALSE]
        /\ wire' = wire \/ wire' = [wire EXCEPT ![to] = Append(wire[to], CloseNotify)]
    BY DEF Close, CloserStep, NotifyPeer, CloseSession, CloseConn, Transmit, session
  <1>2. \E l \in {"notify", "alert", "session", "conn", "returned"} : closePc' = [closePc EXCEPT ![p] = l]
    BY DEF Close, CloserStep, NotifyPeer, CloseSession, CloseConn
  <1>3. SessionTypes'
    <2>1. sess[p] \in Sessions
      BY DEF Types, SessionTypes
    <2>2. z \in Sessions
      BY <2>1, FrameTypes DEF Sessions
    <2> HIDE DEF z
    <2> QED
      BY <1>1, <2>2 DEF Types, SessionTypes, history
  <1>4. ConnTypes'
    <2>1. to \in Peers /\ wire[to] \in Seq(Frames)
      BY PeerFacts DEF Types, ConnTypes
    <2>2. Append(wire[to], CloseNotify) \in Seq(Frames)
      BY <2>1, FrameTypes, SMT
    <2>3. wire' \in [Peers -> Seq(Frames)]
      BY <1>1, <2>2 DEF Types, ConnTypes
    <2>4. closePc' \in [Peers -> {"open", "notify", "alert", "session", "conn", "returned"}]
      BY <1>2 DEF Types, ConnTypes
    <2> QED
      BY <1>1, <2>3, <2>4 DEF Types, ConnTypes, history
  <1>5. ThreadTypes'
    BY <1>1 DEF Types, ThreadTypes, locals
  <1> QED
    BY <1>3, <1>4, <1>5 DEF Types

(* Every step keeps the types.                                             *)
LEMMA TypesKept ==
    ASSUME Types, [Next]_vars
    PROVE  Types'
  <1>1. ASSUME NEW t \in Senders, Send(t) \/ SenderStep(t)
        PROVE  Types'
    BY <1>1, MovingTypes, DrawTypes, SealTypes, WriteTypes, InitiateTypes, ThreadFacts DEF SenderStep
  <1>2. ASSUME NEW p \in Peers, ReceiverStep(p)
        PROVE  Types'
    BY <1>2, MovingTypes, ReadTypes, PromoteTypes, HandleTypes, ActivateTypes,
       DrawTypes, SealTypes, WriteTypes, PeerFacts DEF ReceiverStep
  <1>3. CASE UNCHANGED vars
    BY <1>3 DEF vars, Types, SessionTypes, ConnTypes, ThreadTypes
  <1> QED
    BY <1>1, <1>2, <1>3, ClosingTypes DEF Next

(* The types hold initially.                                               *)
LEMMA InitTypes ==
    ASSUME Init
    PROVE  Types
  <1>1. EstablishedSession \in Sessions
    <2>1. <<0>> \in Keys /\ nil \in Keys
      BY FrameTypes, SMT DEF Keys
    <2> QED
      BY <2>1 DEF EstablishedSession, Sessions
  <1>2. SessionTypes
    BY <1>1 DEF Init, SessionTypes
  <1>3. ConnTypes
    BY StreamAssumption, SMT DEF Init, ConnTypes
  <1>4. ThreadTypes
    BY FrameTypes, StreamAssumption, SMT DEF Init, ThreadTypes, Positions
  <1> QED
    BY <1>2, <1>3, <1>4 DEF Types
-----------------------------------------------------------------------------
(* The inductive invariant *)

\* Where goroutine t can be, and what it holds there: only a sender of the initiator and
\* the receive loop of the responder build rekey frames, and whoever seals or writes data
\* holds writeMu.
Role(t) ==
    /\ t \in Senders => pc[t] \in {"idle", "sealAndWrite", "encrypt", "seal", "write", "check", "initiate"}
    /\ t \in ResponderSenders => pc[t] \notin {"encrypt", "check", "initiate"}
    /\ t = Initiator => pc[t] \in {"idle", "reading", "promote", "handleRekey"}
    /\ t = Responder => /\ pc[t] \notin {"sealAndWrite", "check", "initiate"}
                        /\ pc[t] \in {"seal", "write"} => out[t].kind = "rekey"
    /\ t \in Peers /\ pc[t] = "handleRekey" => in[t].kind = "rekey"
    /\ pc[t] \notin {"encrypt", "seal", "write"} => out[t] = DataFrame
    /\ pc[t] = "encrypt" => out[t].kind = "rekey"
    /\ out[t].kind = "data" \/ (out[t].kind = "rekey" /\ (t \in InitiatorSenders \/ t = Responder))
    /\ pc[t] \in {"seal", "write"} /\ out[t].kind = "data" => writeMu[Owner(t)] = t

Roles == \A t \in Threads : Role(t)

\* A sequence number that was drawn belongs to one goroutine, until it is used.
NonceInv ==
    /\ ~nonceReused
    /\ \A u \in sealed : u.seq < sess[u.peer].sendSeq
    /\ \A t \in Threads : pc[t] = "seal" => out[t].seq < sess[Owner(t)].sendSeq
    /\ \A t, v \in Threads :
          pc[t] = "seal" /\ pc[v] = "seal" /\ Owner(t) = Owner(v) /\ out[t].seq = out[v].seq => t = v
    /\ \A t \in Threads, u \in sealed : pc[t] = "seal" /\ u.peer = Owner(t) => u.seq # out[t].seq

\* Where the messages of the rekey under way are: with a goroutine, or on the wire.
Handles(p) == pc[p] \in {"promote", "handleRekey"} /\ in[p].kind = "rekey"
Carries(t) == out[t].kind = "rekey" \/ (t \in Peers /\ Handles(t))

RekeysOn(p) == {i \in 1 .. Len(wire[p]) : wire[p][i].kind = "rekey"}

\* There is at most one such message, and none unless the initiator waits for it.
TokenInv ==
    /\ \A t, v \in Threads : Carries(t) /\ Carries(v) => t = v
    /\ \A t \in Threads, p \in Peers : Carries(t) => RekeysOn(p) = {}
    /\ RekeysOn(Initiator) = {} \/ RekeysOn(Responder) = {}
    /\ \A p \in Peers : \A i, j \in RekeysOn(p) : i = j
    /\ ~sess[Initiator].rekeyInProgress =>
          (\A t \in Threads : ~Carries(t)) /\ \A p \in Peers : RekeysOn(p) = {}

\* The message under way asks for a rekey with key pair kp; it answers with secret ct.
Asking(kp) ==
    \/ \E t \in InitiatorSenders : out[t].kind = "rekey" /\ out[t].kp = kp
    \/ \E i \in RekeysOn(Responder) : wire[Responder][i].kp = kp
    \/ Handles(Responder) /\ in[Responder].kp = kp

Answering(kp, ct) ==
    \/ out[Responder].kind = "rekey" /\ out[Responder].kp = kp /\ out[Responder].ct = ct
    \/ \E i \in RekeysOn(Initiator) : wire[Initiator][i].kp = kp /\ wire[Initiator][i].ct = ct
    \/ Handles(Initiator) /\ in[Initiator].kp = kp /\ in[Initiator].ct = ct

Last(k) == k[Len(k)]

\* p has used no key made with the secret c, or a later one.
Unused(p, c) ==
    /\ sess[p].sendCipher # nil => Last(sess[p].sendCipher) < c
    /\ \A u \in sealed : u.peer = p => Last(u.key) < c

\* The next key of a peer is one it has not used.
FreshInv ==
    /\ \A p \in Peers : Unused(p, kem + 1)
    /\ \A kp, ct \in Nat : Answering(kp, ct) => Unused(Initiator, ct) /\ ct <= kem
    /\ sess[Responder].pendingSendCipher # nil =>
          /\ Last(sess[Responder].pendingSendCipher) <= kem
          /\ Unused(Responder, Last(sess[Responder].pendingSendCipher))

\* Sequence numbers drawn before the key they are used with was switched to.
StaleUse(u) ==
    u \in sealed /\ u.key = sess[u.peer].sendCipher /\ u.seq < sess[u.peer].sendEpochStartSeq
StaleDraw(t) == pc[t] = "seal" /\ out[t].seq < sess[Owner(t)].sendEpochStartSeq

\* The uses of a key by a peer; it wears as it should when at most one of them has a
\* number below some start, and the others one of the MaxPackets from start on.
UsesOf(uses, p, k) == {u \in uses : u.peer = p /\ u.key = k}
Worn(uses) ==
    \E start \in Nat : /\ \A u \in uses : u.seq < start + MaxPackets
                       /\ \A u, w \in uses : u.seq < start /\ w.seq < start => u = w

\* The current key of a peer has sealed at most one record that was numbered before it,
\* and others only with the MaxPackets numbers from sendEpochStartSeq on.
WearInv ==
    /\ \A p \in Peers : sess[p].sendEpochStartSeq <= sess[p].sendSeq
    /\ \A u \in sealed : u.key # nil
    /\ \A u \in sealed :
          u.key = sess[u.peer].sendCipher => u.seq < sess[u.peer].sendEpochStartSeq + MaxPackets
    /\ \A u, w \in sealed : StaleUse(u) /\ StaleUse(w) /\ u.peer = w.peer => u = w
    /\ \A t, v \in Threads : StaleDraw(t) /\ StaleDraw(v) /\ Owner(t) = Owner(v) => t = v
    /\ \A t \in Threads, u \in sealed : StaleDraw(t) /\ StaleUse(u) => u.peer # Owner(t)
    /\ \A u \in sealed : Worn(UsesOf(sealed, u.peer, u.key))

Safe == Roles /\ NonceInv /\ TokenInv /\ FreshInv /\ WearInv
IInv == Types /\ Safe
-----------------------------------------------------------------------------
(* What leaves the parts of the invariant alone *)

\* Goroutine v is not concerned by a step; no other than t is.
Stays(v) == /\ pc'[v] = pc[v] /\ out'[v] = out[v]
            /\ v \in Peers => in'[v] = in[v]
            /\ writeMu[Owner(v)] = v => writeMu'[Owner(v)] = v
Alone(t) == \A v \in Threads : v # t => Stays(v)

\* The messages of a rekey that t has, and those on the wire, were there before.
SameMessage(t) ==
    /\ out'[t].kind = "rekey" => out[t].kind = "rekey" /\ out'[t].kp = out[t].kp /\ out'[t].ct = out[t].ct
    /\ t \in Peers /\ Handles(t)' => Handles(t) /\ in'[t] = in[t]
SameWire ==
    \A p \in Peers : RekeysOn(p)' = RekeysOn(p) /\ \A i \in RekeysOn(p) : wire'[p][i] = wire[p][i]

\* No number is drawn or used, and no key is switched to.
NoSeal ==
    /\ UNCHANGED <<sealed, nonceReused>>
    /\ \A p \in Peers : /\ sess'[p].sendSeq = sess[p].sendSeq
                        /\ sess'[p].sendEpochStartSeq = sess[p].sendEpochStartSeq
                        /\ sess'[p].sendCipher \in {sess[p].sendCipher, nil}
    /\ \A t \in Threads : pc'[t] = "seal" => pc[t] = "seal" /\ out'[t] = out[t]

\* No message of a rekey appears, and the initiator goes on waiting for it.
NoMessage ==
    /\ \A t \in Threads : Carries(t)' => Carries(t)
    /\ \A p \in Peers : RekeysOn(p)' = RekeysOn(p)
    /\ sess'[Initiator].rekeyInProgress = sess[Initiator].rekeyInProgress

\* No message with something new in it appears.
NoNews == \A kp, ct \in Nat : (Asking(kp)' => Asking(kp)) /\ (Answering(kp, ct)' => Answering(kp, ct))

\* No secret appears.
NoSecret ==
    /\ kem' = kem \/ kem' = kem + 1
    /\ UNCHANGED sealed
    /\ \A p \in Peers : sess'[p].sendCipher \in {sess[p].sendCipher, nil}
    /\ sess'[Responder].pendingSendCipher \in {sess[Responder].pendingSendCipher, nil}
    /\ \A kp, ct \in Nat : Answering(kp, ct)' => Answering(kp, ct)

\* The sessions keep their numbers and keys, or forget a key.
SameKeys ==
    /\ UNCHANGED <<kem, sealed, nonceReused>>
    /\ \A p \in Peers : /\ sess'[p].sendSeq = sess[p].sendSeq
                        /\ sess'[p].sendEpochStartSeq = sess[p].sendEpochStartSeq
                        /\ sess'[p].sendCipher \in {sess[p].sendCipher, nil}
    /\ sess'[Responder].pendingSendCipher \in {sess[Responder].pendingSendCipher, nil}
    /\ sess'[Initiator].rekeyInProgress = sess[Initiator].rekeyInProgress

(* Only t moves, and it comes to a place where it can be.                  *)
LEMMA RolesKept ==
    ASSUME Roles, NEW t \in Threads, Alone(t), Role(t)'
    PROVE  Roles'
  <1>1. ASSUME NEW v \in Threads, v # t
        PROVE  Role(v)'
    <2>1. Role(v) /\ Stays(v)
      BY <1>1 DEF Roles, Alone
    <2> QED
      BY <2>1 DEF Role, Stays
  <1> QED
    BY <1>1 DEF Roles

(* Numbers, keys and uses stay as they are.                                *)
LEMMA SealQuiet ==
    ASSUME Types, NonceInv, WearInv, NoSeal
    PROVE  NonceInv' /\ WearInv'
  <1>1. /\ \A t \in Threads : Owner(t) \in Peers
        /\ \A u \in sealed : u.peer \in Peers
    BY ThreadFacts DEF Types, SessionTypes
  <1>2. NonceInv'
    BY <1>1, SMT DEF NonceInv, NoSeal
  <1>3. /\ \A u \in sealed' : StaleUse(u)' => StaleUse(u)
        /\ \A t \in Threads : StaleDraw(t)' => StaleDraw(t)
    BY <1>1 DEF StaleUse, StaleDraw, NoSeal, WearInv
  <1> QED
    BY <1>1, <1>2, <1>3 DEF WearInv, NoSeal

(* The message of the rekey stays where it is.                             *)
LEMMA TokenQuiet ==
    ASSUME TokenInv, NoMessage
    PROVE  TokenInv'
  BY PeerFacts, SMT DEF TokenInv, NoMessage

(* Keys are made of secrets, and unused keys stay unused.                  *)
LEMMA LaterUnused ==
    ASSUME Types, WearInv, NEW p \in Peers, NEW c \in Nat, NEW d \in Nat, c <= d, Unused(p, c)
    PROVE  Unused(p, d)
  <1>1. \A k \in Keys : k # nil => Last(k) \in Nat
    BY SMT DEF Keys, nil, Last
  <1>2. sess[p].sendCipher \in Keys /\ \A u \in sealed : u.key \in Keys /\ u.key # nil
    BY DEF Types, SessionTypes, Sessions, WearInv
  <1>3. \A u \in sealed : u.peer = p => Last(u.key) < d
    BY <1>1, <1>2, SMT DEF Unused
  <1>4. sess[p].sendCipher # nil => Last(sess[p].sendCipher) < d
    BY <1>1, <1>2, SMT DEF Unused
  <1> QED
    BY <1>3, <1>4 DEF Unused

(* The secret of a pending key is a number.                                *)
LEMMA PendingSecret ==
    ASSUME Types, sess[Responder].pendingSendCipher # nil
    PROVE  Last(sess[Responder].pendingSendCipher) \in Nat
  <1>1. sess[Responder].pendingSendCipher \in Seq(Nat)
    BY PeerFacts DEF Types, SessionTypes, Sessions, Keys
  <1> QED
    BY <1>1, SMT DEF nil, Last

(* The secrets under way stay unused.                                      *)
LEMMA FreshQuiet ==
    ASSUME Types, FreshInv, WearInv, NoSecret
    PROVE  FreshInv'
  <1>1. kem \in Nat /\ kem' \in Nat /\ kem + 1 \in Nat /\ kem' + 1 \in Nat /\ kem + 1 <= kem' + 1 /\ kem <= kem'
    BY SMT DEF NoSecret, Types, SessionTypes
  <1>2. \A p \in Peers : Unused(p, kem' + 1)
    BY <1>1, LaterUnused DEF FreshInv
  <1>3. ASSUME NEW p \in Peers, NEW c, Unused(p, c)
        PROVE  /\ sess'[p].sendCipher # nil => Last(sess'[p].sendCipher) < c
               /\ \A u \in sealed' : u.peer = p => Last(u.key) < c
    BY <1>3 DEF Unused, NoSecret
  <1>4. \A p \in Peers : Unused(p, kem + 1)'
    BY <1>2, <1>3 DEF Unused
  <1>5. ASSUME NEW kp \in Nat, NEW ct \in Nat, Answering(kp, ct)'
        PROVE  Unused(Initiator, ct)' /\ ct <= kem'
    <2>1. Unused(Initiator, ct) /\ ct <= kem
      BY <1>5 DEF NoSecret, FreshInv
    <2>2. Unused(Initiator, ct)'
      BY <1>3, <2>1, PeerFacts DEF Unused
    <2> QED
      BY <1>1, <2>1, <2>2, SMT
  <1>6. ASSUME sess'[Responder].pendingSendCipher # nil
        PROVE  /\ Last(sess'[Responder].pendingSendCipher) <= kem'
               /\ Unused(Responder, Last(sess[Responder].pendingSendCipher))'
    <2> DEFINE c == Last(sess[Responder].pendingSendCipher)
    <2>1. sess'[Responder].pendingSendCipher = sess[Responder].pendingSendCipher
      BY <1>6 DEF NoSecret
    <2>2. c \in Nat /\ c <= kem /\ Unused(Responder, c)
      BY <1>6, <2>1, PendingSecret DEF FreshInv
    <2>3. Last(sess'[Responder].pendingSendCipher) = c
      BY <2>1
    <2> HIDE DEF c
    <2>4. c <= kem'
      BY <1>1, <2>2, SMT
    <2>5. /\ sess'[Responder].sendCipher # nil => Last(sess'[Responder].sendCipher) < c
          /\ \A u \in sealed' : u.peer = Responder => Last(u.key) < c
      BY <1>3, <2>2, PeerFacts
    <2> QED
      BY <2>3, <2>4, <2>5 DEF Unused
  <1> QED
    BY <1>4, <1>5, <1>6 DEF FreshInv

(* Messages that were there before bring nothing new.                      *)
LEMMA MessagesQuiet ==
    ASSUME SameWire, \A t \in Threads : SameMessage(t)
    PROVE  NoNews /\ \A t \in Threads : Carries(t)' => Carries(t)
  <1>1. \A t \in Threads : Carries(t)' => Carries(t)
    BY DEF SameMessage, Carries
  <1>2. ASSUME NEW kp \in Nat, Asking(kp)'
        PROVE  Asking(kp)
    BY <1>2, PeerFacts, ThreadFacts, SMT DEF SameWire, SameMessage, Asking
  <1>3. ASSUME NEW kp \in Nat, NEW ct \in Nat, Answering(kp, ct)'
        PROVE  Answering(kp, ct)
    BY <1>3, PeerFacts, SMT DEF SameWire, SameMessage, Answering
  <1> QED
    BY <1>1, <1>2, <1>3 DEF NoNews

(* Only t moves, and brings no message.                                    *)
LEMMA AloneQuiet ==
    ASSUME NEW t \in Threads, Alone(t), SameMessage(t), SameWire
    PROVE  NoNews /\ \A v \in Threads : Carries(v)' => Carries(v)
  <1>1. \A v \in Threads : SameMessage(v)
    BY DEF Alone, Stays, SameMessage, Handles
  <1> QED
    BY <1>1, MessagesQuiet

(* Only t moves, to a place where it can be, and the sessions and messages *)
(* stay as they are.                                                       *)
LEMMA QuietKeeps ==
    ASSUME IInv, SameKeys, SameWire,
           NEW t \in Threads, Alone(t), SameMessage(t), Role(t)', pc'[t] # "seal"
    PROVE  Safe' /\ NoNews
  <1>1. Types /\ Roles /\ NonceInv /\ TokenInv /\ FreshInv /\ WearInv
    BY DEF IInv, Safe
  <1>2. Roles'
    BY <1>1, RolesKept
  <1>3. NoNews /\ \A v \in Threads : Carries(v)' => Carries(v)
    BY AloneQuiet
  <1>4. NoSeal
    BY DEF SameKeys, NoSeal, Alone, Stays
  <1>5. NoMessage
    BY <1>3 DEF SameKeys, SameWire, NoMessage
  <1>6. NoSecret
    BY <1>3 DEF SameKeys, NoSecret, NoNews
  <1> QED
    BY <1>1, <1>2, <1>3, <1>4, <1>5, <1>6, SealQuiet, TokenQuiet, FreshQuiet DEF Safe
-----------------------------------------------------------------------------
(* Numbering and sealing a record *)

(* A goroutine with no frame in hand goes to a place where it has none.    *)
LEMMA MoveKeeps ==
    ASSUME IInv, NEW t \in Threads, NEW l,
           pc[t] \notin {"encrypt", "seal", "write", "promote", "handleRekey"},
           \/ l = "idle"
           \/ l = "sealAndWrite" /\ t \in Senders
           \/ l = "initiate" /\ t \in InitiatorSenders
           \/ l = "reading" /\ t \in Peers,
           pc' = [pc EXCEPT ![t] = l],
           UNCHANGED <<sess, kem, writeMu, wire, out, in, sealed, nonceReused>>
    PROVE  Safe' /\ NoNews
  <1>1. pc'[t] = l /\ Alone(t)
    BY DEF IInv, Types, ThreadTypes, Alone, Stays
  <1>2. out[t] = DataFrame /\ DataFrame.kind = "data"
    BY FrameFields DEF IInv, Safe, Roles, Role
  <1>3. Role(t)'
    BY <1>1, <1>2, PeerFacts, ThreadFacts, SMT DEF Role
  <1>4. SameKeys
    BY DEF SameKeys
  <1>5. SameWire
    BY DEF SameWire, RekeysOn
  <1>6. SameMessage(t)
    BY <1>1 DEF SameMessage, Handles
  <1> QED
    BY <1>1, <1>3, <1>4, <1>5, <1>6, QuietKeeps

(* Send passes its closed check.                                           *)
LEMMA SendKeeps ==
    ASSUME IInv, NEW t \in Senders, Send(t)
    PROVE  Safe' /\ NoNews
  BY MoveKeeps, ThreadFacts DEF Send, session, history

(* CheckAndRekey decides whether to start a rekey.                         *)
LEMMA CheckKeeps ==
    ASSUME IInv, NEW t \in Threads, CheckAndRekey(t)
    PROVE  Safe' /\ NoNews
  <1>1. t \in InitiatorSenders
    BY PeerFacts, ThreadFacts DEF IInv, Safe, Roles, Role, CheckAndRekey
  <1>2. PICK l \in {"idle", "initiate"} : pc' = [pc EXCEPT ![t] = l]
    BY DEF CheckAndRekey
  <1> QED
    BY <1>1, <1>2, MoveKeeps DEF CheckAndRekey, session, history

(* Session.Encrypt draws the number of a record.                           *)
LEMMA DrawKeeps ==
    ASSUME IInv, NEW t \in Threads, DrawSeq(t)
    PROVE  Safe' /\ NoNews
  <1> DEFINE p == Owner(t)
  <1>1. Types /\ Roles /\ NonceInv /\ WearInv /\ TokenInv /\ FreshInv
    BY DEF IInv, Safe
  <1>2. /\ p \in Peers /\ sess[p].sendSeq \in Nat
        /\ pc[t] \in {"sealAndWrite", "encrypt"} /\ pc'[t] = "seal"
        /\ out'[t].seq = sess[p].sendSeq /\ out'[t].kind = out[t].kind
        /\ out'[t].kp = out[t].kp /\ out'[t].ct = out[t].ct
    BY <1>1, ThreadFacts, SMT DEF DrawSeq, Types, SessionTypes, Sessions, ThreadTypes, Frames
  <1>3. /\ sess'[p].sendSeq = sess[p].sendSeq + 1
        /\ \A q \in Peers : /\ q # p => sess'[q].sendSeq = sess[q].sendSeq
                            /\ sess'[q].sendEpochStartSeq = sess[q].sendEpochStartSeq
                            /\ sess'[q].sendCipher = sess[q].sendCipher
                            /\ sess'[q].pendingSendCipher = sess[q].pendingSendCipher
                            /\ sess'[q].rekeyInProgress = sess[q].rekeyInProgress
    BY <1>1, <1>2 DEF DrawSeq, Types, SessionTypes, Sessions
  <1>4. sealed' = sealed /\ nonceReused' = nonceReused /\ kem' = kem /\ wire' = wire /\ in' = in
    BY DEF DrawSeq, history
  <1>5. Alone(t) /\ (pc[t] = "sealAndWrite" => writeMu'[p] = t)
    <2>1. \A v \in Threads : v # t => pc'[v] = pc[v] /\ out'[v] = out[v]
      BY <1>1 DEF DrawSeq, Types, ThreadTypes
    <2>2. \/ pc[t] = "sealAndWrite" /\ writeMu[p] = None /\ writeMu' = [writeMu EXCEPT ![p] = t]
          \/ pc[t] = "encrypt" /\ writeMu' = writeMu
      BY DEF DrawSeq, LockWrite
    <2>3. \A v \in Threads : Owner(v) \in Peers /\ v # None
      BY ThreadFacts, StreamAssumption
    <2> QED
      BY <1>1, <1>2, <1>4, <2>1, <2>2, <2>3, SMT DEF Types, ThreadTypes, Alone, Stays
  <1>6. Role(t)'
    <2>1. Role(t)
      BY <1>1 DEF Roles
    <2> QED
      BY <1>2, <1>5, <2>1, PeerFacts, ThreadFacts DEF Role
  <1>7. NonceInv'
    <2>1. /\ \A q \in Peers : sess[q].sendSeq \in Nat
          /\ \A v \in Threads : out[v].seq \in Nat /\ Owner(v) \in Peers
          /\ \A u \in sealed : u.seq \in Nat /\ u.peer \in Peers
      BY <1>1, ThreadFacts DEF Types, SessionTypes, ThreadTypes, Sessions, Frames
    <2>2. \A q \in Peers : \A n \in Nat : n < sess[q].sendSeq => n < sess'[q].sendSeq
      BY <1>3, <2>1, SMT
    <2>3. \A v \in Threads : v # t => pc'[v] = pc[v] /\ out'[v] = out[v]
      BY <1>5 DEF Alone, Stays
    <2>4. \A u \in sealed : u.seq < sess'[u.peer].sendSeq
      BY <1>1, <2>1, <2>2 DEF NonceInv
    <2>5. \A v \in Threads : pc'[v] = "seal" => out'[v].seq < sess'[Owner(v)].sendSeq
      BY <1>1, <1>2, <1>3, <2>1, <2>2, <2>3, SMT DEF NonceInv
    <2>6. \A v, w \in Threads : pc'[v] = "seal" /\ pc'[w] = "seal" /\ Owner(v) = Owner(w)
                                /\ out'[v].seq = out'[w].seq => v = w
      BY <1>1, <1>2, <2>1, <2>3, SMT DEF NonceInv
    <2>7. \A v \in Threads, u \in sealed : pc'[v] = "seal" /\ u.peer = Owner(v) => u.seq # out'[v].seq
      BY <1>1, <1>2, <2>1, <2>3, SMT DEF NonceInv
    <2> QED
      BY <1>1, <1>4, <2>4, <2>5, <2>6, <2>7 DEF NonceInv
  <1>8. WearInv'
    <2>1. /\ \A q \in Peers : sess[q].sendSeq \in Nat /\ sess[q].sendEpochStartSeq \in Nat
          /\ \A u \in sealed : u.peer \in Peers
          /\ \A v \in Threads : Owner(v) \in Peers
      BY <1>1, ThreadFacts DEF Types, SessionTypes, Sessions
    <2>2. \A q \in Peers : sess'[q].sendEpochStartSeq <= sess'[q].sendSeq
      BY <1>1, <1>3, <2>1, SMT DEF WearInv
    <2>3. \A u \in sealed : StaleUse(u)' = StaleUse(u)
      BY <1>3, <1>4, <2>1 DEF StaleUse
    <2>4. \A v \in Threads : v # t => (StaleDraw(v)' => StaleDraw(v))
      BY <1>3, <1>5, <2>1 DEF StaleDraw, Alone, Stays
    <2>5. ~StaleDraw(t)'
      BY <1>1, <1>2, <1>3, <2>1, SMT DEF StaleDraw, WearInv
    <2> QED
      BY <1>1, <1>3, <1>4, <2>1, <2>2, <2>3, <2>4, <2>5 DEF WearInv
  <1>9. SameMessage(t) /\ SameWire
    BY <1>2, <1>4 DEF SameMessage, SameWire, RekeysOn, Handles
  <1>10. NoNews /\ \A v \in Threads : Carries(v)' => Carries(v)
    BY <1>5, <1>9, AloneQuiet
  <1>11. NoMessage
    BY <1>3, <1>9, <1>10, PeerFacts DEF NoMessage, SameWire
  <1>12. NoSecret
    BY <1>3, <1>4, <1>10, PeerFacts DEF NoSecret, NoNews
  <1> QED
    BY <1>1, <1>5, <1>6, <1>7, <1>8, <1>10, <1>11, <1>12, RolesKept, TokenQuiet, FreshQuiet DEF Safe

\* What a sealed record uses, and how t seals it.
UseOf(t) == [peer |-> Owner(t), key |-> sess[Owner(t)].sendCipher, seq |-> out[t].seq]

Seals(t) ==
    /\ pc[t] = "seal" /\ pc'[t] = "write" /\ Alone(t)
    /\ sealed' = sealed \cup {UseOf(t)} /\ nonceReused' = (nonceReused \/ UseOf(t) \in sealed)
    /\ UseOf(t).key # nil /\ ~AtCap(sess[Owner(t)], out[t].seq)
    /\ out'[t].kind = out[t].kind /\ out'[t].kp = out[t].kp /\ out'[t].ct = out[t].ct
    /\ UNCHANGED <<kem, writeMu, wire, in>>
    /\ \A p \in Peers : /\ sess'[p].sendSeq = sess[p].sendSeq
                        /\ sess'[p].sendEpochStartSeq = sess[p].sendEpochStartSeq
                        /\ sess'[p].sendCipher = sess[p].sendCipher
                        /\ sess'[p].pendingSendCipher = sess[p].pendingSendCipher
                        /\ sess'[p].rekeyInProgress = sess[p].rekeyInProgress

(* Sealing keeps the numbers apart.                                        *)
LEMMA SealsNonce ==
    ASSUME Types, NonceInv, NEW t \in Threads, Seals(t)
    PROVE  NonceInv'
  <1>1. /\ UseOf(t).peer = Owner(t) /\ UseOf(t).seq = out[t].seq /\ Owner(t) \in Peers
        /\ \A u \in sealed' : u \in sealed \/ u = UseOf(t)
        /\ \A u \in sealed : u.peer \in Peers
    BY ThreadFacts DEF Seals, UseOf, Types, SessionTypes
  <1>2. UseOf(t) \notin sealed
    BY <1>1 DEF NonceInv, Seals
  <1>3. ~nonceReused'
    BY <1>2 DEF NonceInv, Seals
  <1>4. \A u \in sealed' : u.seq < sess'[u.peer].sendSeq
    BY <1>1, SMT DEF NonceInv, Seals
  <1>5. \A v \in Threads : pc'[v] = "seal" => pc[v] = "seal" /\ v # t /\ out'[v] = out[v]
    BY DEF Seals, Alone, Stays
  <1>6. \A v \in Threads, u \in sealed' : pc'[v] = "seal" /\ u.peer = Owner(v) => u.seq # out'[v].seq
    BY <1>1, <1>5, SMT DEF NonceInv, Seals
  <1>7. \A v \in Threads : pc'[v] = "seal" => out'[v].seq < sess'[Owner(v)].sendSeq
    BY <1>5, ThreadFacts DEF NonceInv, Seals
  <1> QED
    BY <1>3, <1>4, <1>5, <1>6, <1>7 DEF NonceInv

(* Sealing wears the key as it should.                                     *)
LEMMA SealsWear ==
    ASSUME Types, WearInv, NEW t \in Threads, Seals(t)
    PROVE  WearInv'
  <1> DEFINE p == Owner(t)
             k == sess[p].sendCipher
             start == sess[p].sendEpochStartSeq
             U == UsesOf(sealed', p, k)
  <1>1. /\ UseOf(t).peer = p /\ UseOf(t).seq = out[t].seq /\ UseOf(t).key = k /\ p \in Peers
        /\ \A u \in sealed' : (u \in sealed \/ u = UseOf(t)) /\ u.peer \in Peers
    BY ThreadFacts, SMT DEF Seals, UseOf, Types, SessionTypes
  <1>2. /\ out[t].seq \in Nat /\ start \in Nat
        /\ \A u \in sealed' : u.seq \in Nat
    BY <1>1 DEF Types, SessionTypes, ThreadTypes, Sessions, Frames
  <1>3. out[t].seq < start + MaxPackets
    BY <1>2, StreamAssumption, SMT DEF AtCap, Seals
  <1>4. \A v \in Threads : StaleDraw(v)' => StaleDraw(v) /\ v # t
    BY ThreadFacts DEF StaleDraw, Seals, Alone, Stays
  <1>5. \A u \in sealed' : /\ sess'[u.peer].sendCipher = sess[u.peer].sendCipher
                           /\ sess'[u.peer].sendEpochStartSeq = sess[u.peer].sendEpochStartSeq
    BY <1>1 DEF Seals
  <1>6. \A u \in sealed' : StaleUse(u)' => StaleUse(u) \/ (u = UseOf(t) /\ StaleDraw(t))
    <2>1. pc[t] = "seal"
      BY DEF Seals
    <2> QED
      BY <1>1, <1>5, <2>1 DEF StaleUse, StaleDraw
  <1>7. /\ \A q \in Peers : sess'[q].sendEpochStartSeq <= sess'[q].sendSeq
        /\ \A u \in sealed' : u.key # nil
    BY <1>1 DEF WearInv, Seals
  <1>8. \A u \in sealed' :
           u.key = sess'[u.peer].sendCipher => u.seq < sess'[u.peer].sendEpochStartSeq + MaxPackets
    BY <1>1, <1>3, <1>5 DEF WearInv
  <1>9. \A u, w \in sealed' : StaleUse(u)' /\ StaleUse(w)' /\ u.peer = w.peer => u = w
    <2> SUFFICES ASSUME NEW u \in sealed', NEW w \in sealed',
                        StaleUse(u)', StaleUse(w)', u.peer = w.peer
                 PROVE  u = w
      OBVIOUS
    <2>1. StaleDraw(t) => \A v \in sealed' : StaleUse(v) => v.peer # p
      BY DEF WearInv, StaleUse
    <2>2. CASE StaleUse(u) /\ StaleUse(w)
      BY <2>2 DEF WearInv, StaleUse
    <2>3. CASE ~StaleUse(u)
      BY <1>1, <1>6, <2>1, <2>3
    <2>4. CASE ~StaleUse(w)
      BY <1>1, <1>6, <2>1, <2>4
    <2> QED
      BY <2>2, <2>3, <2>4
  <1>10. \A v, w \in Threads : StaleDraw(v)' /\ StaleDraw(w)' /\ Owner(v) = Owner(w) => v = w
    BY <1>4 DEF WearInv
  <1>11. \A v \in Threads, u \in sealed' : StaleDraw(v)' /\ StaleUse(u)' => u.peer # Owner(v)
    BY <1>1, <1>4, <1>6 DEF WearInv, StaleUse
  <1>12. Worn(U)
    <2>1. \A w \in U : w.seq < start + MaxPackets
      BY <1>1, <1>5, <1>8 DEF UsesOf
    <2>2. \A v, w \in U : v.seq < start /\ w.seq < start => v = w
      BY <1>1, <1>5, <1>9, SMT DEF StaleUse, UsesOf
    <2> QED
      BY <1>2, <2>1, <2>2 DEF Worn
  <1>13. ASSUME NEW u \in sealed'
         PROVE  Worn(UsesOf(sealed', u.peer, u.key))
    <2>1. CASE u.peer = p /\ u.key = k
      BY <1>12, <2>1
    <2>2. CASE ~(u.peer = p /\ u.key = k)
      <3>1. u \in sealed
        BY <1>1, <2>2
      <3>2. UsesOf(sealed', u.peer, u.key) = UsesOf(sealed, u.peer, u.key)
        BY <1>1, <2>2 DEF UsesOf, Seals
      <3> QED
        BY <3>1, <3>2 DEF WearInv
    <2> QED
      BY <2>1, <2>2
  <1> QED
    BY <1>7, <1>8, <1>9, <1>10, <1>11, <1>13 DEF WearInv

(* Sealing shows no secret.                                                *)
LEMMA SealsFresh ==
    ASSUME Types, FreshInv, NoNews, NEW t \in Threads, Seals(t)
    PROVE  FreshInv'
  <1>1. /\ \A u \in sealed' : u \in sealed \/ u = UseOf(t)
        /\ UseOf(t).peer = Owner(t) /\ UseOf(t).key = sess[Owner(t)].sendCipher
        /\ UseOf(t).key # nil /\ kem' = kem
    BY DEF Seals, UseOf
  <1>2. \A p \in Peers : /\ sess'[p].sendCipher = sess[p].sendCipher
                         /\ sess'[p].pendingSendCipher = sess[p].pendingSendCipher
    BY DEF Seals
  <1>3. ASSUME NEW q \in Peers, NEW c, Unused(q, c)
        PROVE  /\ sess'[q].sendCipher # nil => Last(sess'[q].sendCipher) < c
               /\ \A u \in sealed' : u.peer = q => Last(u.key) < c
    BY <1>1, <1>2, <1>3 DEF Unused
  <1>4. \A q \in Peers : Unused(q, kem + 1)'
    BY <1>1, <1>3 DEF Unused, FreshInv
  <1>5. ASSUME NEW kp \in Nat, NEW ct \in Nat, Answering(kp, ct)'
        PROVE  Unused(Initiator, ct)' /\ ct <= kem'
    <2>1. Unused(Initiator, ct) /\ ct <= kem
      BY <1>5 DEF NoNews, FreshInv
    <2> QED
      BY <1>1, <1>3, <2>1, PeerFacts DEF Unused
  <1>6. ASSUME sess'[Responder].pendingSendCipher # nil
        PROVE  /\ Last(sess'[Responder].pendingSendCipher) <= kem'
               /\ Unused(Responder, Last(sess[Responder].pendingSendCipher))'
    BY <1>1, <1>2, <1>3, <1>6, PeerFacts DEF Unused, FreshInv
  <1> QED
    BY <1>4, <1>5, <1>6 DEF FreshInv

(* Session.Encrypt seals a record, or refuses to.                          *)
LEMMA SealKeeps ==
    ASSUME IInv, NEW t \in Threads, Seal(t)
    PROVE  Safe' /\ NoNews
  <1> DEFINE p == Owner(t)
  <1>1. Types /\ Roles /\ NonceInv /\ WearInv /\ TokenInv /\ FreshInv /\ Role(t) /\ pc[t] = "seal"
    BY DEF IInv, Safe, Roles, Seal
  <1>2. CASE /\ sess[p].sendCipher # nil /\ ~AtCap(sess[p], out[t].seq)
             /\ out' = [out EXCEPT ![t].key = sess[p].sendCipher]
             /\ sess' = [sess EXCEPT ![p].packetsSent = @ + 1]
             /\ sealed' = sealed \cup {UseOf(t)}
             /\ nonceReused' = (nonceReused \/ UseOf(t) \in sealed)
             /\ pc' = [pc EXCEPT ![t] = "write"]
             /\ UNCHANGED <<kem, writeMu, wire, in>>
    <2>1. Alone(t) /\ pc'[t] = "write"
      BY <1>1, <1>2 DEF Types, ThreadTypes, Alone, Stays
    <2>2. out'[t].kind = out[t].kind /\ out'[t].kp = out[t].kp /\ out'[t].ct = out[t].ct
      BY <1>1, <1>2 DEF Types, ThreadTypes, Frames
    <2>3. \A q \in Peers : /\ sess'[q].sendSeq = sess[q].sendSeq
                           /\ sess'[q].sendEpochStartSeq = sess[q].sendEpochStartSeq
                           /\ sess'[q].sendCipher = sess[q].sendCipher
                           /\ sess'[q].pendingSendCipher = sess[q].pendingSendCipher
                           /\ sess'[q].rekeyInProgress = sess[q].rekeyInProgress
      BY <1>1, <1>2 DEF Types, SessionTypes, Sessions
    <2>4. Seals(t)
      <3>1. UseOf(t).key = sess[p].sendCipher
        BY DEF UseOf
      <3> QED
        BY <1>1, <1>2, <2>1, <2>2, <2>3, <3>1 DEF Seals
    <2>5. Role(t)'
      BY <1>1, <1>2, <2>1, <2>2, PeerFacts, ThreadFacts DEF Role
    <2>6. SameMessage(t) /\ SameWire
      BY <1>2, <2>1, <2>2 DEF SameMessage, SameWire, RekeysOn, Handles
    <2>7. NoNews /\ \A v \in Threads : Carries(v)' => Carries(v)
      BY <2>1, <2>6, AloneQuiet
    <2>8. NoMessage
      BY <2>3, <2>6, <2>7, PeerFacts DEF NoMessage, SameWire
    <2>9. NonceInv' /\ WearInv' /\ FreshInv'
      BY <1>1, <2>4, <2>7, SealsNonce, SealsWear, SealsFresh
    <2> QED
      BY <1>1, <2>1, <2>5, <2>7, <2>8, <2>9, RolesKept, TokenQuiet DEF Safe
  <1>3. CASE /\ pc' = [pc EXCEPT ![t] = "idle"] /\ out' = [out EXCEPT ![t] = DataFrame] /\ Release(t)
             /\ UNCHANGED <<sess, sealed, nonceReused, kem, wire, in>>
    <2>1. pc'[t] = "idle" /\ out'[t] = DataFrame /\ DataFrame.kind = "data"
      BY <1>1, <1>3, FrameFields DEF Types, ThreadTypes
    <2>2. Alone(t)
      BY <1>1, <1>3, ThreadFacts DEF Release, Types, ThreadTypes, Alone, Stays
    <2>3. Role(t)'
      BY <1>1, <2>1 DEF Role
    <2>4. SameMessage(t) /\ SameWire
      BY <1>3, <2>1 DEF SameMessage, SameWire, RekeysOn, Handles
    <2>5. SameKeys
      BY <1>3 DEF SameKeys
    <2> QED
      BY <2>1, <2>2, <2>3, <2>4, <2>5, QuietKeeps
  <1> QED
    BY <1>2, <1>3 DEF Seal, UseOf
=============================================================================
