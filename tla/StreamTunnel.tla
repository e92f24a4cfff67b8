---------------------------- MODULE StreamTunnel ----------------------------
(***************************************************************************)
(* An established stream tunnel: the two Sessions (pkg/tunnel/session.go)  *)
(* and the two Transports (pkg/tunnel/transport.go) over one TCP           *)
(* connection.  Each peer runs application senders, one receive loop and   *)
(* one caller of Close; every lock region and every atomic of the code is  *)
(* one step.                                                               *)
(*                                                                         *)
(* A master secret is the sequence of KEM secrets ratcheted into it, and   *)
(* stands for the traffic keys derived from it; nil is the empty sequence. *)
(* A record opens under exactly the key that sealed it.                    *)
(***************************************************************************)
EXTENDS Naturals, Sequences, FiniteSets

CONSTANTS Initiator, Responder,  \* the two peers; each also names its receive loop
          InitiatorSenders,      \* goroutines calling Transport.Send
          ResponderSenders,
          Closers,               \* the peers whose application calls Close
          None,
          MaxSends,              \* bound: Send calls per goroutine
          MaxWriteFailures,      \* bound: writes that fail on a live connection
          HighWater,             \* datagramRekeyHighWater
          MaxPackets,            \* constants.MaxPacketsBeforeRekey
          WindowSize             \* StreamReplayWindowSize

Peers   == {Initiator, Responder}
Senders == InitiatorSenders \cup ResponderSenders
Threads == Senders \cup Peers

ASSUME StreamAssumption ==
    /\ Initiator # Responder
    /\ InitiatorSenders \cap ResponderSenders = {}
    /\ Senders \cap Peers = {}
    /\ None \notin Threads
    /\ Closers \subseteq Peers
    /\ MaxSends \in Nat /\ MaxWriteFailures \in Nat
    /\ HighWater \in Nat /\ MaxPackets \in Nat /\ WindowSize \in Nat

VARIABLES
    sess,          \* the two Session structs
    closed,        \* Transport.closed
    connOpen,      \* this side's net.Conn has not been closed
    writeMu,       \* the thread that holds Transport.writeMu, or None
    wire,          \* wire[p]: bytes in flight to p, as frames in order
    pc, out, in,   \* a thread's position, the frame it builds, the payload it handles
                   \* (both are DataFrame while dead)
    closePc,       \* position of the goroutine that calls Transport.Close
    sends,         \* Send calls made by each sender
    writeFailures,
    kem,           \* KEM key pairs and secrets generated so far
    accepted,      \* sequence numbers the replay window of each peer accepted
    sealed,        \* history: every (peer, key, sequence) used to seal
    nonceReused,   \* history: some such triple was used twice
    rejected,      \* history: a live peer failed to open a record
    exhaustedIdle  \* history: a seal was refused at the cap with no rekey under way

session == <<sess, kem>>
locals  == <<pc, out, in, sends>>
history == <<sealed, nonceReused, rejected, exhaustedIdle>>
vars == <<sess, closed, connOpen, writeMu, wire, pc, out, in, closePc, sends,
          writeFailures, kem, accepted, sealed, nonceReused, rejected, exhaustedIdle>>

nil == << >>
Peer(p)  == IF p = Initiator THEN Responder ELSE Initiator
Owner(t) == IF t \in InitiatorSenders \cup {Initiator} THEN Initiator ELSE Responder

DataFrame   == [kind |-> "data",  seq |-> 0, key |-> nil, kp |-> 0, ct |-> 0]
CloseNotify == [DataFrame EXCEPT !.kind = "closeNotify"]
RekeyFrame(kp, ct) == [DataFrame EXCEPT !.kind = "rekey", !.kp = kp, !.ct = ct]

\* The replay window of each peer, by the specification ReplayWindow implements.
Replay(p) == INSTANCE ReplaySpec WITH Seqs <- Nat, Size <- WindowSize,
                                      accepted <- accepted[p], verdict <- 0
-----------------------------------------------------------------------------
(* Both sessions as InitializeKeys leaves them after the handshake. *)

EstablishedSession ==
    [state |-> "Established", masterSecret |-> <<0>>,
     sendCipher |-> <<0>>, recvCipher |-> <<0>>,
     pendingRecvCipher |-> nil, pendingSendCipher |-> nil,
     pendingRekeySecret |-> nil, pendingRekeyKeyPair |-> 0,
     rekeyInProgress |-> FALSE,
     sendSeq |-> 0, sendEpochStartSeq |-> 0, packetsSent |-> 0]

Init ==
    /\ sess = [p \in Peers |-> EstablishedSession]
    /\ closed = [p \in Peers |-> FALSE]
    /\ connOpen = [p \in Peers |-> TRUE]
    /\ writeMu = [p \in Peers |-> None]
    /\ wire = [p \in Peers |-> << >>]
    /\ pc = [t \in Threads |-> "idle"]
    /\ out = [t \in Threads |-> DataFrame]
    /\ in = [p \in Peers |-> DataFrame]
    /\ closePc = [p \in Peers |-> "open"]
    /\ sends = [t \in Senders |-> 0]
    /\ writeFailures = 0
    /\ kem = 0
    /\ accepted = [p \in Peers |-> {}]
    /\ sealed = {}
    /\ nonceReused = FALSE
    /\ rejected = [p \in Peers |-> FALSE]
    /\ exhaustedIdle = FALSE
-----------------------------------------------------------------------------
(* Sending: Transport.Send, sealAndWrite, Session.Encrypt, writeFrame. *)

\* Faulty variant of Release: the unlock is forgotten.
ReleaseForgotten(t) == UNCHANGED writeMu

Release(t) == writeMu' = [writeMu EXCEPT ![Owner(t)] = IF @ = t THEN None ELSE @]

\* Send passes its closed check.
Send(t) ==
    /\ pc[t] = "idle"
    /\ sends[t] < MaxSends
    /\ ~closed[Owner(t)]
    /\ sends' = [sends EXCEPT ![t] = @ + 1]
    /\ pc' = [pc EXCEPT ![t] = "sealAndWrite"]
    /\ UNCHANGED <<session, closed, connOpen, writeMu, wire, out, in, closePc, writeFailures, accepted, history>>

\* Faulty variant of LockWrite: sealing is not part of the write's critical section.
LockWriteLate(t) == UNCHANGED writeMu

LockWrite(t) ==
    /\ writeMu[Owner(t)] = None
    /\ writeMu' = [writeMu EXCEPT ![Owner(t)] = t]

\* Faulty variant of DrawSeq: a rekey record borrows the next data record's number.
DrawSeqShared(t) ==
    LET p == Owner(t) IN
    /\ \/ pc[t] = "sealAndWrite" /\ LockWrite(t)
       \/ pc[t] = "encrypt" /\ UNCHANGED writeMu
    /\ out' = [out EXCEPT ![t].seq = sess[p].sendSeq]
    /\ sess' = IF out[t].kind = "rekey" THEN sess ELSE [sess EXCEPT ![p].sendSeq = @ + 1]
    /\ pc' = [pc EXCEPT ![t] = "seal"]
    /\ UNCHANGED <<kem, closed, connOpen, wire, in, closePc, sends, writeFailures, accepted, history>>

\* Encrypt draws its sequence number before it looks at the cipher.  A data record
\* is sealed and written under writeMu; a rekey record takes writeMu only to write.
DrawSeq(t) ==
    LET p == Owner(t) IN
    /\ \/ pc[t] = "sealAndWrite" /\ LockWrite(t)
       \/ pc[t] = "encrypt" /\ UNCHANGED writeMu
    /\ out' = [out EXCEPT ![t].seq = sess[p].sendSeq]
    /\ sess' = [sess EXCEPT ![p].sendSeq = @ + 1]
    /\ pc' = [pc EXCEPT ![t] = "seal"]
    /\ UNCHANGED <<kem, closed, connOpen, wire, in, closePc, sends, writeFailures, accepted, history>>

\* Faulty variant of AtCap: no cap.
AtCapNever(s, seq) == FALSE

AtCap(s, seq) == seq >= s.sendEpochStartSeq /\ seq - s.sendEpochStartSeq >= MaxPackets

\* The rest of Encrypt: the cipher and its starting sequence are read together.
Seal(t) ==
    LET p == Owner(t)
        s == sess[p]
        use == [peer |-> p, key |-> s.sendCipher, seq |-> out[t].seq]
    IN
    /\ pc[t] = "seal"
    /\ \/ /\ s.sendCipher # nil /\ ~AtCap(s, out[t].seq)
          /\ out' = [out EXCEPT ![t].key = s.sendCipher]
          /\ sess' = [sess EXCEPT ![p].packetsSent = @ + 1]
          /\ sealed' = sealed \cup {use}
          /\ nonceReused' = (nonceReused \/ use \in sealed)
          /\ pc' = [pc EXCEPT ![t] = "write"]
          /\ UNCHANGED <<writeMu, exhaustedIdle>>
       \/ /\ s.sendCipher = nil \/ AtCap(s, out[t].seq)
          /\ exhaustedIdle' = (exhaustedIdle \/ (s.sendCipher # nil /\ ~s.rekeyInProgress))
          /\ pc' = [pc EXCEPT ![t] = "idle"]
          /\ out' = [out EXCEPT ![t] = DataFrame]
          /\ Release(t)
          /\ UNCHANGED <<sess, sealed, nonceReused>>
    /\ UNCHANGED <<kem, closed, connOpen, wire, in, closePc, sends, writeFailures, accepted, rejected>>

\* What a thread does once its record is on the wire: a sender that sent data runs
\* CheckAndRekey (a no-op for the responder), the responder's receive loop switches
\* its send cipher.
AfterWrite(t) ==
    CASE t \in InitiatorSenders /\ out[t].kind = "data" -> "check"
      [] t \in Peers -> "activate"
      [] OTHER -> "idle"

\* Bytes sent to a side that has closed its connection are lost.
Transmit(p, frame) ==
    wire' = IF connOpen[Peer(p)] THEN [wire EXCEPT ![Peer(p)] = Append(@, frame)] ELSE wire

AfterFailedWrite(t) == "idle"

\* writeLocked; it fails on a closed connection, and may time out on an open one.
Write(t) ==
    LET p == Owner(t) IN
    /\ pc[t] = "write"
    /\ writeMu[p] \in {t, None}
    /\ Release(t)
    /\ out' = [out EXCEPT ![t] = DataFrame]
    /\ \/ /\ connOpen[p]
          /\ Transmit(p, out[t])
          /\ pc' = [pc EXCEPT ![t] = AfterWrite(t)]
          /\ UNCHANGED writeFailures
       \/ /\ ~connOpen[p] /\ UNCHANGED writeFailures
          /\ pc' = [pc EXCEPT ![t] = AfterFailedWrite(t)]
          /\ UNCHANGED wire
       \/ /\ connOpen[p] /\ writeFailures < MaxWriteFailures
          /\ writeFailures' = writeFailures + 1
          /\ pc' = [pc EXCEPT ![t] = AfterFailedWrite(t)]
          /\ UNCHANGED wire
    /\ UNCHANGED <<session, closed, connOpen, in, closePc, sends, accepted, history>>
-----------------------------------------------------------------------------
(* Starting a rekey: CheckAndRekey, SendRekey, InitiateRekey. *)

\* The byte and time limits can be reached at any moment, so they only ever make
\* NeedsRekey true earlier: limitHit stands for them.
NeedsRekey(s, limitHit) ==
    /\ s.sendCipher # nil
    /\ \/ s.sendSeq - s.sendEpochStartSeq >= HighWater
       \/ s.packetsSent >= MaxPackets
       \/ limitHit

CheckAndRekey(t) ==
    LET p == Owner(t) IN
    /\ pc[t] = "check"
    /\ \E limitHit \in BOOLEAN :
          pc' = [pc EXCEPT ![t] =
                    IF ~sess[p].rekeyInProgress /\ NeedsRekey(sess[p], limitHit) /\ ~closed[p]
                    THEN "initiate" ELSE "idle"]
    /\ UNCHANGED <<session, closed, connOpen, writeMu, wire, out, in, closePc, sends,
                   writeFailures, accepted, history>>

InitiateRekey(t) ==
    LET p == Owner(t) IN
    /\ pc[t] = "initiate"
    /\ \/ /\ ~sess[p].rekeyInProgress /\ sess[p].state = "Established"
          /\ kem' = kem + 1
          /\ sess' = [sess EXCEPT ![p].rekeyInProgress = TRUE,
                                  ![p].pendingRekeyKeyPair = kem + 1,
                                  ![p].state = "Rekeying"]
          /\ out' = [out EXCEPT ![t] = RekeyFrame(kem + 1, 0)]
          /\ pc' = [pc EXCEPT ![t] = "encrypt"]
       \/ /\ sess[p].rekeyInProgress \/ sess[p].state # "Established"
          /\ pc' = [pc EXCEPT ![t] = "idle"]
          /\ UNCHANGED <<session, out>>
    /\ UNCHANGED <<closed, connOpen, writeMu, wire, in, closePc, sends, writeFailures, accepted, history>>
-----------------------------------------------------------------------------
(* Receiving: Transport.Receive, Session.Decrypt, handleRekey. *)

\* Receive is called and passes checkClosed.
Receive(p) ==
    /\ pc[p] = "idle"
    /\ ~closed[p]
    /\ pc' = [pc EXCEPT ![p] = "reading"]
    /\ UNCHANGED <<session, closed, connOpen, writeMu, wire, out, in, closePc, sends,
                   writeFailures, accepted, history>>

Handling(frame) == IF frame.kind = "rekey" THEN "handleRekey" ELSE "idle"

\* Decrypt: the ciphers are read once, the sequence is recorded, the record is
\* tried under the current and then under the pending cipher.
Decrypt(p, frame) ==
    LET s == sess[p]
        fresh == Replay(p)!Fresh(frame.seq)
        opensNow == fresh /\ frame.key = s.recvCipher
        opensPending == fresh /\ ~opensNow /\ s.pendingRecvCipher # nil /\ frame.key = s.pendingRecvCipher
    IN
    \/ /\ s.recvCipher = nil
       /\ pc' = [pc EXCEPT ![p] = "idle"]
       /\ UNCHANGED <<accepted, rejected>>
    \/ /\ s.recvCipher # nil
       /\ accepted' = IF fresh THEN [accepted EXCEPT ![p] = @ \cup {frame.seq}] ELSE accepted
       /\ rejected' = [rejected EXCEPT ![p] = @ \/ ~(opensNow \/ opensPending)]
       /\ pc' = [pc EXCEPT ![p] = IF opensNow THEN Handling(frame)
                                  ELSE IF opensPending THEN "promote" ELSE "idle"]

ReadMessage(p) ==
    /\ pc[p] = "reading"
    /\ connOpen[p] /\ wire[p] # << >>
    /\ LET frame == Head(wire[p]) IN
       /\ in' = [in EXCEPT ![p] = IF frame.kind = "rekey" THEN RekeyFrame(frame.kp, frame.ct) ELSE DataFrame]
       /\ wire' = [wire EXCEPT ![p] = Tail(@)]
       /\ \/ /\ frame.kind = "closeNotify"
             /\ closed' = [closed EXCEPT ![p] = TRUE]
             /\ pc' = [pc EXCEPT ![p] = "idle"]
             /\ UNCHANGED <<accepted, rejected>>
          \/ /\ frame.kind # "closeNotify"
             /\ Decrypt(p, frame)
             /\ UNCHANGED closed
    /\ UNCHANGED <<session, connOpen, writeMu, out, closePc, sends, writeFailures,
                   sealed, nonceReused, exhaustedIdle>>

\* The connection is closed on this side, or the peer closed it and all is read.
ReadFails(p) ==
    /\ pc[p] = "reading"
    /\ ~connOpen[p] \/ (wire[p] = << >> /\ ~connOpen[Peer(p)])
    /\ pc' = [pc EXCEPT ![p] = "idle"]
    /\ UNCHANGED <<session, closed, connOpen, writeMu, wire, out, in, closePc, sends,
                   writeFailures, accepted, history>>

promotePendingRecvCipher(p) ==
    /\ pc[p] = "promote"
    /\ sess' = IF sess[p].pendingRecvCipher = nil THEN sess
               ELSE [sess EXCEPT ![p].recvCipher = sess[p].pendingRecvCipher,
                                 ![p].pendingRecvCipher = nil]
    /\ pc' = [pc EXCEPT ![p] = Handling(in[p])]
    /\ UNCHANGED <<kem, closed, connOpen, writeMu, wire, out, in, closePc, sends,
                   writeFailures, accepted, history>>

\* Faulty variant of Decapsulate: another key pair than the pending one is used.
DecapsulateOther(kp, frame) == kem + 1

\* ML-KEM rejects implicitly: a ciphertext for another key pair decapsulates, without
\* an error, to a secret nobody else has.
Decapsulate(kp, frame) == IF frame.kp = kp THEN frame.ct ELSE kem + 1

\* Faulty variant of finalizeRekeyStateLocked: the in-progress flag stays set.
finalizeStillInProgress(s) ==
    [s EXCEPT !.masterSecret = IF s.pendingRekeySecret # nil THEN s.pendingRekeySecret ELSE @,
              !.pendingRekeySecret = nil, !.state = "Established"]

\* finalizeRekeyStateLocked on a session that already has its other changes.
finalizeRekeyStateLocked(s) ==
    [s EXCEPT !.masterSecret = IF s.pendingRekeySecret # nil THEN s.pendingRekeySecret ELSE @,
              !.pendingRekeySecret = nil,
              !.rekeyInProgress = FALSE,
              !.state = "Established"]

\* What PrepareRekeyResponse stores.
PendingResponse(s, newSecret) ==
    [s EXCEPT !.rekeyInProgress = TRUE,
              !.state = "Rekeying",
              !.pendingRecvCipher = newSecret,
              !.pendingSendCipher = newSecret,
              !.pendingRekeySecret = newSecret]

PrepareRekeyResponse(p) ==
    LET s == sess[p]
        newSecret == Append(s.masterSecret, kem + 1)
    IN
    /\ p = Responder /\ ~s.rekeyInProgress
    /\ \/ /\ s.state \in {"Established", "Rekeying"} /\ s.masterSecret # nil
          /\ kem' = kem + 1
          /\ sess' = [sess EXCEPT ![p] = PendingResponse(s, newSecret)]
          /\ out' = [out EXCEPT ![p] = RekeyFrame(in[p].kp, kem + 1)]
          /\ pc' = [pc EXCEPT ![p] = "encrypt"]
       \/ /\ s.state \notin {"Established", "Rekeying"} \/ s.masterSecret = nil
          /\ pc' = [pc EXCEPT ![p] = "idle"]
          /\ UNCHANGED <<session, out>>

ProcessRekeyResponse(p) ==
    LET s == sess[p]
        newSecret == Append(s.masterSecret, Decapsulate(s.pendingRekeyKeyPair, in[p]))
    IN
    /\ p = Initiator /\ s.rekeyInProgress
    /\ \/ /\ s.pendingRekeyKeyPair # 0 /\ s.masterSecret # nil
          /\ kem' = IF in[p].kp = s.pendingRekeyKeyPair THEN kem ELSE kem + 1
          /\ sess' = [sess EXCEPT ![p] = finalizeRekeyStateLocked(
                        [s EXCEPT !.sendCipher = newSecret,
                                  !.sendEpochStartSeq = s.sendSeq,
                                  !.pendingRecvCipher = newSecret,
                                  !.pendingRekeySecret = newSecret,
                                  !.pendingRekeyKeyPair = 0])]
       \/ /\ s.pendingRekeyKeyPair = 0 \/ s.masterSecret = nil
          /\ UNCHANGED session
    /\ pc' = [pc EXCEPT ![p] = "idle"]
    /\ UNCHANGED out

\* handleRekey after its Decrypt; a rekey message that fits no role is ignored.
HandleRekey(p) ==
    /\ pc[p] = "handleRekey"
    /\ \/ PrepareRekeyResponse(p)
       \/ ProcessRekeyResponse(p)
       \/ /\ sess[p].rekeyInProgress = (p = Responder)
          /\ pc' = [pc EXCEPT ![p] = "idle"]
          /\ UNCHANGED <<session, out>>
    /\ in' = [in EXCEPT ![p] = DataFrame]
    /\ UNCHANGED <<closed, connOpen, writeMu, wire, closePc, sends, writeFailures, accepted, history>>

SwitchSend(s) ==
    IF s.pendingSendCipher = nil THEN s
    ELSE [s EXCEPT !.sendCipher = s.pendingSendCipher,
                   !.pendingSendCipher = nil,
                   !.sendEpochStartSeq = s.sendSeq]

ActivateRekeySend(p) ==
    /\ pc[p] = "activate"
    /\ sess' = [sess EXCEPT ![p] = finalizeRekeyStateLocked(SwitchSend(sess[p]))]
    /\ pc' = [pc EXCEPT ![p] = "idle"]
    /\ UNCHANGED <<kem, closed, connOpen, writeMu, wire, out, in, closePc, sends,
                   writeFailures, accepted, history>>
-----------------------------------------------------------------------------
(* Transport.Close, called once by the application of each peer in Closers. *)

\* The closed flag is tested and set in one critical section.
Close(p) ==
    /\ closePc[p] = "open" /\ p \in Closers
    /\ closePc' = [closePc EXCEPT ![p] = IF closed[p] THEN "returned" ELSE "notify"]
    /\ closed' = [closed EXCEPT ![p] = TRUE]
    /\ UNCHANGED <<session, connOpen, writeMu, wire, locals, writeFailures, accepted, history>>

\* The alert is sent only by an Established session, and its failure is ignored.
NotifyPeer(p) ==
    /\ \/ /\ closePc[p] = "notify"
          /\ closePc' = [closePc EXCEPT ![p] =
                            IF sess[p].state = "Established" THEN "alert" ELSE "session"]
          /\ UNCHANGED wire
       \/ /\ closePc[p] = "alert" /\ writeMu[p] = None
          /\ closePc' = [closePc EXCEPT ![p] = "session"]
          /\ UNCHANGED wire \/ Transmit(p, CloseNotify)
    /\ UNCHANGED <<session, closed, connOpen, writeMu, locals, writeFailures, accepted, history>>

\* Session.Close.
CloseSession(p) ==
    /\ closePc[p] = "session"
    /\ closePc' = [closePc EXCEPT ![p] = "conn"]
    /\ sess' = [sess EXCEPT ![p].state = "Closed", ![p].masterSecret = nil,
                            ![p].sendCipher = nil, ![p].recvCipher = nil]
    /\ UNCHANGED <<kem, closed, connOpen, writeMu, wire, locals, writeFailures, accepted, history>>

CloseConn(p) ==
    /\ closePc[p] = "conn"
    /\ closePc' = [closePc EXCEPT ![p] = "returned"]
    /\ connOpen' = [connOpen EXCEPT ![p] = FALSE]
    /\ UNCHANGED <<session, closed, writeMu, wire, locals, writeFailures, accepted, history>>
-----------------------------------------------------------------------------
SenderStep(t) == DrawSeq(t) \/ Seal(t) \/ Write(t) \/ CheckAndRekey(t) \/ InitiateRekey(t)

ReceiverStep(p) ==
    \/ Receive(p) \/ ReadMessage(p) \/ ReadFails(p) \/ promotePendingRecvCipher(p)
    \/ HandleRekey(p) \/ DrawSeq(p) \/ Seal(p) \/ Write(p) \/ ActivateRekeySend(p)

CloserStep(p) == NotifyPeer(p) \/ CloseSession(p) \/ CloseConn(p)

Next ==
    \/ \E t \in Senders : Send(t) \/ SenderStep(t)
    \/ \E p \in Peers : ReceiverStep(p) \/ Close(p) \/ CloserStep(p)

Spec == Init /\ [][Next]_vars

\* The Go scheduler runs every goroutine that can take a step, and the receive loop
\* keeps calling Receive; a blocked write ends at its deadline (WriteTimeout > 0).  Whether
\* a sender sends or a peer closes is up to them.
Fairness == /\ \A t \in Senders : WF_vars(SenderStep(t))
            /\ \A p \in Peers : WF_vars(ReceiverStep(p)) /\ WF_vars(CloserStep(p))

FairSpec == Spec /\ Fairness
-----------------------------------------------------------------------------
Keys == Seq(Nat)
Frames == [kind : {"data", "rekey", "closeNotify"}, seq : Nat, key : Keys, kp : Nat, ct : Nat]
Sessions == [state : {"Established", "Rekeying", "Closed"},
             masterSecret : Keys, sendCipher : Keys, recvCipher : Keys,
             pendingRecvCipher : Keys, pendingSendCipher : Keys,
             pendingRekeySecret : Keys, pendingRekeyKeyPair : Nat, rekeyInProgress : BOOLEAN,
             sendSeq : Nat, sendEpochStartSeq : Nat, packetsSent : Nat]

\* Every field of the sessions, transports and goroutines keeps its type.
TypeOK ==
    /\ sess \in [Peers -> Sessions]
    /\ closed \in [Peers -> BOOLEAN] /\ connOpen \in [Peers -> BOOLEAN]
    /\ writeMu \in [Peers -> Threads \cup {None}]
    /\ wire \in [Peers -> Seq(Frames)]
    /\ pc \in [Threads -> {"idle", "sealAndWrite", "encrypt", "seal", "write", "check", "initiate",
                           "reading", "promote", "handleRekey", "activate"}]
    /\ out \in [Threads -> Frames] /\ in \in [Peers -> Frames]
    /\ closePc \in [Peers -> {"open", "notify", "alert", "session", "conn", "returned"}]
    /\ sends \in [Senders -> 0 .. MaxSends] /\ writeFailures \in 0 .. MaxWriteFailures
    /\ kem \in Nat /\ accepted \in [Peers -> SUBSET Nat]
    /\ sealed \subseteq [peer : Peers, key : Keys, seq : Nat]
    /\ nonceReused \in BOOLEAN /\ exhaustedIdle \in BOOLEAN
    /\ rejected \in [Peers -> BOOLEAN]

\* Every record that reaches a live receiver opens, across any number of rekeys and
\* any interleaving of senders with the two key switches: no authentication failure,
\* and no false replay while fewer than WindowSize records are under way
\* (sealAndWrite's single critical section, trial decryption).
RecordsOpen == \A p \in Peers : ~rejected[p]

\* No key ever seals two records with the same sequence number, and so the same
\* derived nonce (Encrypt's atomic sendSeq, never reset by a rekey).
NonceNeverReused == ~nonceReused

SealedUnder(p, k) == Cardinality({u \in sealed : u.peer = p /\ u.key = k})

\* A key seals at most one record more than MaxPackets: the seq >= startSeq guard of
\* Encrypt exempts one record, whose sequence number was drawn before the key switch.
\* This is weaker than what Encrypt's comment and the protocol say: see HardCap.
KeyWearBounded == \A u \in sealed : SealedUnder(u.peer, u.key) <= MaxPackets + 1

\* Encrypt's "hard cap on how many records this epoch's key seals", and the key wear of
\* docs/PROTOCOL.md section 7: an epoch's key seals at most MaxPackets records.
HardCap == \A u \in sealed : SealedUnder(u.peer, u.key) <= MaxPackets

\* The secrets follow one chain: the responder extends it when it prepares a response
\* (its pendingRekeySecret), only when both peers hold all of it, and each peer then
\* adopts the new secret (finalizeRekeyStateLocked).
Chain == INSTANCE Ratchet WITH
             chain <- IF sess[Responder].pendingRekeySecret # nil
                      THEN sess[Responder].pendingRekeySecret ELSE sess[Responder].masterSecret,
             secret <- [p \in Peers |-> sess[p].masterSecret]
ImplementsRatchet == Chain!Spec

RekeyQuiet ==
    \A p \in Peers : /\ ~sess[p].rekeyInProgress /\ pc[p] \in {"idle", "reading"}
                     /\ sess[p].state = "Established"
                     /\ \A i \in 1 .. Len(wire[p]) : wire[p][i].kind # "rekey"

\* Once no rekey is under way both peers hold the same master secret, and each can
\* open what the other seals now, with its current or its pending receive cipher.
QuietAgreement ==
    RekeyQuiet => \A p \in Peers :
        /\ sess[p].masterSecret = sess[Peer(p)].masterSecret
        /\ sess[p].sendCipher = sess[p].masterSecret
        /\ sess[p].sendCipher \in {sess[Peer(p)].recvCipher, sess[Peer(p)].pendingRecvCipher}

Disturbed == writeFailures > 0 \/ \E p \in Peers : closePc[p] # "open"

\* A rekey that starts completes on both sides, unless a write fails or a peer closes
\* (and with caps that are not reached before): no interleaving strands
\* rekeyInProgress.
RekeyCompletes ==
    \A p \in Peers : sess[p].rekeyInProgress ~> ~sess[p].rekeyInProgress \/ Disturbed

\* Transport.Close always returns, however its locks and writes interleave.
CloseReturns == \A p \in Closers : closePc[p] # "open" ~> closePc[p] = "returned"

\* Encrypt's comment: NeedsRekey starts a rekey well before the cap, so a seal is
\* refused at the cap only while a rekey is under way.
CapOnlyDuringRekey == ~exhaustedIdle

\* Session.Close terminates the session: no later step leaves the Closed state.
ClosedIsFinal == [][\A p \in Peers : sess[p].state = "Closed" => sess'[p].state = "Closed"]_vars

\* After Transport.Close has returned, the session is closed and the connection released.
CloseReleases == \A p \in Peers :
    closePc[p] = "returned" => sess[p].masterSecret = nil /\ ~connOpen[p]
=============================================================================
