------------------------ MODULE DatagramRekey_proofs ------------------------
(***************************************************************************)
(* For any numbers of sends, rekeys, retransmissions and losses, any cap   *)
(* and any epoch modulus: the epochs of the peers stay adjacent, no nonce  *)
(* is used twice, and, while no counter nears its width, a header names    *)
(* the key that seals its frame and a key seals no more than the cap.      *)
(* When no rekey times out and nobody closes, equal epochs have equal keys *)
(* and the keys follow one chain.                                          *)
(***************************************************************************)
EXTENDS DatagramRekey, TLAPS

\* Zenon proves the leaves that do not name another prover.
USE Zenon

(* Types *)

\* TypeOK in four parts (the sessions, the sealing goroutines and the network, the rekey,
\* what was accepted and sealed), with the types of the frames that are built.
SessionTypes ==
    /\ cur \in [Peers -> EpochRecords] /\ prev \in [Peers -> EpochRecords]
    /\ master \in [Peers -> Keys] /\ live \in [Peers -> BOOLEAN] /\ sendSeq \in [Peers -> Nat]
    /\ advancing \in [Peers -> Keys] /\ kem \in Nat

Positions == {"idle", "header", "seal", "closing", "teardown", "closed"}
ThreadTypes ==
    /\ net \subseteq Frames
    /\ pc \in [Threads -> Positions] /\ out \in [Threads -> Frames] /\ sends \in [Threads -> Nat]
    /\ \A t \in Threads : out[t].type \in {"data", "close"}

ControlTypes ==
    /\ rekey \in [on : BOOLEAN, kp : Nat, attempts : Nat, frame : Frames]
    /\ inbox \in Seq(Frames) /\ Len(inbox) <= InboxCap
    /\ resp \in [valid : BOOLEAN, from : Epochs, frame : Frames]
    /\ rekeys \in 0 .. MaxRekeys
    /\ rekey.frame.type = "init" /\ resp.frame.type = "resp"

Uses == [peer : Peers, key : Keys, seq : Nat, type : {"data", "close", "control"}]
HistoryTypes ==
    /\ accepted \in [Peers -> SUBSET Nat] /\ sealed \subseteq Uses /\ nonceReused \in BOOLEAN

Types == SessionTypes /\ ThreadTypes /\ ControlTypes /\ HistoryTypes

(* The peers and their goroutines.                                         *)
LEMMA PeerFacts ==
    /\ Initiator \in Peers /\ Responder \in Peers /\ Initiator # Responder
    /\ \A p \in Peers : (p = Initiator \/ p = Responder) /\ Peer(p) \in Peers
    /\ Peer(Initiator) = Responder /\ Peer(Responder) = Initiator
    /\ \A t \in Threads : t[1] \in Peers /\ t[2] \in Kinds
  BY DatagramAssumption DEF Peers, Peer, Threads

(* The epoch is a byte: adding one wraps.                                  *)
LEMMA EpochFacts ==
    /\ EpochMod \in Nat /\ EpochMod > 1 /\ 0 \in Epochs
    /\ \A e \in Epochs : e \in Nat /\ e < EpochMod /\ nextEpoch(e) \in Epochs
    /\ \A e \in Epochs : nextEpoch(e) = IF e + 1 = EpochMod THEN 0 ELSE e + 1
  <1>1. EpochMod \in Nat /\ EpochMod > 1
    BY DatagramAssumption, SMT
  <1>2. ASSUME NEW e \in Epochs
        PROVE  nextEpoch(e) = IF e + 1 = EpochMod THEN 0 ELSE e + 1
    <2>1. e \in Nat /\ e < EpochMod
      BY <1>1, <1>2, SMT DEF Epochs
    <2>2. CASE e + 1 = EpochMod
      <3>1. EpochMod % EpochMod = 0
        BY <1>1, SMT
      <3> QED
        BY <2>2, <3>1 DEF nextEpoch
    <2>3. CASE e + 1 < EpochMod
      <3>1. (e + 1) % EpochMod = e + 1
        BY <1>1, <2>1, <2>3, SMT
      <3> QED
        BY <1>1, <2>1, <2>3, <3>1, SMT DEF nextEpoch
    <2> QED
      BY <1>1, <2>1, <2>2, <2>3, SMT
  <1> QED
    BY <1>1, <1>2, SMT DEF Epochs

(* The frames that are built have their types.                             *)
LEMMA FrameTypes ==
    ASSUME NEW type \in {"data", "close", "init", "resp"}, NEW to \in Peers
    PROVE  /\ Frame(type, to) \in Frames /\ Frame(type, to).type = type
           /\ nil \in Keys /\ NoEpoch \in EpochRecords
  <1>1. nil \in Keys /\ 0 \in Epochs
    BY EpochFacts, SMT DEF nil, Keys
  <1> QED
    BY <1>1 DEF Frame, Frames, NoEpoch, EpochRecords

(* Sealing is recorded.                                                    *)
LEMMA UseTypes ==
    ASSUME Types, NEW p \in Peers, NEW seq \in Nat, NEW type \in {"data", "close", "control"},
           Use(p, seq, type)
    PROVE  sealed' \subseteq Uses /\ nonceReused' \in BOOLEAN
  <1> DEFINE use == [peer |-> p, key |-> cur[p].key, seq |-> seq, type |-> type]
  <1>1. cur[p].key \in Keys
    BY DEF Types, SessionTypes, EpochRecords
  <1>2. use \in Uses
    BY <1>1 DEF Uses
  <1>3. sealed' = sealed \cup {use}
    BY DEF Use
  <1>4. nonceReused' \in BOOLEAN
    BY DEF Use, Types, HistoryTypes
  <1> HIDE DEF use
  <1> QED
    BY <1>2, <1>3, <1>4 DEF Types, HistoryTypes

(* A sequence number is drawn.                                             *)
LEMMA Draws ==
    ASSUME Types, NEW p \in Peers, nextDatagramSeq(p)
    PROVE  /\ sendSeq' \in [Peers -> Nat] /\ sendSeq'[p] = sendSeq[p] + 1
           /\ \A q \in Peers : sendSeq'[q] >= sendSeq[q] /\ (q # p => sendSeq'[q] = sendSeq[q])
  BY SMT DEF nextDatagramSeq, Types, SessionTypes

(* A sequence with another last element.                                   *)
LEMMA NewLast ==
    ASSUME NEW k \in Keys, k # nil, NEW c \in Nat
    PROVE  [k EXCEPT ![Len(k)] = c] \in Keys /\ Len([k EXCEPT ![Len(k)] = c]) = Len(k)
  BY SMT DEF Keys, nil

(* Closing a session may spoil the secret it was about to advance to.      *)
LEMMA CloseTypes ==
    ASSUME Types, NEW p \in Peers, SessionClose(p)
    PROVE  /\ master' = [master EXCEPT ![p] = nil] /\ master' \in [Peers -> Keys]
           /\ advancing' \in [Peers -> Keys] /\ kem' \in Nat
           /\ \A q \in Peers : /\ advancing'[q] = nil <=> advancing[q] = nil
                               /\ Len(advancing'[q]) = Len(advancing[q])
  <1>1. master' = [master EXCEPT ![p] = nil] /\ master' \in [Peers -> Keys]
    BY SMT DEF SessionClose, Types, SessionTypes, nil, Keys
  <1>2. CASE UNCHANGED <<advancing, kem>>
    BY <1>1, <1>2 DEF Types, SessionTypes
  <1>3. CASE /\ advancing[p] # nil
             /\ advancing' = [advancing EXCEPT ![p][Len(advancing[p])] = kem + 1] /\ kem' = kem + 1
    <2> DEFINE k == [advancing[p] EXCEPT ![Len(advancing[p])] = kem + 1]
    <2>1. advancing[p] \in Keys /\ kem + 1 \in Nat
      BY SMT DEF Types, SessionTypes
    <2>2. k \in Keys /\ Len(k) = Len(advancing[p])
      BY <1>3, <2>1, NewLast
    <2>3. advancing' = [advancing EXCEPT ![p] = k]
      BY <1>3
    <2> HIDE DEF k
    <2>4. k # nil
      BY <1>3, <2>1, <2>2, SMT DEF Keys, nil
    <2>5. /\ advancing'[p] = k /\ (\A q \in Peers : q # p => advancing'[q] = advancing[q])
          /\ advancing' \in [Peers -> Keys]
      BY <2>2, <2>3 DEF Types, SessionTypes
    <2> QED
      BY <1>1, <1>3, <2>1, <2>2, <2>4, <2>5
  <1> QED
    BY <1>1, <1>2, <1>3 DEF SessionClose

\* p's epoch advances.
Advances(p) ==
    /\ advancing[p] # nil /\ cur'[p].epoch = nextEpoch(cur[p].epoch)
    /\ cur'[p].key = advancing[p] /\ cur'[p].startSeq = sendSeq[p]
    /\ prev'[p] = cur[p] /\ master'[p] = advancing[p] /\ advancing'[p] = nil
    /\ \A q \in Peers : q # p => /\ cur'[q] = cur[q] /\ prev'[q] = prev[q]
                                 /\ master'[q] = master[q] /\ advancing'[q] = advancing[q]

(* AdvanceDatagramEpoch, field by field.                                   *)
LEMMA AdvanceTypes ==
    ASSUME Types, NEW p \in Peers, AdvanceDatagramEpoch(p)
    PROVE  /\ Advances(p)
           /\ cur' \in [Peers -> EpochRecords] /\ prev' \in [Peers -> EpochRecords]
           /\ master' \in [Peers -> Keys] /\ advancing' \in [Peers -> Keys]
  <1> DEFINE e == [epoch |-> nextEpoch(cur[p].epoch), key |-> advancing[p], startSeq |-> sendSeq[p]]
  <1>1. /\ cur \in [Peers -> EpochRecords] /\ prev \in [Peers -> EpochRecords]
        /\ master \in [Peers -> Keys] /\ advancing \in [Peers -> Keys] /\ sendSeq[p] \in Nat
        /\ nil \in Keys
    BY SMT DEF Types, SessionTypes, nil, Keys
  <1>2. e \in EpochRecords
    <2>1. nextEpoch(cur[p].epoch) \in Epochs /\ advancing[p] \in Keys
      BY <1>1, EpochFacts DEF EpochRecords
    <2> QED
      BY <1>1, <2>1 DEF EpochRecords
  <1>3. /\ advancing[p] # nil /\ prev' = [prev EXCEPT ![p] = cur[p]] /\ cur' = [cur EXCEPT ![p] = e]
        /\ master' = [master EXCEPT ![p] = advancing[p]] /\ advancing' = [advancing EXCEPT ![p] = nil]
    BY DEF AdvanceDatagramEpoch
  <1>4. e.epoch = nextEpoch(cur[p].epoch) /\ e.key = advancing[p] /\ e.startSeq = sendSeq[p]
    OBVIOUS
  <1> HIDE DEF e
  <1>5. Advances(p)
    BY <1>1, <1>3, <1>4 DEF Advances
  <1> QED
    BY <1>1, <1>2, <1>3, <1>5
-----------------------------------------------------------------------------
(* The steps of Send and Close keep the types.                             *)
LEMMA SendTypes ==
    ASSUME Types, NEW t \in Threads, DrawSeq(t) \/ SealStep(t)
    PROVE  Types'
  <1> DEFINE p == t[1]
  <1>1. /\ p \in Peers /\ Peer(p) \in Peers /\ out[t] \in Frames /\ sendSeq[p] \in Nat
        /\ cur[p].epoch \in Epochs /\ cur[p].key \in Keys /\ sends[t] \in Nat
    BY PeerFacts DEF Types, SessionTypes, ThreadTypes, EpochRecords
  <1>2. CASE DrawSeq(t)
    <2> DEFINE type == IF t[2] = "send" THEN "data" ELSE "close"
               frame == [Frame(type, Peer(p)) EXCEPT !.seq = sendSeq[p]]
    <2>1. frame \in Frames /\ frame.type \in {"data", "close"}
      <3>1. /\ type \in {"data", "close"} /\ Frame(type, Peer(p)) \in Frames
            /\ Frame(type, Peer(p)).type = type
        BY <1>1, FrameTypes
      <3> HIDE DEF type
      <3> QED
        BY <1>1, <3>1 DEF Frames
    <2>2. /\ out' = [out EXCEPT ![t] = frame]
          /\ sendSeq' = [sendSeq EXCEPT ![p] = @ + 1]
          /\ sends' = [sends EXCEPT ![t] = @ + 1] /\ pc' = [pc EXCEPT ![t] = "header"]
          /\ UNCHANGED <<cur, prev, master, live, net, control, accepted, history>>
      BY <1>2 DEF DrawSeq, nextDatagramSeq
    <2> HIDE DEF frame
    <2>3. SessionTypes'
      BY <1>1, <2>2, SMT DEF Types, SessionTypes, control
    <2>4. ThreadTypes'
      BY <1>1, <2>1, <2>2, SMT DEF Types, ThreadTypes, Positions
    <2> QED
      BY <2>2, <2>3, <2>4 DEF Types, ControlTypes, HistoryTypes, control, history
  <1>3. CASE ReadEpoch(t)
    <2> DEFINE frame == [out[t] EXCEPT !.epoch = cur[p].epoch]
    <2>1. frame \in Frames /\ frame.type = out[t].type
      BY <1>1 DEF Frames
    <2>2. /\ out' = [out EXCEPT ![t] = frame]
          /\ pc' = [pc EXCEPT ![t] = "seal"]
          /\ UNCHANGED <<session, net, sends, control, accepted, history>>
      BY <1>3 DEF ReadEpoch
    <2> HIDE DEF frame
    <2>3. ThreadTypes'
      BY <2>1, <2>2 DEF Types, ThreadTypes, Positions
    <2> QED
      BY <2>2, <2>3 DEF Types, SessionTypes, ControlTypes, HistoryTypes, session, control, history
  <1>4. CASE Seal(t)
    <2> DEFINE frame == [out[t] EXCEPT !.key = cur[p].key]
               type == out[t].type
    <2>1. /\ frame \in Frames /\ out[t].seq \in Nat /\ type \in {"data", "close"}
          /\ Frame("data", p) \in Frames /\ Frame("data", p).type = "data"
      BY <1>1, FrameTypes DEF Frames, Types, ThreadTypes
    <2>2. /\ out' = [out EXCEPT ![t] = Frame("data", p)]
          /\ \E l \in Positions : pc' = [pc EXCEPT ![t] = l]
          /\ UNCHANGED <<session, sends, control, accepted>>
          /\ \/ net' = net \cup {frame} /\ Use(p, out[t].seq, type)
             \/ UNCHANGED <<net, sealed, nonceReused>>
      BY <1>4 DEF Seal, Positions
    <2> HIDE DEF frame, type
    <2>3. ThreadTypes'
      BY <2>1, <2>2 DEF Types, ThreadTypes
    <2>4. sealed' \subseteq Uses /\ nonceReused' \in BOOLEAN
      <3>1. CASE UNCHANGED <<net, sealed, nonceReused>>
        BY <3>1 DEF Types, HistoryTypes
      <3>2. CASE Use(p, out[t].seq, type)
        BY <1>1, <2>1, <3>2, UseTypes
      <3> QED
        BY <2>2, <3>1, <3>2
    <2> QED
      BY <2>2, <2>3, <2>4 DEF Types, SessionTypes, ControlTypes, HistoryTypes, session, control
  <1>5. CASE CloseSession(t)
    <2>1. /\ SessionClose(p) /\ pc' = [pc EXCEPT ![t] = "teardown"]
          /\ UNCHANGED <<cur, prev, live, sendSeq, net, out, sends, rekey, inbox, resp, rekeys,
                         accepted, history>>
      BY <1>5 DEF CloseSession
    <2>2. SessionTypes'
      BY <1>1, <2>1, CloseTypes DEF Types, SessionTypes
    <2> QED
      BY <2>1, <2>2 DEF Types, ThreadTypes, Positions, ControlTypes, HistoryTypes, history
  <1>6. CASE Teardown(t)
    BY <1>1, <1>6 DEF Teardown, Types, SessionTypes, ThreadTypes, Positions, ControlTypes, HistoryTypes,
                      control, history
  <1> QED
    BY <1>2, <1>3, <1>4, <1>5, <1>6 DEF SealStep

(* So does receiving data or a CLOSE, and retiring an epoch.               *)
LEMMA ReceiveTypes ==
    ASSUME Types, NEW p \in Peers,
           (\E frame \in net : ReceiveData(p, frame) \/ ReceiveClose(p, frame)) \/ RetirePrev(p)
    PROVE  Types'
  <1>1. ASSUME NEW frame \in net, ReceiveData(p, frame)
        PROVE  Types'
    <2>1. frame.seq \in Nat
      BY DEF Types, ThreadTypes, Frames
    <2> QED
      BY <1>1, <2>1 DEF ReceiveData, Types, SessionTypes, ThreadTypes, ControlTypes, HistoryTypes,
                        session, local, control, history
  <1>2. ASSUME NEW frame \in net, ReceiveClose(p, frame)
        PROVE  Types'
    <2>1. frame.seq \in Nat
      BY DEF Types, ThreadTypes, Frames
    <2>2. /\ accepted' = [accepted EXCEPT ![p] = @ \cup {frame.seq}]
          /\ SessionClose(p) /\ live' = [live EXCEPT ![p] = FALSE]
          /\ UNCHANGED <<cur, prev, sendSeq, net, local, rekey, inbox, resp, rekeys, history>>
      BY <1>2 DEF ReceiveClose
    <2>3. SessionTypes'
      BY <2>2, CloseTypes DEF Types, SessionTypes
    <2> QED
      BY <2>1, <2>2, <2>3 DEF Types, ThreadTypes, ControlTypes, HistoryTypes, local, history
  <1>3. CASE RetirePrev(p)
    <2>1. NoEpoch \in EpochRecords
      BY FrameTypes, PeerFacts
    <2> QED
      BY <1>3, <2>1 DEF RetirePrev, Types, SessionTypes, ThreadTypes, ControlTypes, HistoryTypes,
                        local, control, history
  <1> QED
    BY <1>1, <1>2, <1>3

\* The init of a Rekey call and the answer to one.
InitFrame == [Frame("init", Responder) EXCEPT !.epoch = cur[Initiator].epoch, !.key = cur[Initiator].key,
                                              !.seq = sendSeq[Initiator], !.kp = kem + 1]
AnswerTo(frame) ==
    [Frame("resp", Initiator) EXCEPT !.epoch = cur[Responder].epoch, !.key = cur[Responder].key,
                                     !.seq = sendSeq[Responder], !.kp = frame.kp, !.ct = kem + 1]

(* What is in them.                                                        *)
LEMMA InitBuilt ==
    ASSUME Types
    PROVE  /\ InitFrame \in Frames /\ InitFrame.type = "init" /\ InitFrame.epoch = cur[Initiator].epoch
           /\ InitFrame.key = cur[Initiator].key /\ InitFrame.kp = kem + 1
  <1>1. /\ cur[Initiator].epoch \in Epochs /\ cur[Initiator].key \in Keys /\ sendSeq[Initiator] \in Nat
        /\ kem + 1 \in Nat /\ Responder \in Peers
    BY PeerFacts, SMT DEF Types, SessionTypes, EpochRecords
  <1>2. Frame("init", Responder) \in Frames /\ Frame("init", Responder).type = "init"
    BY <1>1, FrameTypes
  <1> QED
    BY <1>1, <1>2 DEF InitFrame, Frames

LEMMA AnswerBuilt ==
    ASSUME Types, NEW frame \in Frames
    PROVE  /\ AnswerTo(frame) \in Frames /\ AnswerTo(frame).type = "resp"
           /\ AnswerTo(frame).epoch = cur[Responder].epoch /\ AnswerTo(frame).key = cur[Responder].key
           /\ AnswerTo(frame).kp = frame.kp /\ AnswerTo(frame).ct = kem + 1
  <1>1. /\ cur[Responder].epoch \in Epochs /\ cur[Responder].key \in Keys /\ sendSeq[Responder] \in Nat
        /\ kem + 1 \in Nat /\ Initiator \in Peers
    BY PeerFacts, SMT DEF Types, SessionTypes, EpochRecords
  <1>2. Frame("resp", Initiator) \in Frames /\ Frame("resp", Initiator).type = "resp" /\ frame.kp \in Nat
    BY <1>1, FrameTypes DEF Frames
  <1> QED
    BY <1>1, <1>2 DEF AnswerTo, Frames

(* The steps of Rekey keep the types.                                      *)
LEMMA InitiatorTypes ==
    ASSUME Types, BeginRekey \/ InitiatorStep \/ \E frame \in net : ReceiveResponse(frame)
    PROVE  Types'
  <1> DEFINE p == Initiator
  <1>1. CASE BeginRekey
    <2> DEFINE new == [on |-> TRUE, kp |-> kem + 1, attempts |-> 0, frame |-> InitFrame]
    <2>1. kem + 1 \in Nat /\ sendSeq[p] \in Nat /\ rekeys \in Nat /\ InitFrame \in Frames /\ InitFrame.type = "init"
      <3>1. kem + 1 \in Nat /\ sendSeq[p] \in Nat /\ rekeys \in Nat
        BY PeerFacts, SMT DEF Types, SessionTypes, ControlTypes
      <3> QED
        BY <3>1, InitBuilt
    <2>2. /\ rekeys < MaxRekeys /\ rekeys' = rekeys + 1 /\ kem' = kem + 1
          /\ Use(p, sendSeq[p], "control")
          /\ rekey' = new /\ (inbox' = inbox \/ (inbox # << >> /\ inbox' = Tail(inbox)))
          /\ UNCHANGED <<cur, prev, master, live, net, local, resp, advancing, accepted>>
      BY <1>1 DEF BeginRekey, InitFrame
    <2>3. sealed' \subseteq Uses /\ nonceReused' \in BOOLEAN
      BY <2>1, <2>2, UseTypes, PeerFacts
    <2>4. /\ new \in [on : BOOLEAN, kp : Nat, attempts : Nat, frame : Frames]
          /\ new.frame.type = "init"
      BY <2>1
    <2> HIDE DEF new
    <2>5. inbox' \in Seq(Frames) /\ Len(inbox') <= InboxCap
      BY <2>2, DatagramAssumption, SMT DEF Types, ControlTypes
    <2>6. rekeys' \in 0 .. MaxRekeys
      BY <2>1, <2>2, DatagramAssumption, SMT
    <2>7. ControlTypes'
      BY <2>2, <2>4, <2>5, <2>6 DEF Types, ControlTypes
    <2>8. sendSeq' \in [Peers -> Nat]
      BY <1>1, Draws, PeerFacts DEF BeginRekey
    <2>9. SessionTypes'
      BY <2>1, <2>2, <2>8 DEF Types, SessionTypes
    <2> QED
      BY <2>2, <2>3, <2>7, <2>9 DEF Types, ThreadTypes, HistoryTypes, local
  <1>2. CASE SendInit
    <2>1. /\ net' = net \cup {rekey.frame} /\ rekey' = [rekey EXCEPT !.attempts = @ + 1]
          /\ UNCHANGED <<session, local, inbox, resp, advancing, kem, rekeys, accepted, history>>
      BY <1>2 DEF SendInit
    <2>2. rekey.frame \in Frames /\ rekey.attempts + 1 \in Nat
      BY SMT DEF Types, ControlTypes
    <2>3. ControlTypes'
      BY <2>1, <2>2 DEF Types, ControlTypes
    <2> QED
      BY <2>1, <2>2, <2>3 DEF Types, SessionTypes, ThreadTypes, HistoryTypes, session, local, history
  <1>3. CASE AbandonRekey
    <2>1. /\ rekey' = NoRekey
          /\ UNCHANGED <<session, net, local, inbox, resp, advancing, kem, rekeys, accepted, history>>
      BY <1>3 DEF AbandonRekey
    <2>2. NoRekey \in [on : BOOLEAN, kp : Nat, attempts : Nat, frame : Frames] /\ NoRekey.frame.type = "init"
      BY FrameTypes, PeerFacts DEF NoRekey
    <2> QED
      BY <2>1, <2>2 DEF Types, SessionTypes, ThreadTypes, ControlTypes, HistoryTypes, session, local, history
  <1>4. CASE OpenResponse
    <2>1. /\ inbox # << >> /\ inbox' = Tail(inbox)
          /\ \/ /\ advancing' = [advancing EXCEPT ![p] = Append(master[p], Decapsulate(rekey.kp, Head(inbox)))]
                /\ kem' = kem \/ kem' = kem + 1
             \/ UNCHANGED <<advancing, kem>>
          /\ UNCHANGED <<session, net, local, rekey, resp, rekeys, accepted, history>>
      BY <1>4 DEF OpenResponse, deriveNextDatagramSecret
    <2>2. Head(inbox) \in Frames /\ kem + 1 \in Nat /\ master[p] \in Keys
      BY <2>1, PeerFacts, SMT DEF Types, SessionTypes, ControlTypes
    <2>3. Decapsulate(rekey.kp, Head(inbox)) \in Nat
      BY <2>2 DEF Decapsulate, Frames
    <2>4. Append(master[p], Decapsulate(rekey.kp, Head(inbox))) \in Keys
      BY <2>2, <2>3, SMT DEF Keys
    <2>5. SessionTypes'
      BY <2>1, <2>2, <2>4 DEF Types, SessionTypes, session
    <2>6. inbox' \in Seq(Frames) /\ Len(inbox') <= InboxCap
      BY <2>1, DatagramAssumption, SMT DEF Types, ControlTypes
    <2> QED
      BY <2>1, <2>5, <2>6 DEF Types, ThreadTypes, ControlTypes, HistoryTypes, local, history
  <1>5. CASE CompleteRekey
    <2>1. /\ AdvanceDatagramEpoch(p) /\ rekey' = NoRekey
          /\ UNCHANGED <<live, sendSeq, net, local, inbox, resp, kem, rekeys, accepted, history>>
      BY <1>5 DEF CompleteRekey
    <2>2. NoRekey \in [on : BOOLEAN, kp : Nat, attempts : Nat, frame : Frames] /\ NoRekey.frame.type = "init"
      BY FrameTypes, PeerFacts DEF NoRekey
    <2>3. SessionTypes'
      BY <2>1, AdvanceTypes, PeerFacts DEF Types, SessionTypes
    <2> QED
      BY <2>1, <2>2, <2>3 DEF Types, ThreadTypes, ControlTypes, HistoryTypes, local, history
  <1>6. ASSUME NEW frame \in net, ReceiveResponse(frame)
        PROVE  Types'
    <2>1. frame \in Frames
      BY DEF Types, ThreadTypes
    <2>2. /\ Len(inbox) < InboxCap /\ inbox' = Append(inbox, frame)
          /\ UNCHANGED <<session, net, local, rekey, resp, advancing, kem, rekeys, accepted, history>>
      BY <1>6 DEF ReceiveResponse, InboxHasRoom
    <2>3. inbox' \in Seq(Frames) /\ Len(inbox') <= InboxCap
      BY <2>1, <2>2, DatagramAssumption, SMT DEF Types, ControlTypes
    <2> QED
      BY <2>2, <2>3 DEF Types, SessionTypes, ThreadTypes, ControlTypes, HistoryTypes, session, local, history
  <1> QED
    BY <1>1, <1>2, <1>3, <1>4, <1>5, <1>6 DEF InitiatorStep

(* And those of handleRekeyInit.                                           *)
LEMMA ResponderTypes ==
    ASSUME Types,
           AnswerRekey \/ \E frame \in net : ReplayResponse(frame) \/ RespondToRekey(frame)
    PROVE  Types'
  <1> DEFINE p == Responder
  <1>1. resp.frame \in Frames
    BY DEF Types, ControlTypes
  <1>2. CASE AnswerRekey
    <2>1. /\ AdvanceDatagramEpoch(p) /\ resp' = [resp EXCEPT !.valid = TRUE]
          /\ net' = net \cup {resp.frame}
          /\ UNCHANGED <<live, sendSeq, local, rekey, inbox, kem, rekeys, accepted, history>>
      BY <1>2 DEF AnswerRekey
    <2>2. SessionTypes'
      BY <2>1, AdvanceTypes, PeerFacts DEF Types, SessionTypes
    <2>3. ControlTypes'
      BY <2>1 DEF Types, ControlTypes
    <2> QED
      BY <1>1, <2>1, <2>2, <2>3 DEF Types, ThreadTypes, HistoryTypes, local, history
  <1>3. ASSUME NEW frame \in net, ReplayResponse(frame)
        PROVE  Types'
    BY <1>1, <1>3 DEF ReplayResponse, Types, SessionTypes, ThreadTypes, ControlTypes, HistoryTypes,
                      session, local, control, history
  <1>4. ASSUME NEW frame \in net, RespondToRekey(frame)
        PROVE  Types'
    <2> DEFINE new == [valid |-> FALSE, from |-> frame.epoch, frame |-> AnswerTo(frame)]
    <2>1. frame \in Frames /\ kem + 1 \in Nat /\ sendSeq[p] \in Nat /\ master[p] \in Keys
      BY PeerFacts, SMT DEF Types, SessionTypes, ThreadTypes
    <2>2. /\ Use(p, sendSeq[p], "control")
          /\ \/ /\ kem' = kem + 1 /\ resp' = new
                /\ advancing' = [advancing EXCEPT ![p] = Append(master[p], kem + 1)]
             \/ UNCHANGED <<advancing, resp, kem>>
          /\ UNCHANGED <<cur, prev, master, live, net, local, rekey, inbox, rekeys, accepted>>
      BY <1>4 DEF RespondToRekey, deriveNextDatagramSecret, AnswerTo
    <2>3. sealed' \subseteq Uses /\ nonceReused' \in BOOLEAN
      BY <2>1, <2>2, UseTypes, PeerFacts
    <2>4. new \in [valid : BOOLEAN, from : Epochs, frame : Frames] /\ new.frame.type = "resp"
      BY <2>1, AnswerBuilt DEF Frames
    <2> HIDE DEF new
    <2>5. Append(master[p], kem + 1) \in Keys
      BY <2>1, SMT DEF Keys
    <2>6. SessionTypes'
      <3>1. sendSeq' \in [Peers -> Nat]
        BY <1>4, Draws, PeerFacts DEF RespondToRekey
      <3>2. advancing' \in [Peers -> Keys] /\ kem' \in Nat
        BY <2>1, <2>2, <2>5 DEF Types, SessionTypes
      <3> QED
        BY <2>2, <3>1, <3>2 DEF Types, SessionTypes
    <2>7. ControlTypes'
      BY <2>2, <2>4 DEF Types, ControlTypes
    <2> QED
      BY <2>2, <2>3, <2>6, <2>7 DEF Types, ThreadTypes, HistoryTypes, local
  <1> QED
    BY <1>2, <1>3, <1>4

(* Every step keeps the types.                                             *)
LEMMA TypesKept ==
    ASSUME Types, [Next]_vars
    PROVE  Types'
  <1>1. CASE UNCHANGED vars
    BY <1>1 DEF vars, Types, SessionTypes, ThreadTypes, ControlTypes, HistoryTypes
  <1> QED
    BY <1>1, SendTypes, ReceiveTypes, InitiatorTypes, ResponderTypes DEF Next, Deliver

(* They hold at first.                                                     *)
LEMMA InitTypes ==
    ASSUME Init
    PROVE  Types
  <1>1. nil \in Keys /\ <<0>> \in Keys /\ 0 \in Epochs
    BY EpochFacts, SMT DEF Keys, nil
  <1>2. \A p \in Peers : Frame("data", p) \in Frames /\ Frame("data", p).type = "data"
    BY FrameTypes
  <1>3. /\ Frame("resp", Initiator) \in Frames /\ Frame("resp", Initiator).type = "resp"
        /\ NoRekey \in [on : BOOLEAN, kp : Nat, attempts : Nat, frame : Frames] /\ NoRekey.frame.type = "init"
        /\ NoEpoch \in EpochRecords
    BY FrameTypes, PeerFacts DEF NoRekey
  <1>4. SessionTypes
    BY <1>1, <1>3 DEF Init, SessionTypes, EpochRecords
  <1>5. ThreadTypes
    BY <1>2, PeerFacts DEF Init, ThreadTypes, Positions
  <1>6. ControlTypes
    BY <1>1, <1>3, DatagramAssumption, SMT DEF Init, ControlTypes
  <1>7. HistoryTypes
    BY DEF Init, HistoryTypes
  <1> QED
    BY <1>4, <1>5, <1>6, <1>7 DEF Types
-----------------------------------------------------------------------------
(* Sequence numbers *)

\* A goroutine between drawing a sequence number and sealing under it.
Drawn(t) == pc[t] \in {"header", "seal"}

\* What is drawn is below the counter and not yet used.
Fresh(t) ==
    /\ out[t].seq < sendSeq[t[1]]
    /\ \A u \in sealed : u.peer = t[1] => u.seq # out[t].seq

\* Two goroutines of one peer draw different numbers, and every one is used at most once.
NonceInv ==
    /\ ~nonceReused
    /\ \A u \in sealed : u.seq < sendSeq[u.peer]
    /\ \A t \in Threads : Drawn(t) => Fresh(t)
    /\ \A s, t \in Threads : s # t /\ s[1] = t[1] /\ Drawn(s) /\ Drawn(t) => out[s].seq # out[t].seq

\* A frame whose header names an epoch that has ended drew its number before the new one began.
StaleInv ==
    /\ \A p \in Peers : cur[p].startSeq <= sendSeq[p]
    /\ \A t \in Threads : pc[t] = "seal" =>
           out[t].epoch = cur[t[1]].epoch \/ out[t].seq < cur[t[1]].startSeq

(* Steps that neither draw nor seal.                                       *)
LEMMA SealingKept ==
    ASSUME Types, NonceInv, StaleInv, UNCHANGED <<cur, sendSeq, out, history>>,
           \A t \in Threads : pc'[t] = pc[t] \/ pc'[t] \in {"teardown", "closed"}
    PROVE  NonceInv' /\ StaleInv'
  <1>1. NonceInv'
    BY DEF NonceInv, Drawn, Fresh, history
  <1>2. StaleInv'
    BY DEF StaleInv
  <1> QED
    BY <1>1, <1>2

(* The epoch advances: every number drawn so far is below its first.       *)
LEMMA SealingAdvances ==
    ASSUME Types, NonceInv, StaleInv, NEW p \in Peers, AdvanceDatagramEpoch(p),
           UNCHANGED <<sendSeq, local, history>>
    PROVE  NonceInv' /\ StaleInv'
  <1>1. NonceInv'
    BY DEF NonceInv, Drawn, Fresh, local, history
  <1>2. Advances(p)
    BY AdvanceTypes
  <1>3. \A q \in Peers : cur[q].startSeq \in Nat /\ sendSeq[q] \in Nat
    BY DEF Types, SessionTypes, EpochRecords
  <1>4. \A q \in Peers : cur'[q].startSeq <= sendSeq'[q]
    BY <1>2, <1>3, SMT DEF Advances, StaleInv
  <1>5. ASSUME NEW t \in Threads, pc'[t] = "seal"
        PROVE  out'[t].epoch = cur'[t[1]].epoch \/ out'[t].seq < cur'[t[1]].startSeq
    <2>1. pc[t] = "seal" /\ out'[t] = out[t] /\ t[1] \in Peers
      BY <1>5, PeerFacts DEF local
    <2>2. CASE t[1] = p
      BY <1>2, <2>1, <2>2 DEF Advances, NonceInv, Drawn, Fresh
    <2>3. CASE t[1] # p
      BY <1>2, <2>1, <2>3 DEF Advances, StaleInv
    <2> QED
      BY <2>2, <2>3
  <1> QED
    BY <1>1, <1>4, <1>5 DEF StaleInv

(* Sealing with a number not used before.                                  *)
LEMMA UsesFresh ==
    ASSUME NEW p \in Peers, NEW seq \in Nat, NEW type, Use(p, seq, type), ~nonceReused,
           \A u \in sealed : u.peer = p => u.seq # seq
    PROVE  /\ ~nonceReused'
           /\ \A u \in sealed' : u \in sealed \/ (u.peer = p /\ u.seq = seq)
  <1> DEFINE use == [peer |-> p, key |-> cur[p].key, seq |-> seq, type |-> type]
  <1>1. ~nonceReused'
    BY DEF Use
  <1>2. sealed' = sealed \cup {use}
    BY DEF Use
  <1>3. use.peer = p /\ use.seq = seq
    OBVIOUS
  <1> HIDE DEF use
  <1> QED
    BY <1>1, <1>2, <1>3

(* A control message draws its number and is sealed in one step.           *)
LEMMA ControlSealing ==
    ASSUME Types, NonceInv, StaleInv, NEW p \in Peers, nextDatagramSeq(p),
           Use(p, sendSeq[p], "control"), UNCHANGED <<cur, local>>
    PROVE  NonceInv' /\ StaleInv'
  <1>1. /\ sendSeq'[p] = sendSeq[p] + 1 /\ sendSeq[p] \in Nat
        /\ \A q \in Peers : sendSeq'[q] >= sendSeq[q] /\ sendSeq[q] \in Nat /\ sendSeq'[q] \in Nat
    BY Draws DEF Types, SessionTypes
  <1>2. \A u \in sealed : u.peer \in Peers /\ u.seq \in Nat /\ u.seq < sendSeq[u.peer]
    BY DEF Types, HistoryTypes, Uses, NonceInv
  <1>3. \A t \in Threads : out'[t] = out[t] /\ pc'[t] = pc[t] /\ t[1] \in Peers /\ out[t].seq \in Nat
    BY PeerFacts DEF local, Types, ThreadTypes, Frames
  <1>4. ~nonceReused' /\ \A u \in sealed' : u \in sealed \/ (u.peer = p /\ u.seq = sendSeq[p])
    <2>1. ~nonceReused /\ \A u \in sealed : u.peer = p => u.seq # sendSeq[p]
      BY <1>1, <1>2, SMT DEF NonceInv
    <2> QED
      BY <1>1, <2>1, UsesFresh, SMT
  <1>5. \A u \in sealed' : u.seq < sendSeq'[u.peer]
    BY <1>1, <1>2, <1>4, SMT
  <1>6. ASSUME NEW t \in Threads, Drawn(t)
        PROVE  Fresh(t)'
    <2>1. Fresh(t)
      BY <1>6 DEF NonceInv
    <2>2. out'[t].seq < sendSeq'[t[1]]
      BY <1>1, <1>3, <2>1, SMT DEF Fresh
    <2>3. \A u \in sealed' : u.peer = t[1] => u.seq # out'[t].seq
      BY <1>1, <1>3, <1>4, <2>1, SMT DEF Fresh
    <2> QED
      BY <2>2, <2>3 DEF Fresh
  <1>7. NonceInv'
    BY <1>3, <1>4, <1>5, <1>6, SMT DEF NonceInv, Drawn
  <1>8. StaleInv'
    <2>1. \A q \in Peers : cur[q].startSeq \in Nat
      BY DEF Types, SessionTypes, EpochRecords
    <2> QED
      BY <1>1, <1>3, <2>1, SMT DEF StaleInv
  <1> QED
    BY <1>7, <1>8

(* A data or CLOSE frame draws its number.                                 *)
LEMMA DrawSealing ==
    ASSUME Types, NonceInv, StaleInv, NEW t \in Threads, DrawSeq(t)
    PROVE  NonceInv' /\ StaleInv'
  <1> DEFINE p == t[1]
  <1>1. p \in Peers /\ \A s \in Threads : s[1] \in Peers /\ out[s].seq \in Nat
    BY PeerFacts DEF Types, ThreadTypes, Frames
  <1>2. /\ sendSeq'[p] = sendSeq[p] + 1 /\ sendSeq[p] \in Nat
        /\ \A q \in Peers : sendSeq'[q] >= sendSeq[q] /\ sendSeq[q] \in Nat /\ sendSeq'[q] \in Nat
    <2>1. nextDatagramSeq(p)
      BY DEF DrawSeq
    <2> QED
      BY <1>1, <2>1, Draws DEF Types, SessionTypes
  <1>3. /\ UNCHANGED <<cur, history>> /\ pc'[t] = "header" /\ out'[t].seq = sendSeq[p]
        /\ \A s \in Threads : s # t => pc'[s] = pc[s] /\ out'[s] = out[s]
    <2> DEFINE frame == [Frame(IF t[2] = "send" THEN "data" ELSE "close", Peer(p)) EXCEPT !.seq = sendSeq[p]]
    <2>1. /\ out' = [out EXCEPT ![t] = frame] /\ pc' = [pc EXCEPT ![t] = "header"]
          /\ UNCHANGED <<cur, history>>
      BY DEF DrawSeq
    <2>2. frame.seq = sendSeq[p]
      BY DEF Frame
    <2> HIDE DEF frame
    <2> QED
      BY <2>1, <2>2 DEF Types, ThreadTypes
  <1>4. \A u \in sealed : u.peer \in Peers /\ u.seq \in Nat /\ u.seq < sendSeq[u.peer]
    BY DEF Types, HistoryTypes, Uses, NonceInv
  <1>5. \A s \in Threads : s # t /\ Drawn(s)' => Fresh(s) /\ out'[s] = out[s]
    BY <1>3 DEF NonceInv, Drawn
  <1> HIDE DEF p
  <1>6. ASSUME NEW s \in Threads, Drawn(s)'
        PROVE  Fresh(s)'
    <2>1. CASE s = t
      <3>1. out'[s].seq < sendSeq'[s[1]]
        BY <1>2, <1>3, <2>1, SMT DEF p
      <3>2. \A u \in sealed' : u.peer = s[1] => u.seq # out'[s].seq
        BY <1>2, <1>3, <1>4, <2>1, SMT DEF history, p
      <3> QED
        BY <3>1, <3>2 DEF Fresh
    <2>2. CASE s # t
      <3>1. Fresh(s) /\ out'[s] = out[s]
        BY <1>5, <1>6, <2>2
      <3>2. out'[s].seq < sendSeq'[s[1]]
        BY <1>1, <1>2, <3>1, SMT DEF Fresh
      <3> QED
        BY <1>3, <3>1, <3>2 DEF Fresh, history
    <2> QED
      BY <2>1, <2>2
  <1>7. ASSUME NEW r \in Threads, NEW s \in Threads, r # s, r[1] = s[1], Drawn(r)', Drawn(s)'
        PROVE  out'[r].seq # out'[s].seq
    <2>1. CASE r = t
      BY <1>1, <1>2, <1>3, <1>5, <1>7, <2>1, SMT DEF Fresh, p
    <2>2. CASE s = t
      BY <1>1, <1>2, <1>3, <1>5, <1>7, <2>2, SMT DEF Fresh, p
    <2>3. CASE r # t /\ s # t
      BY <1>3, <1>7, <2>3, SMT DEF NonceInv, Drawn
    <2> QED
      BY <2>1, <2>2, <2>3
  <1>8. \A u \in sealed' : u.seq < sendSeq'[u.peer]
    BY <1>2, <1>3, <1>4, SMT DEF history
  <1>9. NonceInv'
    BY <1>3, <1>6, <1>7, <1>8 DEF NonceInv, history
  <1>10. StaleInv'
    <2>1. \A q \in Peers : cur[q].startSeq \in Nat
      BY DEF Types, SessionTypes, EpochRecords
    <2> QED
      BY <1>2, <1>3, <2>1, SMT DEF StaleInv
  <1> QED
    BY <1>9, <1>10

(* It reads the epoch for its header.                                      *)
LEMMA ReadSealing ==
    ASSUME Types, NonceInv, StaleInv, NEW t \in Threads, ReadEpoch(t)
    PROVE  NonceInv' /\ StaleInv'
  <1>1. /\ pc[t] = "header" /\ UNCHANGED <<cur, sendSeq, history>>
        /\ out' = [out EXCEPT ![t] = [out[t] EXCEPT !.epoch = cur[t[1]].epoch]]
        /\ pc' = [pc EXCEPT ![t] = "seal"]
    BY DEF ReadEpoch, session
  <1>2. \A s \in Threads : (Drawn(s)' <=> Drawn(s)) /\ out'[s].seq = out[s].seq
    BY <1>1 DEF Types, ThreadTypes, Frames, Drawn
  <1>3. NonceInv'
    BY <1>1, <1>2, SMT DEF NonceInv, Fresh, history
  <1>4. \A s \in Threads : (s # t => pc'[s] = pc[s] /\ out'[s] = out[s]) /\ out'[t].epoch = cur[t[1]].epoch
    BY <1>1 DEF Types, ThreadTypes, Frames
  <1>5. StaleInv'
    BY <1>1, <1>4 DEF StaleInv
  <1> QED
    BY <1>3, <1>5

(* It is sealed.                                                           *)
LEMMA SealSealing ==
    ASSUME Types, NonceInv, StaleInv, NEW t \in Threads, Seal(t)
    PROVE  NonceInv' /\ StaleInv'
  <1> DEFINE p == t[1]
             seq == out[t].seq
  <1>1. /\ pc[t] = "seal" /\ UNCHANGED <<cur, sendSeq>>
        /\ Use(p, seq, out[t].type) \/ UNCHANGED <<sealed, nonceReused>>
    BY DEF Seal, session
  <1>2. \A s \in Threads : IF s = t THEN pc'[s] \in {"idle", "closing"} ELSE pc'[s] = pc[s] /\ out'[s] = out[s]
    <2>1. /\ out' = [out EXCEPT ![t] = Frame("data", p)]
          /\ \E l \in {"idle", "closing"} : pc' = [pc EXCEPT ![t] = l]
      BY DEF Seal
    <2> QED
      BY <2>1 DEF Types, ThreadTypes
  <1>3. Fresh(t) /\ p \in Peers /\ seq \in Nat
    BY <1>1, PeerFacts DEF NonceInv, Drawn, Types, ThreadTypes, Frames
  <1>4. ~nonceReused' /\ \A u \in sealed' : u \in sealed \/ (u.peer = p /\ u.seq = seq)
    <2>1. ~nonceReused /\ \A u \in sealed : u.peer = p => u.seq # seq
      BY <1>3 DEF NonceInv, Fresh
    <2> QED
      BY <1>1, <1>3, <2>1, UsesFresh, SMT
  <1>5. \A s \in Threads : Drawn(s)' => /\ s # t /\ Drawn(s) /\ Fresh(s) /\ out'[s] = out[s]
                                        /\ s[1] = p => out[s].seq # seq
    BY <1>1, <1>2 DEF NonceInv, Drawn
  <1> HIDE DEF p, seq
  <1>6. \A u \in sealed' : u.seq < sendSeq'[u.peer]
    BY <1>1, <1>3, <1>4 DEF NonceInv, Fresh, p, seq
  <1>7. \A s \in Threads : Drawn(s)' => Fresh(s)'
    BY <1>1, <1>4, <1>5 DEF Fresh
  <1>8. NonceInv'
    BY <1>4, <1>5, <1>6, <1>7, SMT DEF NonceInv
  <1>9. StaleInv'
    BY <1>1, <1>2 DEF StaleInv
  <1> QED
    BY <1>8, <1>9

(* Every step.                                                             *)
LEMMA SealingStep ==
    ASSUME Types, NonceInv, StaleInv, [Next]_vars
    PROVE  NonceInv' /\ StaleInv'
  <1>1. ASSUME NEW t \in Threads, DrawSeq(t) \/ SealStep(t)
        PROVE  NonceInv' /\ StaleInv'
    <2>1. CASE CloseSession(t) \/ Teardown(t)
      <3>1. /\ UNCHANGED <<cur, sendSeq, out, history>>
            /\ \E l \in {"teardown", "closed"} : pc' = [pc EXCEPT ![t] = l]
        BY <2>1 DEF CloseSession, Teardown
      <3>2. \A s \in Threads : pc'[s] = pc[s] \/ pc'[s] \in {"teardown", "closed"}
        BY <3>1 DEF Types, ThreadTypes
      <3> QED
        BY <3>1, <3>2, SealingKept
    <2> QED
      BY <1>1, <2>1, DrawSealing, ReadSealing, SealSealing DEF SealStep
  <1>2. CASE UNCHANGED <<cur, sendSeq, local, history>>
    BY <1>2, SealingKept DEF local
  <1>3. ASSUME NEW p \in Peers, AdvanceDatagramEpoch(p), UNCHANGED <<sendSeq, local, history>>
        PROVE  NonceInv' /\ StaleInv'
    BY <1>3, SealingAdvances
  <1>4. ASSUME NEW p \in Peers, nextDatagramSeq(p), Use(p, sendSeq[p], "control"), UNCHANGED <<cur, local>>
        PROVE  NonceInv' /\ StaleInv'
    BY <1>4, ControlSealing
  <1>5. CASE UNCHANGED vars
    BY <1>2, <1>5 DEF vars, local, history
  <1>6. CASE BeginRekey
    BY <1>4, <1>6, PeerFacts DEF BeginRekey
  <1>7. CASE InitiatorStep
    <2>1. CASE CompleteRekey
      BY <1>3, <2>1, PeerFacts DEF CompleteRekey
    <2>2. CASE SendInit \/ AbandonRekey \/ OpenResponse
      BY <1>2, <2>2 DEF SendInit, AbandonRekey, OpenResponse, session
    <2> QED
      BY <1>7, <2>1, <2>2 DEF InitiatorStep
  <1>8. CASE AnswerRekey
    BY <1>3, <1>8, PeerFacts DEF AnswerRekey
  <1>9. ASSUME NEW frame \in net, Deliver(frame)
        PROVE  NonceInv' /\ StaleInv'
    <2>1. CASE RespondToRekey(frame)
      BY <1>4, <2>1, PeerFacts DEF RespondToRekey
    <2>2. ASSUME NEW p \in Peers, ReceiveData(p, frame) \/ ReceiveClose(p, frame)
          PROVE  NonceInv' /\ StaleInv'
      BY <1>2, <2>2 DEF ReceiveData, ReceiveClose, session
    <2>3. CASE ReceiveResponse(frame) \/ ReplayResponse(frame)
      BY <1>2, <2>3 DEF ReceiveResponse, ReplayResponse, session
    <2> QED
      BY <1>9, <2>1, <2>2, <2>3 DEF Deliver
  <1>10. ASSUME NEW p \in Peers, RetirePrev(p)
         PROVE  NonceInv' /\ StaleInv'
    BY <1>2, <1>10 DEF RetirePrev
  <1> QED
    BY <1>1, <1>5, <1>6, <1>7, <1>8, <1>9, <1>10 DEF Next

(* No number is drawn at first.                                            *)
LEMMA InitSealing ==
    ASSUME Init
    PROVE  NonceInv /\ StaleInv
  <1>1. \A t \in Threads : pc[t] = "idle"
    BY DEF Init
  <1>2. sealed = {} /\ nonceReused = FALSE /\ \A p \in Peers : cur[p].startSeq = 0 /\ sendSeq[p] = 0
    BY DEF Init
  <1> QED
    BY <1>1, <1>2, SMT DEF NonceInv, StaleInv, Drawn
-----------------------------------------------------------------------------
(* Epochs *)

\* How many epochs p has been through.
Age(p) == Len(cur[p].key)

\* A session keeps its current key, and the secret of the next one is ratcheted from it.
Held(p) ==
    /\ cur[p].key # nil /\ master[p] \in {nil, cur[p].key}
    /\ advancing[p] # nil => Len(advancing[p]) = Age(p) + 1

Even == cur[Responder].epoch = cur[Initiator].epoch /\ Age(Responder) = Age(Initiator)
Ahead == /\ cur[Responder].epoch = nextEpoch(cur[Initiator].epoch)
         /\ Age(Responder) = Age(Initiator) + 1

\* The peers take turns: the responder leaves an epoch first, and only from the initiator's.
Turns ==
    /\ Even \/ Ahead
    /\ advancing[Responder] # nil => Even /\ ~resp.valid /\ resp.frame.key = cur[Responder].key
    /\ advancing[Initiator] # nil => Ahead

\* A response was sealed under an epoch the responder has left, an init under one the
\* initiator has reached.
Late(frame) == Len(frame.key) < Age(Responder)
Placed(frame) ==
    /\ frame.type = "init" => Len(frame.key) <= Age(Initiator)
    /\ frame.type = "resp" => Late(frame)
Asks(call) == call.on => call.frame.epoch = cur[Initiator].epoch /\ call.frame.key = cur[Initiator].key
Waiting == \A i \in 1 .. Len(inbox) : Late(inbox[i])
RespLate == resp.valid => Late(resp.frame)

EpochInv ==
    /\ \A p \in Peers : Held(p)
    /\ Turns /\ Asks(rekey) /\ Waiting
    /\ \A frame \in net : Placed(frame)
    /\ RespLate

(* The epochs and keys of the peers have their types.                      *)
LEMMA EpochTypes ==
    ASSUME Types
    PROVE  /\ \A p \in Peers : /\ Age(p) \in Nat /\ cur[p].key \in Keys /\ cur[p].epoch \in Epochs
                               /\ advancing[p] \in Keys /\ master[p] \in Keys
           /\ \A frame \in Frames : Len(frame.key) \in Nat
           /\ Even => ~Ahead
  <1>1. \A p \in Peers : /\ cur[p].key \in Keys /\ cur[p].epoch \in Epochs
                         /\ advancing[p] \in Keys /\ master[p] \in Keys
    BY DEF Types, SessionTypes, EpochRecords
  <1>2. \A k \in Keys : Len(k) \in Nat
    BY SMT DEF Keys
  <1>3. \A p \in Peers : Age(p) \in Nat
    BY <1>1, <1>2 DEF Age
  <1>4. \A frame \in Frames : Len(frame.key) \in Nat
    BY <1>2 DEF Frames
  <1>5. Even => ~Ahead
    BY <1>3, PeerFacts, SMT DEF Even, Ahead
  <1> QED
    BY <1>1, <1>3, <1>4, <1>5

(* Steps that advance no epoch and prepare none.                           *)
LEMMA EpochsKept ==
    ASSUME Types, EpochInv, UNCHANGED <<cur, resp>>,
           \A p \in Peers : /\ master'[p] \in {nil, master[p]}
                            /\ advancing'[p] = nil <=> advancing[p] = nil
                            /\ Len(advancing'[p]) = Len(advancing[p]),
           Asks(rekey'), Waiting',
           \A frame \in net' : frame \in net \/ Placed(frame)
    PROVE  EpochInv'
  <1>1. \A p \in Peers : Held(p)'
    BY DEF EpochInv, Held, Age
  <1>2. Turns'
    BY PeerFacts DEF EpochInv, Turns, Even, Ahead, Age
  <1>3. Asks(rekey)'
    BY DEF Asks
  <1>4. \A frame \in net' : Placed(frame)'
    BY DEF EpochInv, Placed, Late, Age
  <1>5. RespLate'
    BY DEF EpochInv, RespLate, Late, Age
  <1> QED
    BY <1>1, <1>2, <1>3, <1>4, <1>5 DEF EpochInv

(* A response leaves the inbox, or joins it.                               *)
LEMMA WaitingKept ==
    ASSUME Types, EpochInv, UNCHANGED cur,
           \/ inbox' = inbox
           \/ inbox # << >> /\ inbox' = Tail(inbox)
           \/ \E frame \in Frames : Late(frame) /\ inbox' = Append(inbox, frame)
    PROVE  Waiting'
  <1>1. inbox \in Seq(Frames) /\ \A i \in 1 .. Len(inbox) : Late(inbox[i])
    BY DEF Types, ControlTypes, EpochInv, Waiting
  <1>2. ASSUME NEW i \in 1 .. Len(inbox')
        PROVE  Late(inbox'[i])
    <2>1. CASE inbox' = inbox
      BY <1>1, <1>2, <2>1
    <2>2. CASE inbox # << >> /\ inbox' = Tail(inbox)
      <3>1. inbox'[i] = inbox[i + 1] /\ i + 1 \in 1 .. Len(inbox)
        BY <1>1, <1>2, <2>2, SMT
      <3> QED
        BY <1>1, <3>1
    <2>3. ASSUME NEW frame \in Frames, Late(frame), inbox' = Append(inbox, frame)
          PROVE  Late(inbox'[i])
      <3>1. inbox'[i] = frame \/ (i \in 1 .. Len(inbox) /\ inbox'[i] = inbox[i])
        BY <1>1, <1>2, <2>3, SMT
      <3> QED
        BY <1>1, <2>3, <3>1
    <2> QED
      BY <2>1, <2>2, <2>3
  <1> QED
    BY <1>2 DEF Waiting, Late, Age

(* A peer's current epoch opens only what was sealed under it.             *)
LEMMA OpensCurrent ==
    ASSUME NEW p \in Peers, NEW frame, frame.epoch = cur[p].epoch, Opens(p, frame)
    PROVE  frame.key = cur[p].key
  BY DEF Opens, datagramRecvCipherLocked

(* A response opens once the responder has left the initiator's epoch.     *)
LEMMA OpensAhead ==
    ASSUME Types, EpochInv, rekey.on, inbox # << >>, ResponseOpens(Head(inbox))
    PROVE  Ahead /\ Head(inbox).key = cur[Initiator].key
  <1>1. Head(inbox).epoch = cur[Initiator].epoch /\ Opens(Initiator, Head(inbox))
    BY DEF ResponseOpens, EpochInv, Asks
  <1>2. Head(inbox).key = cur[Initiator].key
    BY <1>1, OpensCurrent, PeerFacts
  <1>3. Late(Head(inbox))
    <2>1. inbox \in Seq(Frames) /\ 1 \in 1 .. Len(inbox) /\ Head(inbox) = inbox[1]
      BY SMT DEF Types, ControlTypes
    <2> QED
      BY <2>1 DEF EpochInv, Waiting
  <1>4. Age(Initiator) < Age(Responder)
    BY <1>2, <1>3 DEF Late, Age
  <1> QED
    BY <1>2, <1>4, EpochTypes, PeerFacts, SMT DEF EpochInv, Turns, Even

(* An init is answered in the epoch of the initiator.                      *)
LEMMA AnswersEven ==
    ASSUME Types, EpochInv, NEW frame \in net, frame.type = "init", Answerable(frame)
    PROVE  Even /\ frame.key = cur[Responder].key
  <1>1. frame.key = cur[Responder].key
    BY OpensCurrent, PeerFacts DEF Answerable
  <1>2. Age(Responder) <= Age(Initiator)
    BY <1>1 DEF EpochInv, Placed, Age
  <1> QED
    BY <1>1, <1>2, EpochTypes, PeerFacts, SMT DEF EpochInv, Turns, Ahead

(* A peer is about to advance.                                             *)
LEMMA PrepareEpoch ==
    ASSUME Types, Types', EpochInv, UNCHANGED <<cur, master, rekey, net>>, NEW p \in Peers, NEW fresh \in Nat,
           master[p] # nil, advancing' = [advancing EXCEPT ![p] = Append(master[p], fresh)], Waiting',
           \/ p = Initiator /\ Ahead /\ UNCHANGED resp
           \/ /\ p = Responder /\ Even /\ advancing[Responder] = nil
              /\ ~resp'.valid /\ resp'.frame.key = cur[Responder].key
    PROVE  EpochInv'
  <1> DEFINE k == Append(master[p], fresh)
  <1>1. k # nil /\ Len(k) = Age(p) + 1
    <2>1. master[p] = cur[p].key /\ master[p] \in Keys
      BY EpochTypes DEF EpochInv, Held
    <2> QED
      BY <2>1, SMT DEF Keys, nil, Age
  <1>2. advancing'[p] = k /\ \A q \in Peers : q # p => advancing'[q] = advancing[q]
    BY DEF Types, SessionTypes
  <1> HIDE DEF k
  <1>3. ASSUME NEW q \in Peers
        PROVE  Held(q)'
    BY <1>1, <1>2 DEF EpochInv, Held, Age
  <1>4. (Even' <=> Even) /\ (Ahead' <=> Ahead)
    BY DEF Even, Ahead, Age
  <1>5. Turns'
    BY <1>2, <1>4, EpochTypes, PeerFacts DEF EpochInv, Turns
  <1>6. Asks(rekey)' /\ (\A frame \in net' : Placed(frame)') /\ RespLate'
    BY DEF EpochInv, Asks, Placed, RespLate, Late, Age
  <1> QED
    BY <1>3, <1>5, <1>6 DEF EpochInv

(* An advance holds the new key.                                           *)
LEMMA AdvanceHeld ==
    ASSUME Types, EpochInv, NEW p \in Peers, AdvanceDatagramEpoch(p)
    PROVE  /\ Advances(p) /\ Age(p)' = Age(p) + 1 /\ \A q \in Peers : Held(q)'
           /\ \A q \in Peers : q # p => Age(q)' = Age(q)
  <1>1. Advances(p)
    BY AdvanceTypes
  <1>2. Age(p)' = Age(p) + 1
    BY <1>1 DEF Advances, EpochInv, Held, Age
  <1>3. \A q \in Peers : q # p => Age(q)' = Age(q)
    BY <1>1 DEF Advances, Age
  <1>4. ASSUME NEW q \in Peers
        PROVE  Held(q)'
    BY <1>1 DEF Advances, EpochInv, Held, Age
  <1> QED
    BY <1>1, <1>2, <1>3, <1>4

(* Advancing puts the responder ahead, and lets the initiator catch up.    *)
LEMMA CompleteEpoch ==
    ASSUME Types, EpochInv, CompleteRekey
    PROVE  EpochInv' /\ Ahead /\ Even'
  <1> DEFINE p == Initiator
             q == Responder
  <1>1. /\ AdvanceDatagramEpoch(p) /\ rekey' = NoRekey /\ UNCHANGED <<net, inbox, resp>>
    BY DEF CompleteRekey
  <1>2. /\ Advances(p) /\ Age(p)' = Age(p) + 1 /\ Age(q)' = Age(q) /\ Age(p) \in Nat
        /\ \A s \in Peers : Held(s)'
    BY <1>1, AdvanceHeld, EpochTypes, PeerFacts
  <1>3. Ahead /\ advancing[q] = nil
    BY <1>2, EpochTypes DEF Advances, EpochInv, Turns
  <1>4. Even'
    BY <1>2, <1>3, PeerFacts DEF Advances, Even, Ahead
  <1>5. Turns'
    <2>1. advancing'[q] = nil /\ advancing'[p] = nil
      BY <1>2, <1>3, PeerFacts DEF Advances
    <2> QED
      BY <1>4, <2>1 DEF Turns
  <1>6. Asks(rekey)' /\ Waiting' /\ RespLate'
    BY <1>1, <1>2 DEF EpochInv, Asks, NoRekey, Waiting, RespLate, Late
  <1>7. \A frame \in net' : Placed(frame)'
    BY <1>1, <1>2, EpochTypes, SMT DEF EpochInv, Placed, Late, Types, ThreadTypes
  <1> QED
    BY <1>2, <1>3, <1>4, <1>5, <1>6, <1>7 DEF EpochInv

LEMMA AnswerEpoch ==
    ASSUME Types, EpochInv, AnswerRekey
    PROVE  EpochInv' /\ Even /\ Ahead'
  <1> DEFINE p == Responder
             q == Initiator
  <1>1. /\ AdvanceDatagramEpoch(p) /\ resp' = [resp EXCEPT !.valid = TRUE] /\ net' = net \cup {resp.frame}
        /\ UNCHANGED <<inbox, rekey>>
    BY DEF AnswerRekey
  <1>2. /\ Advances(p) /\ Age(p)' = Age(p) + 1 /\ Age(q)' = Age(q) /\ Age(p) \in Nat
        /\ \A s \in Peers : Held(s)'
    BY <1>1, AdvanceHeld, EpochTypes, PeerFacts
  <1>3. Even /\ advancing[q] = nil /\ resp.frame.key = cur[p].key
    BY <1>2, EpochTypes DEF Advances, EpochInv, Turns
  <1>4. Ahead'
    BY <1>2, <1>3, PeerFacts, SMT DEF Advances, Even, Ahead
  <1>5. Turns'
    <2>1. advancing'[q] = nil /\ advancing'[p] = nil
      BY <1>2, <1>3, PeerFacts DEF Advances
    <2> QED
      BY <1>4, <2>1 DEF Turns
  <1>6. /\ resp'.frame = resp.frame /\ resp.frame.type = "resp" /\ resp.frame \in Frames
    BY <1>1 DEF Types, ControlTypes
  <1>7. \A frame \in Frames : Late(frame) \/ frame = resp.frame => Late(frame)'
    BY <1>2, <1>3, EpochTypes, SMT DEF Late, Age
  <1>8. Asks(rekey)' /\ Waiting' /\ RespLate'
    <2>1. Asks(rekey)'
      BY <1>1, <1>2, PeerFacts DEF EpochInv, Asks, Advances
    <2>2. Waiting'
      BY <1>1, <1>7, SMT DEF EpochInv, Waiting, Types, ControlTypes
    <2> QED
      BY <1>6, <1>7, <2>1, <2>2 DEF RespLate
  <1>9. \A frame \in net' : Placed(frame)'
    BY <1>1, <1>2, <1>6, <1>7 DEF EpochInv, Placed, Types, ThreadTypes
  <1> QED
    BY <1>2, <1>3, <1>4, <1>5, <1>8, <1>9 DEF EpochInv

(* Every step keeps the epochs in turn.                                    *)
LEMMA EpochStep ==
    ASSUME Types, Types', EpochInv, [Next]_vars
    PROVE  EpochInv'
  <1> DEFINE Still == UNCHANGED <<cur, master, resp, advancing, rekey, inbox>>
  <1>1. ASSUME Still, \A frame \in net' : frame \in net \/ Placed(frame)
        PROVE  EpochInv'
    <2>1. Asks(rekey') /\ Waiting'
      BY <1>1, WaitingKept DEF EpochInv, Asks
    <2> QED
      BY <1>1, <2>1, EpochsKept
  <1>2. ASSUME NEW t \in Threads, DrawSeq(t) \/ ReadEpoch(t) \/ Teardown(t)
        PROVE  EpochInv'
    <2>1. Still /\ net' = net
      BY <1>2 DEF DrawSeq, ReadEpoch, Teardown, session, control
    <2> QED
      BY <1>1, <2>1
  <1>3. ASSUME NEW t \in Threads, Seal(t)
        PROVE  EpochInv'
    <2>1. Still /\ \A frame \in net' : frame \in net \/ frame = [out[t] EXCEPT !.key = cur[t[1]].key]
      BY <1>3 DEF Seal, session, control
    <2>2. [out[t] EXCEPT !.key = cur[t[1]].key].type \in {"data", "close"}
      BY DEF Types, ThreadTypes, Frames
    <2>3. Placed([out[t] EXCEPT !.key = cur[t[1]].key])
      BY <2>2 DEF Placed
    <2> QED
      BY <1>1, <2>1, <2>3
  <1>4. ASSUME NEW p \in Peers, SessionClose(p), UNCHANGED <<cur, resp, rekey, inbox, net>>
        PROVE  EpochInv'
    <2>1. \A q \in Peers : /\ master'[q] \in {nil, master[q]}
                           /\ advancing'[q] = nil <=> advancing[q] = nil
                           /\ Len(advancing'[q]) = Len(advancing[q])
      BY <1>4, CloseTypes DEF Types, SessionTypes
    <2>2. Asks(rekey') /\ Waiting'
      BY <1>4, WaitingKept DEF EpochInv, Asks
    <2> QED
      BY <1>4, <2>1, <2>2, EpochsKept
  <1>5. ASSUME NEW t \in Threads, CloseSession(t)
        PROVE  EpochInv'
    BY <1>4, <1>5, PeerFacts DEF CloseSession
  <1>6. ASSUME NEW frame \in net, NEW p \in Peers, ReceiveData(p, frame) \/ ReceiveClose(p, frame)
        PROVE  EpochInv'
    <2>1. CASE ReceiveData(p, frame)
      BY <1>1, <2>1 DEF ReceiveData, session, control
    <2>2. CASE ReceiveClose(p, frame)
      BY <1>4, <2>2 DEF ReceiveClose
    <2> QED
      BY <1>6, <2>1, <2>2
  <1>7. ASSUME NEW p \in Peers, RetirePrev(p)
        PROVE  EpochInv'
    BY <1>1, <1>7 DEF RetirePrev, control
  <1>8. ASSUME UNCHANGED <<cur, master, resp, advancing>>, Asks(rekey'), Waiting',
               \A frame \in net' : frame \in net \/ Placed(frame)
        PROVE  EpochInv'
    BY <1>8, EpochsKept
  <1>9. CASE BeginRekey
    <2>1. /\ UNCHANGED <<cur, master, resp, advancing, net>>
          /\ inbox' = inbox \/ (inbox # << >> /\ inbox' = Tail(inbox))
          /\ rekey' = [on |-> TRUE, kp |-> kem + 1, attempts |-> 0, frame |-> InitFrame]
      BY <1>9 DEF BeginRekey, InitFrame
    <2>2. Asks(rekey')
      <3>1. rekey'.frame = InitFrame
        BY <2>1
      <3>2. InitFrame.epoch = cur[Initiator].epoch /\ InitFrame.key = cur[Initiator].key
        BY InitBuilt
      <3> QED
        BY <3>1, <3>2 DEF Asks
    <2>3. Waiting'
      BY <2>1, WaitingKept
    <2> QED
      BY <1>8, <2>1, <2>2, <2>3
  <1>10. CASE SendInit
    <2>1. /\ UNCHANGED <<cur, master, resp, advancing, inbox>> /\ rekey.on
          /\ net' = net \cup {rekey.frame} /\ rekey' = [rekey EXCEPT !.attempts = @ + 1]
      BY <1>10 DEF SendInit, session
    <2>2. Asks(rekey') /\ Waiting'
      BY <2>1, WaitingKept DEF EpochInv, Asks, Types, ControlTypes
    <2>3. Placed(rekey.frame)
      BY <2>1, EpochTypes, PeerFacts, SMT DEF EpochInv, Asks, Placed, Age, Types, ControlTypes
    <2> QED
      BY <1>8, <2>1, <2>2, <2>3
  <1>11. CASE AbandonRekey
    <2>1. UNCHANGED <<cur, master, resp, advancing, inbox, net>> /\ rekey' = NoRekey
      BY <1>11 DEF AbandonRekey, session
    <2>2. Asks(rekey') /\ Waiting'
      BY <2>1, WaitingKept DEF Asks, NoRekey
    <2> QED
      BY <1>8, <2>1, <2>2
  <1>12. CASE OpenResponse
    <2>1. /\ UNCHANGED <<cur, master, resp, rekey, net>> /\ rekey.on /\ inbox # << >> /\ inbox' = Tail(inbox)
          /\ \/ /\ ResponseOpens(Head(inbox)) /\ master[Initiator] # nil
                /\ advancing' = [advancing EXCEPT ![Initiator] =
                                     Append(master[Initiator], Decapsulate(rekey.kp, Head(inbox)))]
             \/ UNCHANGED advancing
      BY <1>12 DEF OpenResponse, deriveNextDatagramSecret, session
    <2>2. Waiting' /\ Asks(rekey')
      BY <2>1, WaitingKept DEF EpochInv, Asks
    <2>3. Decapsulate(rekey.kp, Head(inbox)) \in Nat
      <3>1. Head(inbox) \in Frames /\ kem + 1 \in Nat
        BY <2>1, SMT DEF Types, SessionTypes, ControlTypes
      <3> QED
        BY <3>1 DEF Decapsulate, Frames
    <2>4. CASE UNCHANGED advancing
      BY <1>8, <2>1, <2>2, <2>4
    <2>5. CASE ResponseOpens(Head(inbox)) /\ ~UNCHANGED advancing
      <3>1. Ahead
        BY <2>1, <2>5, OpensAhead
      <3> QED
        BY <2>1, <2>2, <2>3, <2>5, <3>1, PrepareEpoch, PeerFacts
    <2> QED
      BY <2>1, <2>4, <2>5
  <1>13. ASSUME NEW frame \in net, ReceiveResponse(frame)
         PROVE  EpochInv'
    <2>1. UNCHANGED <<cur, master, resp, advancing, rekey, net>> /\ frame.type = "resp" /\ inbox' = Append(inbox, frame)
      BY <1>13 DEF ReceiveResponse, session
    <2>2. Late(frame) /\ frame \in Frames
      BY <2>1 DEF EpochInv, Placed, Types, ThreadTypes
    <2>3. Waiting' /\ Asks(rekey')
      BY <2>1, <2>2, WaitingKept DEF EpochInv, Asks
    <2> QED
      BY <1>8, <2>1, <2>3
  <1>14. ASSUME NEW frame \in net, ReplayResponse(frame)
         PROVE  EpochInv'
    <2>1. Still /\ net' = net \cup {resp.frame} /\ resp.valid
      BY <1>14 DEF ReplayResponse, Cached, session, control
    <2>2. Placed(resp.frame)
      BY <2>1 DEF EpochInv, RespLate, Placed, Types, ControlTypes
    <2> QED
      BY <1>1, <2>1, <2>2
  <1>15. ASSUME NEW frame \in net, RespondToRekey(frame)
         PROVE  EpochInv'
    <2>1. /\ UNCHANGED <<cur, master, rekey, net, inbox>> /\ Answerable(frame) /\ frame.type = "init"
          /\ advancing[Responder] = nil
          /\ \/ /\ master[Responder] # nil
                /\ advancing' = [advancing EXCEPT ![Responder] = Append(master[Responder], kem + 1)]
                /\ resp' = [valid |-> FALSE, from |-> frame.epoch, frame |-> AnswerTo(frame)]
             \/ UNCHANGED <<advancing, resp>>
      BY <1>15 DEF RespondToRekey, deriveNextDatagramSecret, AnswerTo
    <2>2. Waiting' /\ Asks(rekey')
      BY <2>1, WaitingKept DEF EpochInv, Asks
    <2>3. CASE UNCHANGED <<advancing, resp>>
      BY <1>8, <2>1, <2>2, <2>3
    <2>4. CASE ~UNCHANGED <<advancing, resp>>
      <3>1. Even
        BY <2>1, AnswersEven
      <3>2. ~resp'.valid /\ resp'.frame.key = cur[Responder].key
        BY <2>1, <2>4, AnswerBuilt, SMT DEF Types, ThreadTypes
      <3>3. kem + 1 \in Nat
        BY SMT DEF Types, SessionTypes
      <3> QED
        BY <2>1, <2>2, <2>4, <3>1, <3>2, <3>3, PrepareEpoch, PeerFacts
    <2> QED
      BY <2>3, <2>4
  <1>16. CASE UNCHANGED vars
    BY <1>1, <1>16 DEF vars
  <1>17. CASE CompleteRekey \/ AnswerRekey
    BY <1>17, CompleteEpoch, AnswerEpoch
  <1> HIDE DEF Still
  <1>18. ASSUME NEW frame \in net, Deliver(frame)
         PROVE  EpochInv'
    BY <1>6, <1>13, <1>14, <1>15, <1>18 DEF Deliver
  <1>19. ASSUME NEW t \in Threads, DrawSeq(t) \/ SealStep(t)
         PROVE  EpochInv'
    BY <1>2, <1>3, <1>5, <1>19 DEF SealStep
  <1> QED
    BY <1>7, <1>9, <1>10, <1>11, <1>12, <1>16, <1>17, <1>18, <1>19 DEF Next, InitiatorStep

(* Both peers start on the key of the handshake.                           *)
LEMMA InitEpochs ==
    ASSUME Init
    PROVE  EpochInv
  <1>1. \A p \in Peers : /\ cur[p].key = <<0>> /\ cur[p].epoch = 0 /\ master[p] = <<0>> /\ advancing[p] = nil
    BY DEF Init
  <1>2. /\ net = {} /\ inbox = << >> /\ ~rekey.on /\ ~resp.valid
    BY DEF Init, NoRekey
  <1>3. \A p \in Peers : Held(p)
    BY <1>1, SMT DEF Held, nil
  <1>4. Turns
    BY <1>1, PeerFacts DEF Turns, Even, Age
  <1> QED
    BY <1>2, <1>3, <1>4, SMT DEF EpochInv, Asks, Waiting, RespLate
-----------------------------------------------------------------------------
(* Headers *)

\* The epoch counts the secrets in the key, modulo a byte.
Named(x) == x.epoch = (Len(x.key) - 1) % EpochMod

\* No counter is within a cap of its width, 2^64.
Fits == \A p \in Peers : sendSeq[p] + MaxPackets <= Word

RespNamed == resp.valid \/ advancing[Responder] # nil => Named(resp.frame)
NameInv ==
    /\ \A p \in Peers : Named(cur[p])
    /\ RespNamed
    /\ Fits => HeaderNamesKey

(* Counting modulo a byte.                                                 *)
LEMMA NextMod ==
    ASSUME NEW n \in Nat
    PROVE  nextEpoch(n % EpochMod) = (n + 1) % EpochMod
  <1> DEFINE M == EpochMod
             q == n \div M
             r == n % M
  <1>1. M \in Nat /\ M > 1
    BY EpochFacts
  <1>2. q \in Nat /\ r \in 0 .. M - 1 /\ n = q * M + r
    BY <1>1, SMT
  <1>3. nextEpoch(r) = IF r + 1 = M THEN 0 ELSE r + 1
    BY <1>2, EpochFacts DEF Epochs
  <1> HIDE DEF q, r
  <1>4. CASE r + 1 = M
    <2>1. n + 1 = (q + 1) * M + 0
      BY <1>1, <1>2, <1>4, SMT
    <2>2. ((q + 1) * M + 0) % M = 0
      BY <1>1, <1>2, SMT
    <2> QED
      BY <1>3, <1>4, <2>1, <2>2 DEF r
  <1>5. CASE r + 1 < M
    <2>1. n + 1 = q * M + (r + 1)
      BY <1>1, <1>2, SMT
    <2>2. (q * M + (r + 1)) % M = r + 1
      BY <1>1, <1>2, <1>5, SMT
    <2> QED
      BY <1>1, <1>2, <1>3, <1>5, <2>1, <2>2, SMT DEF r
  <1> QED
    BY <1>1, <1>2, <1>4, <1>5, SMT

(* An advance adds one to both.                                            *)
LEMMA AdvanceNamed ==
    ASSUME Types, EpochInv, NEW p \in Peers, AdvanceDatagramEpoch(p), \A q \in Peers : Named(cur[q])
    PROVE  \A q \in Peers : Named(cur'[q])
  <1>1. Advances(p) /\ Age(p)' = Age(p) + 1 /\ Age(p) \in Nat /\ cur[p].key \in Keys
    BY AdvanceHeld, EpochTypes
  <1>2. Age(p) - 1 \in Nat
    BY <1>1, SMT DEF EpochInv, Held, Age, Keys, nil
  <1>3. Named(cur'[p])
    <2>1. cur'[p].epoch = nextEpoch((Age(p) - 1) % EpochMod)
      BY <1>1 DEF Advances, Named, Age
    <2>2. cur'[p].epoch = ((Age(p) - 1) + 1) % EpochMod
      BY <1>2, <2>1, NextMod
    <2>3. (Age(p) - 1) + 1 = Len(cur'[p].key) - 1
      BY <1>1, SMT DEF Age
    <2> QED
      BY <2>2, <2>3 DEF Named
  <1> QED
    BY <1>1, <1>3 DEF Advances

\* The number is one of the first MaxPackets since p's epoch began.
Capped(p, seq) == cur[p].startSeq <= seq /\ seq < cur[p].startSeq + MaxPackets

(* The cap refuses a number drawn before the epoch began: the difference   *)
(* wraps to no less than the cap.                                          *)
LEMMA SealCapped ==
    ASSUME Types, NonceInv, StaleInv, Fits, NEW t \in Threads, pc[t] = "seal", ~AtCap(t[1], out[t].seq)
    PROVE  Capped(t[1], out[t].seq) /\ out[t].epoch = cur[t[1]].epoch
  <1> DEFINE p == t[1]
             seq == out[t].seq
             start == cur[p].startSeq
  <1>1. p \in Peers /\ seq \in Nat /\ start \in Nat /\ sendSeq[p] \in Nat /\ MaxPackets \in Nat /\ Word \in Nat
    BY PeerFacts, DatagramAssumption DEF Types, SessionTypes, ThreadTypes, Frames, EpochRecords
  <1>2. start <= sendSeq[p] /\ sendSeq[p] + MaxPackets <= Word /\ seq < sendSeq[p]
    BY <1>1 DEF StaleInv, Fits, NonceInv, Drawn, Fresh
  <1>3. out[t].epoch = cur[p].epoch \/ seq < start
    BY DEF StaleInv
  <1>4. (seq - start + Word) % Word < MaxPackets
    <2>1. ~(Sub64(seq, start) >= MaxPackets)
      BY DEF AtCap
    <2>2. Word # 0
      BY DatagramAssumption
    <2>3. (seq - start + Word) % Word \in Int
      BY <1>1, <2>2, SMT
    <2> QED
      BY <1>1, <2>1, <2>3, SMT DEF Sub64
  <1> HIDE DEF p, seq, start
  <1>5. ASSUME seq < start
        PROVE  FALSE
    <2>1. seq - start + Word \in 0 .. Word - 1 /\ seq - start + Word >= MaxPackets
      BY <1>1, <1>2, <1>5, SMT
    <2>2. (seq - start + Word) % Word = seq - start + Word
      BY <1>1, <2>1, SMT
    <2> QED
      BY <1>1, <1>4, <2>1, <2>2, SMT
  <1>6. seq - start < MaxPackets
    <2>1. seq - start \in 0 .. Word - 1
      BY <1>1, <1>2, <1>5, SMT
    <2>2. (seq - start + Word) % Word = seq - start
      BY <1>1, <2>1, SMT
    <2> QED
      BY <1>1, <1>4, <2>2
  <1>7. start <= seq /\ seq < start + MaxPackets
    BY <1>1, <1>5, <1>6, SMT
  <1> QED
    BY <1>3, <1>5, <1>7 DEF p, seq, start, Capped

(* Only Seal and the rekey send.                                           *)
LEMMA NetGrows ==
    ASSUME [Next]_vars
    PROVE  \/ net' = net \/ SendInit \/ AnswerRekey
           \/ \E t \in Threads : Seal(t)
           \/ \E frame \in net : ReplayResponse(frame)
  <1>1. ASSUME NEW t \in Threads, DrawSeq(t) \/ ReadEpoch(t) \/ CloseSession(t) \/ Teardown(t)
        PROVE  net' = net
    BY <1>1 DEF DrawSeq, ReadEpoch, CloseSession, Teardown
  <1>2. ASSUME NEW frame \in net, NEW p \in Peers, ReceiveData(p, frame) \/ ReceiveClose(p, frame)
        PROVE  net' = net
    BY <1>2 DEF ReceiveData, ReceiveClose
  <1>3. ASSUME NEW frame \in net, ReceiveResponse(frame) \/ RespondToRekey(frame)
        PROVE  net' = net
    BY <1>3 DEF ReceiveResponse, RespondToRekey
  <1>4. ASSUME NEW p \in Peers, RetirePrev(p)
        PROVE  net' = net
    BY <1>4 DEF RetirePrev
  <1>5. CASE BeginRekey \/ AbandonRekey \/ OpenResponse \/ CompleteRekey \/ UNCHANGED vars
    BY <1>5 DEF BeginRekey, AbandonRekey, OpenResponse, CompleteRekey, vars
  <1> QED
    BY <1>1, <1>2, <1>3, <1>4, <1>5 DEF Next, SealStep, Deliver, InitiatorStep

(* Only the ends of a rekey change an epoch.                               *)
LEMMA EpochChanges ==
    ASSUME [Next]_vars
    PROVE  cur' = cur \/ CompleteRekey \/ AnswerRekey
  <1>1. ASSUME NEW t \in Threads, DrawSeq(t) \/ SealStep(t)
        PROVE  cur' = cur
    BY <1>1 DEF SealStep, DrawSeq, ReadEpoch, Seal, CloseSession, Teardown, session
  <1>2. ASSUME NEW frame \in net, Deliver(frame)
        PROVE  cur' = cur
    <2>1. ASSUME NEW p \in Peers, ReceiveData(p, frame) \/ ReceiveClose(p, frame)
          PROVE  cur' = cur
      BY <2>1 DEF ReceiveData, ReceiveClose, session
    <2>2. CASE ReceiveResponse(frame) \/ ReplayResponse(frame) \/ RespondToRekey(frame)
      BY <2>2 DEF ReceiveResponse, ReplayResponse, RespondToRekey, session
    <2> QED
      BY <1>2, <2>1, <2>2 DEF Deliver
  <1>3. ASSUME NEW p \in Peers, RetirePrev(p)
        PROVE  cur' = cur
    BY <1>3 DEF RetirePrev
  <1>4. CASE BeginRekey \/ SendInit \/ AbandonRekey \/ OpenResponse \/ UNCHANGED vars
    BY <1>4 DEF BeginRekey, SendInit, AbandonRekey, OpenResponse, session, vars
  <1> QED
    BY <1>1, <1>2, <1>3, <1>4 DEF Next, InitiatorStep

(* The counters only grow.                                                 *)
LEMMA SeqGrows ==
    ASSUME Types, Types', [Next]_vars, Fits'
    PROVE  Fits
  <1>1. ASSUME \A p \in Peers : sendSeq'[p] >= sendSeq[p]
        PROVE  Fits
    <2>1. \A p \in Peers : sendSeq[p] \in Nat /\ sendSeq'[p] \in Nat
      BY DEF Types, SessionTypes
    <2> QED
      BY <1>1, <2>1, DatagramAssumption, SMT DEF Fits
  <1>2. CASE sendSeq' = sendSeq
    BY <1>2 DEF Fits
  <1>3. ASSUME NEW p \in Peers, nextDatagramSeq(p)
        PROVE  Fits
    BY <1>1, <1>3, Draws
  <1>4. ASSUME NEW t \in Threads, DrawSeq(t) \/ SealStep(t)
        PROVE  Fits
    <2>1. CASE DrawSeq(t)
      BY <1>3, <2>1, PeerFacts DEF DrawSeq
    <2>2. CASE SealStep(t)
      BY <1>2, <2>2 DEF SealStep, ReadEpoch, Seal, CloseSession, Teardown, session
    <2> QED
      BY <1>4, <2>1, <2>2
  <1>5. ASSUME NEW frame \in net, Deliver(frame)
        PROVE  Fits
    <2>1. ASSUME NEW p \in Peers, ReceiveData(p, frame) \/ ReceiveClose(p, frame)
          PROVE  Fits
      BY <1>2, <2>1 DEF ReceiveData, ReceiveClose, session
    <2>2. CASE ReceiveResponse(frame) \/ ReplayResponse(frame)
      BY <1>2, <2>2 DEF ReceiveResponse, ReplayResponse, session
    <2>3. CASE RespondToRekey(frame)
      BY <1>3, <2>3, PeerFacts DEF RespondToRekey
    <2> QED
      BY <1>5, <2>1, <2>2, <2>3 DEF Deliver
  <1>6. ASSUME NEW p \in Peers, RetirePrev(p)
        PROVE  Fits
    BY <1>2, <1>6 DEF RetirePrev
  <1>7. CASE BeginRekey
    BY <1>3, <1>7, PeerFacts DEF BeginRekey
  <1>8. CASE InitiatorStep \/ AnswerRekey \/ UNCHANGED vars
    BY <1>2, <1>8 DEF InitiatorStep, SendInit, AbandonRekey, OpenResponse, CompleteRekey,
                             AnswerRekey, session, vars
  <1> QED
    BY <1>4, <1>5, <1>6, <1>7, <1>8 DEF Next

(* What is sent is named by its key.                                       *)
LEMMA NetNamed ==
    ASSUME Types, NonceInv, StaleInv, EpochInv, NameInv, Fits, [Next]_vars
    PROVE  HeaderNamesKey'
  <1>1. \A p \in Peers : Named(cur[p])
    BY DEF NameInv
  <1>2. ASSUME NEW frame, Named(frame), net' = net \cup {frame}
        PROVE  HeaderNamesKey'
    BY <1>2 DEF NameInv, HeaderNamesKey, Named
  <1>3. CASE net' = net
    BY <1>3 DEF NameInv, HeaderNamesKey
  <1>4. CASE SendInit
    <2>1. rekey.on /\ net' = net \cup {rekey.frame}
      BY <1>4 DEF SendInit
    <2>2. Named(rekey.frame)
      BY <1>1, <2>1, PeerFacts DEF EpochInv, Asks, Named
    <2> QED
      BY <1>2, <2>1, <2>2
  <1>5. CASE AnswerRekey \/ \E frame \in net : ReplayResponse(frame)
    <2>1. net' = net \cup {resp.frame} /\ (resp.valid \/ advancing[Responder] # nil)
      BY <1>5 DEF AnswerRekey, AdvanceDatagramEpoch, ReplayResponse, Cached
    <2> QED
      BY <1>2, <2>1 DEF NameInv, RespNamed
  <1>6. ASSUME NEW t \in Threads, Seal(t)
        PROVE  HeaderNamesKey'
    <2> DEFINE frame == [out[t] EXCEPT !.key = cur[t[1]].key]
    <2>1. pc[t] = "seal" /\ (net' = net \/ (~AtCap(t[1], out[t].seq) /\ net' = net \cup {frame}))
      BY <1>6 DEF Seal
    <2>2. ASSUME ~AtCap(t[1], out[t].seq)
          PROVE  Named(frame)
      <3>1. out[t].epoch = cur[t[1]].epoch /\ t[1] \in Peers
        BY <2>1, <2>2, SealCapped, PeerFacts
      <3>2. frame.epoch = out[t].epoch /\ frame.key = cur[t[1]].key
        BY DEF Types, ThreadTypes, Frames
      <3> HIDE DEF frame
      <3> QED
        BY <1>1, <3>1, <3>2 DEF Named
    <2> QED
      BY <1>2, <1>3, <2>1, <2>2
  <1> QED
    BY <1>3, <1>4, <1>5, <1>6, NetGrows

(* So is the response.                                                     *)
LEMMA RespStep ==
    ASSUME Types, NameInv, [Next]_vars
    PROVE  RespNamed'
  <1>1. CASE UNCHANGED <<resp, advancing>>
    BY <1>1 DEF NameInv, RespNamed
  <1>2. ASSUME resp' = resp, advancing[Responder] = nil => advancing'[Responder] = nil
        PROVE  RespNamed'
    BY <1>2 DEF NameInv, RespNamed
  <1>3. ASSUME NEW t \in Threads, DrawSeq(t) \/ SealStep(t)
        PROVE  RespNamed'
    <2>1. CASE CloseSession(t)
      <3>1. resp' = resp /\ SessionClose(t[1])
        BY <2>1 DEF CloseSession
      <3> QED
        BY <1>2, <3>1, CloseTypes, PeerFacts
    <2> QED
      BY <1>1, <1>3, <2>1 DEF SealStep, DrawSeq, ReadEpoch, Seal, Teardown, control
  <1>4. ASSUME NEW frame \in net, NEW p \in Peers, ReceiveData(p, frame) \/ ReceiveClose(p, frame)
        PROVE  RespNamed'
    <2>1. CASE ReceiveClose(p, frame)
      <3>1. resp' = resp /\ SessionClose(p)
        BY <2>1 DEF ReceiveClose
      <3> QED
        BY <1>2, <3>1, CloseTypes, PeerFacts
    <2> QED
      BY <1>1, <1>4, <2>1 DEF ReceiveData, control
  <1>5. ASSUME NEW frame \in net, ReceiveResponse(frame) \/ ReplayResponse(frame)
        PROVE  RespNamed'
    BY <1>1, <1>5 DEF ReceiveResponse, ReplayResponse, control
  <1>6. ASSUME NEW frame \in net, RespondToRekey(frame)
        PROVE  RespNamed'
    <2>1. UNCHANGED <<resp, advancing>> \/ resp' = [valid |-> FALSE, from |-> frame.epoch, frame |-> AnswerTo(frame)]
      BY <1>6 DEF RespondToRekey, AnswerTo
    <2>2. AnswerTo(frame).epoch = cur[Responder].epoch /\ AnswerTo(frame).key = cur[Responder].key
      BY AnswerBuilt DEF Types, ThreadTypes
    <2>3. Named(AnswerTo(frame))
      BY <2>2, PeerFacts DEF NameInv, Named
    <2>4. CASE resp' = [valid |-> FALSE, from |-> frame.epoch, frame |-> AnswerTo(frame)]
      <3>1. resp'.frame = AnswerTo(frame)
        BY <2>4
      <3> QED
        BY <2>3, <3>1 DEF RespNamed, Named
    <2> QED
      BY <1>1, <2>1, <2>4
  <1>7. CASE OpenResponse \/ CompleteRekey
    <2>1. resp' = resp /\ \E k : advancing' = [advancing EXCEPT ![Initiator] = k] \/ advancing' = advancing
      BY <1>7 DEF OpenResponse, CompleteRekey, AdvanceDatagramEpoch
    <2>2. advancing'[Responder] = advancing[Responder]
      BY <2>1, PeerFacts DEF Types, SessionTypes
    <2> QED
      BY <1>2, <2>1, <2>2
  <1>8. CASE AnswerRekey
    <2>1. resp' = [resp EXCEPT !.valid = TRUE] /\ advancing[Responder] # nil
      BY <1>8 DEF AnswerRekey, AdvanceDatagramEpoch
    <2>2. resp'.frame = resp.frame
      BY <2>1 DEF Types, ControlTypes
    <2> QED
      BY <2>1, <2>2 DEF NameInv, RespNamed, Named
  <1>9. CASE BeginRekey \/ SendInit \/ AbandonRekey \/ UNCHANGED vars
    BY <1>1, <1>9 DEF BeginRekey, SendInit, AbandonRekey, vars
  <1>10. ASSUME NEW p \in Peers, RetirePrev(p)
         PROVE  RespNamed'
    BY <1>1, <1>10 DEF RetirePrev, control
  <1> QED
    BY <1>3, <1>4, <1>5, <1>6, <1>7, <1>8, <1>9, <1>10 DEF Next, Deliver, InitiatorStep

(* Every step.                                                             *)
LEMMA NameStep ==
    ASSUME Types, Types', NonceInv, StaleInv, EpochInv, NameInv, [Next]_vars
    PROVE  NameInv'
  <1>1. \A p \in Peers : Named(cur'[p])
    <2>1. CASE CompleteRekey \/ AnswerRekey
      <3>1. \E p \in Peers : AdvanceDatagramEpoch(p)
        BY <2>1, PeerFacts DEF CompleteRekey, AnswerRekey
      <3> QED
        BY <3>1, AdvanceNamed DEF NameInv
    <2> QED
      BY <2>1, EpochChanges DEF NameInv
  <1>2. Fits' => HeaderNamesKey'
    BY SeqGrows, NetNamed
  <1> QED
    BY <1>1, <1>2, RespStep DEF NameInv, Named

(* At first.                                                               *)
LEMMA InitNames ==
    ASSUME Init
    PROVE  NameInv
  <1>1. \A p \in Peers : Named(cur[p])
    <2>1. \A p \in Peers : cur[p].epoch = 0 /\ Len(cur[p].key) - 1 = 0
      BY SMT DEF Init
    <2>2. 0 % EpochMod = 0
      BY EpochFacts, SMT
    <2> QED
      BY <2>1, <2>2 DEF Named
  <1>2. RespNamed
    BY PeerFacts DEF Init, RespNamed
  <1>3. HeaderNamesKey
    BY DEF Init, HeaderNamesKey
  <1> QED
    BY <1>1, <1>2, <1>3 DEF NameInv
-----------------------------------------------------------------------------
(* Wear *)

\* No two frames share a number.
OneUse == \A u, w \in sealed : u.peer = w.peer /\ u.seq = w.seq => u = w

\* A key was retired, or is the current one, whose data is under the cap.
Spent(u) ==
    \/ Len(u.key) < Age(u.peer)
    \/ u.key = cur[u.peer].key /\ (u.type # "control" => Capped(u.peer, u.seq))

\* The data sealed with u's key is within a cap's width.
Same(u, w) == w.peer = u.peer /\ w.key = u.key /\ w.type # "control"
Worn(u) == \E start \in Nat : \A w \in sealed : Same(u, w) => start <= w.seq /\ w.seq < start + MaxPackets

WearInv == Fits => \A u \in sealed : Spent(u) /\ Worn(u)

(* Sealing with a number not used before, under the cap or for the rekey.  *)
LEMMA UseWear ==
    ASSUME Types, Types', OneUse, WearInv, NEW p \in Peers, NEW seq \in Nat, NEW type,
           \A u \in sealed : u.peer = p => u.seq # seq,
           Use(p, seq, type), UNCHANGED cur, Fits' => Fits,
           Fits => type = "control" \/ Capped(p, seq)
    PROVE  OneUse' /\ WearInv'
  <1> DEFINE use == [peer |-> p, key |-> cur[p].key, seq |-> seq, type |-> type]
  <1>1. sealed' = sealed \cup {use}
    BY DEF Use
  <1>2. use.peer = p /\ use.key = cur[p].key /\ use.seq = seq /\ use.type = type
    OBVIOUS
  <1> HIDE DEF use
  <1>3. OneUse'
    BY <1>1, <1>2 DEF OneUse
  <1>4. \A q \in Peers, n \in Nat : Capped(q, n)' <=> Capped(q, n)
    BY DEF Capped
  <1>5. \A u \in sealed' : u.peer \in Peers /\ u.seq \in Nat /\ u.key \in Keys
    BY DEF Types, HistoryTypes, Uses
  <1>6. ASSUME Fits, NEW u \in sealed'
        PROVE  Spent(u)
    <2>1. CASE u \in sealed
      BY <1>6, <2>1 DEF WearInv
    <2>2. CASE u = use
      BY <1>2, <1>6, <2>2 DEF Spent
    <2> QED
      BY <1>1, <2>1, <2>2
  <1>7. ASSUME Fits, NEW u \in sealed'
        PROVE  \E start \in Nat : \A w \in sealed' : Same(u, w) => start <= w.seq /\ w.seq < start + MaxPackets
    <2>1. CASE u.peer = p /\ u.key = cur[p].key
      <3>1. ASSUME NEW w \in sealed', Same(u, w)
            PROVE  Capped(p, w.seq)
        <4>1. w.peer = p /\ w.key = cur[p].key /\ w.type # "control"
          BY <2>1, <3>1 DEF Same
        <4>2. Len(cur[p].key) \in Nat
          BY EpochTypes DEF Age
        <4> QED
          BY <1>6, <1>7, <4>1, <4>2, SMT DEF Spent, Age
      <3>2. cur[p].startSeq \in Nat
        BY DEF Types, SessionTypes, EpochRecords
      <3> QED
        BY <3>1, <3>2 DEF Capped
    <2>2. CASE ~(u.peer = p /\ u.key = cur[p].key)
      <3>1. u \in sealed /\ ~Same(u, use)
        BY <1>1, <1>2, <2>2 DEF Same
      <3>2. PICK start \in Nat : \A w \in sealed : Same(u, w) => start <= w.seq /\ w.seq < start + MaxPackets
        BY <1>7, <3>1 DEF WearInv, Worn
      <3> QED
        BY <1>1, <3>1, <3>2
    <2> QED
      BY <2>1, <2>2
  <1>8. ASSUME Fits, NEW u \in sealed'
        PROVE  Spent(u)' /\ Worn(u)'
    <2>1. Spent(u)'
      BY <1>4, <1>5, <1>6, <1>8 DEF Spent, Age
    <2>2. Worn(u)'
      BY <1>7, <1>8 DEF Worn, Same
    <2> QED
      BY <2>1, <2>2
  <1> QED
    BY <1>3, <1>8 DEF WearInv

(* An advance retires every key in use.                                    *)
LEMMA AdvanceWear ==
    ASSUME Types, EpochInv, WearInv, NEW p \in Peers, AdvanceDatagramEpoch(p), UNCHANGED sealed, Fits' => Fits
    PROVE  WearInv'
  <1>1. /\ Advances(p) /\ Age(p)' = Age(p) + 1 /\ Age(p) \in Nat
        /\ \A q \in Peers : q # p => Age(q)' = Age(q)
    BY AdvanceHeld, EpochTypes
  <1>2. ASSUME Fits, NEW u \in sealed
        PROVE  Spent(u)' /\ Worn(u)'
    <2>1. u.peer \in Peers /\ Len(u.key) \in Nat
      BY SMT DEF Types, HistoryTypes, Uses, Keys
    <2>2. Spent(u) /\ Worn(u)
      BY <1>2 DEF WearInv
    <2>3. CASE u.peer = p
      <3>1. Len(u.key) < Age(p) + 1
        BY <1>1, <2>1, <2>2, <2>3, SMT DEF Spent, Age
      <3> QED
        BY <1>1, <2>2, <2>3, <3>1 DEF Spent, Worn, Same
    <2>4. CASE u.peer # p
      <3>1. Age(u.peer)' = Age(u.peer) /\ cur'[u.peer] = cur[u.peer]
        BY <1>1, <2>1, <2>4 DEF Advances
      <3>2. Spent(u)'
        BY <2>2, <3>1 DEF Spent, Capped
      <3> QED
        BY <2>2, <3>2 DEF Worn, Same
    <2> QED
      BY <2>3, <2>4
  <1> QED
    BY <1>2 DEF WearInv

(* Only Seal and the rekey's control messages use a key.                   *)
LEMMA UseChanges ==
    ASSUME [Next]_vars
    PROVE  \/ sealed' = sealed
           \/ \E t \in Threads : Seal(t)
           \/ \E p \in Peers : Use(p, sendSeq[p], "control") /\ cur' = cur
  <1>1. ASSUME NEW t \in Threads, DrawSeq(t) \/ ReadEpoch(t) \/ CloseSession(t) \/ Teardown(t)
        PROVE  sealed' = sealed
    BY <1>1 DEF DrawSeq, ReadEpoch, CloseSession, Teardown, history
  <1>2. ASSUME NEW frame \in net, NEW p \in Peers, ReceiveData(p, frame) \/ ReceiveClose(p, frame)
        PROVE  sealed' = sealed
    BY <1>2 DEF ReceiveData, ReceiveClose, history
  <1>3. ASSUME NEW frame \in net, ReceiveResponse(frame) \/ ReplayResponse(frame)
        PROVE  sealed' = sealed
    BY <1>3 DEF ReceiveResponse, ReplayResponse, history
  <1>4. ASSUME NEW p \in Peers, RetirePrev(p)
        PROVE  sealed' = sealed
    BY <1>4 DEF RetirePrev, history
  <1>5. CASE InitiatorStep \/ AnswerRekey \/ UNCHANGED vars
    BY <1>5 DEF InitiatorStep, SendInit, AbandonRekey, OpenResponse, CompleteRekey, AnswerRekey,
                       vars, history
  <1>6. ASSUME BeginRekey \/ \E frame \in net : RespondToRekey(frame)
        PROVE  \E p \in Peers : Use(p, sendSeq[p], "control") /\ cur' = cur
    BY <1>6, PeerFacts DEF BeginRekey, RespondToRekey
  <1> QED
    BY <1>1, <1>2, <1>3, <1>4, <1>5, <1>6 DEF Next, SealStep, Deliver

(* Every step.                                                             *)
LEMMA WearStep ==
    ASSUME Types, Types', NonceInv, StaleInv, EpochInv, OneUse, WearInv, [Next]_vars
    PROVE  OneUse' /\ WearInv'
  <1>1. Fits' => Fits
    BY SeqGrows
  <1>2. CASE UNCHANGED <<sealed, cur>>
    <2>1. OneUse'
      BY <1>2 DEF OneUse
    <2>2. \A u \in sealed : (Spent(u) => Spent(u)') /\ (Worn(u) => Worn(u)')
      BY <1>2 DEF Spent, Worn, Same, Capped, Age
    <2> QED
      BY <1>1, <1>2, <2>1, <2>2 DEF WearInv
  <1>3. CASE sealed' = sealed /\ (CompleteRekey \/ AnswerRekey)
    <2>1. \E p \in Peers : AdvanceDatagramEpoch(p)
      BY <1>3, PeerFacts DEF CompleteRekey, AnswerRekey
    <2>2. OneUse'
      BY <1>3 DEF OneUse
    <2> QED
      BY <1>1, <1>3, <2>1, <2>2, AdvanceWear
  <1>4. ASSUME NEW p \in Peers, Use(p, sendSeq[p], "control"), cur' = cur
        PROVE  OneUse' /\ WearInv'
    <2>1. sendSeq[p] \in Nat /\ \A u \in sealed : u.peer = p => u.seq # sendSeq[p]
      BY SMT DEF NonceInv, Types, SessionTypes, HistoryTypes, Uses
    <2> QED
      BY <1>1, <1>4, <2>1, UseWear
  <1>5. ASSUME NEW t \in Threads, Seal(t)
        PROVE  OneUse' /\ WearInv'
    <2>1. /\ pc[t] = "seal" /\ cur' = cur
          /\ \/ sealed' = sealed
             \/ ~AtCap(t[1], out[t].seq) /\ Use(t[1], out[t].seq, out[t].type)
      BY <1>5 DEF Seal, session
    <2>2. /\ t[1] \in Peers /\ out[t].seq \in Nat
          /\ \A u \in sealed : u.peer = t[1] => u.seq # out[t].seq
      BY <2>1, PeerFacts DEF NonceInv, Drawn, Fresh, Types, ThreadTypes, Frames
    <2>3. Fits /\ ~AtCap(t[1], out[t].seq) => Capped(t[1], out[t].seq)
      BY <2>1, SealCapped
    <2> QED
      BY <1>1, <1>2, <2>1, <2>2, <2>3, UseWear, SMT
  <1> QED
    BY <1>2, <1>3, <1>4, <1>5, UseChanges, EpochChanges
-----------------------------------------------------------------------------
(* What holds of every session *)

DatagramInv == Types /\ NonceInv /\ StaleInv /\ EpochInv /\ NameInv /\ OneUse /\ WearInv

(* The inductive invariant: sequence numbers are drawn once, the responder  *)
(* is never more than one epoch ahead, and epochs count secrets             *)
(* (nextDatagramSeq, handleRekeyInit, completeDatagramRekey).               *)
THEOREM DatagramInvariant == Spec => []DatagramInv
  <1>1. Init => DatagramInv
    <2>1. Init => OneUse /\ WearInv
      BY DEF Init, OneUse, WearInv
    <2> QED
      BY <2>1, InitTypes, InitSealing, InitEpochs, InitNames DEF DatagramInv
  <1>2. DatagramInv /\ [Next]_vars => DatagramInv'
    <2> SUFFICES ASSUME DatagramInv, [Next]_vars
                 PROVE  DatagramInv'
      OBVIOUS
    <2>1. Types /\ NonceInv /\ StaleInv /\ EpochInv /\ NameInv /\ OneUse /\ WearInv
      BY DEF DatagramInv
    <2>2. Types'
      BY <2>1, TypesKept
    <2>3. NonceInv' /\ StaleInv'
      BY <2>1, SealingStep
    <2>4. EpochInv'
      BY <2>1, <2>2, EpochStep
    <2>5. NameInv'
      BY <2>1, <2>2, NameStep
    <2>6. OneUse' /\ WearInv'
      BY <2>1, <2>2, WearStep
    <2> QED
      BY <2>2, <2>3, <2>4, <2>5, <2>6 DEF DatagramInv
  <1> QED
    BY <1>1, <1>2, PTL DEF Spec

(* A disturbance is not forgotten.                                         *)
LEMMA DisturbedStays ==
    ASSUME [Next]_vars
    PROVE  disturbed' = disturbed \/ disturbed' = TRUE
  <1>1. ASSUME NEW t \in Threads, DrawSeq(t) \/ SealStep(t)
        PROVE  disturbed' = disturbed \/ disturbed' = TRUE
    BY <1>1 DEF SealStep, DrawSeq, ReadEpoch, Seal, CloseSession, SessionClose, Teardown
  <1>2. ASSUME NEW frame \in net, Deliver(frame)
        PROVE  disturbed' = disturbed \/ disturbed' = TRUE
    BY <1>2 DEF Deliver, ReceiveData, ReceiveClose, SessionClose, ReceiveResponse, ReplayResponse,
                RespondToRekey
  <1>3. ASSUME NEW p \in Peers, RetirePrev(p)
        PROVE  disturbed' = disturbed \/ disturbed' = TRUE
    BY <1>3 DEF RetirePrev
  <1>4. CASE BeginRekey \/ InitiatorStep \/ AnswerRekey \/ UNCHANGED vars
    BY <1>4 DEF BeginRekey, InitiatorStep, SendInit, AbandonRekey, OpenResponse, CompleteRekey,
                AnswerRekey, vars
  <1> QED
    BY <1>1, <1>2, <1>3, <1>4 DEF Next

(* Every variable of the session keeps its type.                           *)
THEOREM DatagramTypeCorrect == Spec => []TypeOK
  <1>1. DatagramInv /\ disturbed \in BOOLEAN => TypeOK
    BY DEF DatagramInv, Types, SessionTypes, ThreadTypes, Positions, ControlTypes, HistoryTypes, Uses, TypeOK
  <1>2. Init => disturbed \in BOOLEAN
    BY DEF Init
  <1>3. disturbed \in BOOLEAN /\ [Next]_vars => (disturbed \in BOOLEAN)'
    BY DisturbedStays
  <1> QED
    BY <1>1, <1>2, <1>3, DatagramInvariant, PTL DEF Spec

(* Whatever is lost, repeated, timed out or closed, the responder's epoch   *)
(* is the initiator's or the next: an init is answered only in the epoch    *)
(* the initiator is in, and a response opens only in the one after it       *)
(* (handleRekeyInit, completeDatagramRekey).                                *)
THEOREM EpochsStayAdjacent == Spec => []EpochsAdjacent
  <1>1. DatagramInv => EpochsAdjacent
    BY DEF DatagramInv, EpochInv, Turns, Even, Ahead, EpochsAdjacent, nextEpoch
  <1> QED
    BY <1>1, DatagramInvariant, PTL

(* Data, CLOSE and control frames share one counter, so no key seals two   *)
(* frames with one sequence number (nextDatagramSeq).                      *)
THEOREM DatagramNoncesAreUnique == Spec => []NonceNeverReused
  <1>1. DatagramInv => NonceNeverReused
    BY DEF DatagramInv, NonceInv, NonceNeverReused
  <1> QED
    BY <1>1, DatagramInvariant, PTL

(* While no counter is within a cap of its width, every header names the   *)
(* epoch of the key that sealed its frame, although the epoch is read      *)
(* before the key: DatagramSealTo refuses the sequence number of a frame   *)
(* that a rekey overtook.                                                  *)
THEOREM HeadersNameKeys == Spec => [](Fits => HeaderNamesKey)
  <1>1. DatagramInv => (Fits => HeaderNamesKey)
    BY DEF DatagramInv, NameInv
  <1> QED
    BY <1>1, DatagramInvariant, PTL
-----------------------------------------------------------------------------
(* Until a Rekey call is given up or a session closed *)

\* Nobody has closed, and each peer's master secret is that of its epoch.
Undisturbed ==
    /\ \A t \in Threads : pc[t] # "teardown"
    /\ \A p \in Peers : live[p] /\ master[p] = cur[p].key

Follows(k, j) == \E x \in Nat : k = Append(j, x)

\* The responder's key is the initiator's, or has one secret more.
Joined ==
    \/ Even /\ cur[Responder].key = cur[Initiator].key
    \/ Ahead /\ Follows(cur[Responder].key, cur[Initiator].key)

\* The retained epoch is the one before the current epoch.
Retained ==
    \A p \in Peers : prev[p].key # nil => /\ Follows(cur[p].key, prev[p].key)
                                          /\ cur[p].epoch = nextEpoch(prev[p].epoch)

\* What was sealed under the initiator's epoch belongs to the Rekey call under way.
Requests(frame) == frame.key = cur[Initiator].key => rekey.on /\ frame.kp = rekey.kp
Answers(frame) == frame.key = cur[Initiator].key =>
    rekey.on /\ frame.kp = rekey.kp /\ cur[Responder].key = Append(cur[Initiator].key, frame.ct)
Belongs(frame) == /\ frame.type = "init" => Requests(frame)
                  /\ frame.type = "resp" => Answers(frame)
Ready == advancing[Responder] # nil =>
    /\ rekey.on /\ resp.frame.kp = rekey.kp
    /\ advancing[Responder] = Append(cur[Responder].key, resp.frame.ct)
Opened == advancing[Initiator] # nil => advancing[Initiator] = cur[Responder].key
Queued == \A i \in 1 .. Len(inbox) : Answers(inbox[i])
RespAnswers == resp.valid => Answers(resp.frame)
OneCall == rekey.on => rekey.frame.kp = rekey.kp

Exchange ==
    /\ \A frame \in net : Belongs(frame)
    /\ Queued /\ RespAnswers /\ Ready /\ Opened /\ OneCall

CalmInv == Undisturbed /\ Joined /\ Retained /\ Exchange

\* The steps that leave a session undisturbed.
CalmSend(t) == DrawSeq(t) \/ ReadEpoch(t) \/ Seal(t)
CalmDeliver(frame) ==
    \/ \E p \in Peers : ReceiveData(p, frame)
    \/ ReceiveResponse(frame) \/ ReplayResponse(frame) \/ RespondToRekey(frame)
CalmRekey == BeginRekey \/ SendInit \/ OpenResponse \/ CompleteRekey \/ AnswerRekey

(* There are no others.                                                    *)
LEMMA CalmNext ==
    ASSUME ~disturbed', Undisturbed, [Next]_vars
    PROVE  \/ \E t \in Threads : CalmSend(t)
           \/ \E frame \in net : CalmDeliver(frame)
           \/ \E p \in Peers : RetirePrev(p)
           \/ CalmRekey \/ UNCHANGED vars
  <1>1. ASSUME NEW t \in Threads
        PROVE  ~CloseSession(t) /\ ~Teardown(t)
    BY DEF CloseSession, SessionClose, Teardown, Undisturbed
  <1>2. ASSUME NEW frame \in net, NEW p \in Peers
        PROVE  ~ReceiveClose(p, frame)
    BY DEF ReceiveClose, SessionClose
  <1>3. ~AbandonRekey
    BY DEF AbandonRekey
  <1>4. \A t \in Threads : DrawSeq(t) \/ SealStep(t) => CalmSend(t)
    BY <1>1 DEF SealStep, CalmSend
  <1>5. \A frame \in net : Deliver(frame) => CalmDeliver(frame)
    BY <1>2 DEF Deliver, CalmDeliver
  <1>6. BeginRekey \/ InitiatorStep \/ AnswerRekey => CalmRekey
    BY <1>3 DEF InitiatorStep, CalmRekey
  <1> QED
    BY <1>4, <1>5, <1>6 DEF Next

(* The sessions stay open.                                                 *)
LEMMA UndisturbedStep ==
    ASSUME ~disturbed', Types, EpochInv, Undisturbed, [Next]_vars
    PROVE  Undisturbed'
  <1>1. ASSUME UNCHANGED <<cur, master, live>> PROVE \A p \in Peers : live'[p] /\ master'[p] = cur'[p].key
    BY <1>1 DEF Undisturbed
  <1>2. ASSUME NEW t \in Threads, CalmSend(t)
        PROVE  Undisturbed'
    <2>1. UNCHANGED <<cur, master, live>>
      BY <1>2 DEF CalmSend, DrawSeq, ReadEpoch, Seal, session
    <2>2. \A s \in Threads : pc'[s] # "teardown"
      BY <1>2 DEF CalmSend, DrawSeq, ReadEpoch, Seal, Undisturbed, Types, ThreadTypes
    <2> QED
      BY <1>1, <2>1, <2>2 DEF Undisturbed
  <1>3. ASSUME UNCHANGED <<cur, master, live, pc>> PROVE Undisturbed'
    BY <1>1, <1>3 DEF Undisturbed
  <1>4. CASE CompleteRekey \/ AnswerRekey
    <2>1. \E p \in Peers : AdvanceDatagramEpoch(p)
      BY <1>4, PeerFacts DEF CompleteRekey, AnswerRekey
    <2>2. UNCHANGED <<live, pc>>
      BY <1>4 DEF CompleteRekey, AnswerRekey, local
    <2>3. \A p \in Peers : live'[p] /\ master'[p] = cur'[p].key
      BY <2>1, <2>2, AdvanceTypes, SMT DEF Advances, Undisturbed
    <2> QED
      BY <2>2, <2>3 DEF Undisturbed
  <1>5. ASSUME NEW frame \in net, CalmDeliver(frame)
        PROVE  Undisturbed'
    BY <1>3, <1>5 DEF CalmDeliver, ReceiveData, ReceiveResponse, ReplayResponse, RespondToRekey,
                      session, local
  <1>6. ASSUME NEW p \in Peers, RetirePrev(p)
        PROVE  Undisturbed'
    BY <1>3, <1>6 DEF RetirePrev, local
  <1>7. CASE BeginRekey \/ SendInit \/ OpenResponse \/ UNCHANGED vars
    BY <1>3, <1>7 DEF BeginRekey, SendInit, OpenResponse, session, local, vars
  <1> QED
    BY <1>2, <1>4, <1>5, <1>6, <1>7, CalmNext DEF CalmRekey

(* A key sealed under an epoch that is over is not the initiator's.        *)
LEMMA LateForEven ==
    ASSUME Types, Even, NEW frame \in Frames, Late(frame)
    PROVE  frame.key # cur[Initiator].key
  BY EpochTypes, PeerFacts, SMT DEF Even, Late, Age

(* Steps that send and change nothing else of the exchange.                *)
LEMMA ExchangeKept ==
    ASSUME Exchange, UNCHANGED <<cur, inbox, resp, advancing>>,
           rekey'.on = rekey.on /\ rekey'.kp = rekey.kp /\ rekey'.frame = rekey.frame,
           \A frame \in net' : frame \in net \/ Belongs(frame)
    PROVE  Exchange'
  <1>1. \A frame \in net' : Belongs(frame)'
    BY DEF Exchange, Belongs, Requests, Answers
  <1>2. Queued' /\ RespAnswers'
    BY DEF Exchange, Queued, RespAnswers, Answers
  <1>3. Ready' /\ Opened' /\ OneCall'
    BY DEF Exchange, Ready, Opened, OneCall
  <1> QED
    BY <1>1, <1>2, <1>3 DEF Exchange

(* A new Rekey call: nothing was sealed under the epoch it names.          *)
LEMMA BeginExchange ==
    ASSUME Types, Exchange, BeginRekey
    PROVE  Exchange'
  <1>1. /\ ~rekey.on /\ UNCHANGED <<cur, resp, advancing, net>>
        /\ inbox' = inbox \/ (inbox # << >> /\ inbox' = Tail(inbox))
        /\ rekey' = [on |-> TRUE, kp |-> kem + 1, attempts |-> 0, frame |-> InitFrame]
    BY DEF BeginRekey, InitFrame
  <1>2. \A frame \in net' : Belongs(frame)'
    BY <1>1 DEF Exchange, Belongs, Requests, Answers
  <1>3. Queued'
    <2>1. \A i \in 1 .. Len(inbox) : inbox[i].key # cur[Initiator].key
      BY <1>1 DEF Exchange, Queued, Answers
    <2>2. \A i \in 1 .. Len(inbox') : \E j \in 1 .. Len(inbox) : inbox'[i] = inbox[j]
      <3>1. CASE inbox' = inbox
        BY <3>1
      <3>2. CASE inbox # << >> /\ inbox' = Tail(inbox)
        <4>1. \A i \in 1 .. Len(inbox') : i + 1 \in 1 .. Len(inbox) /\ inbox'[i] = inbox[i + 1]
          BY <3>2, SMT DEF Types, ControlTypes
        <4> QED
          BY <4>1
      <3> QED
        BY <1>1, <3>1, <3>2
    <2> QED
      BY <1>1, <2>1, <2>2 DEF Queued, Answers
  <1>4. RespAnswers' /\ Ready' /\ Opened'
    BY <1>1 DEF Exchange, RespAnswers, Answers, Ready, Opened
  <1>5. OneCall'
    BY <1>1, InitBuilt DEF OneCall
  <1> QED
    BY <1>2, <1>3, <1>4, <1>5 DEF Exchange

(* A response joins the inbox.                                             *)
LEMMA ResponseExchange ==
    ASSUME Types, Exchange, NEW frame \in net, ReceiveResponse(frame)
    PROVE  Exchange'
  <1>1. UNCHANGED <<cur, resp, advancing, net, rekey>> /\ frame.type = "resp" /\ inbox' = Append(inbox, frame)
    BY DEF ReceiveResponse, session
  <1>2. Answers(frame) /\ frame \in Frames
    BY <1>1 DEF Exchange, Belongs, Types, ThreadTypes
  <1>3. ASSUME NEW i \in 1 .. Len(inbox')
        PROVE  Answers(inbox'[i])
    <2>1. inbox'[i] = frame \/ (i \in 1 .. Len(inbox) /\ inbox'[i] = inbox[i])
      BY <1>1, <1>2, <1>3, SMT DEF Types, ControlTypes
    <2> QED
      BY <1>2, <2>1 DEF Exchange, Queued
  <1>4. Queued'
    BY <1>1, <1>3 DEF Queued, Answers
  <1>5. (\A f \in net' : Belongs(f)') /\ RespAnswers'
    <2>1. \A f \in net' : Belongs(f)'
      BY <1>1 DEF Exchange, Belongs, Requests, Answers
    <2>2. RespAnswers'
      BY <1>1 DEF Exchange, RespAnswers, Answers
    <2> QED
      BY <2>1, <2>2
  <1>6. Ready' /\ Opened' /\ OneCall'
    BY <1>1 DEF Exchange, Ready, Opened, OneCall
  <1> QED
    BY <1>4, <1>5, <1>6 DEF Exchange

(* A response that opens holds the secret the responder advanced with.     *)
LEMMA OpenExchange ==
    ASSUME Types, EpochInv, Undisturbed, Exchange, OpenResponse
    PROVE  Exchange'
  <1> DEFINE frame == Head(inbox)
  <1>1. /\ UNCHANGED <<cur, resp, net, rekey>> /\ rekey.on /\ inbox # << >> /\ inbox' = Tail(inbox)
        /\ \/ /\ ResponseOpens(frame)
              /\ advancing' = [advancing EXCEPT ![Initiator] =
                                   Append(master[Initiator], Decapsulate(rekey.kp, frame))]
           \/ UNCHANGED advancing
    BY DEF OpenResponse, deriveNextDatagramSecret, session
  <1>2. inbox \in Seq(Frames) /\ frame = inbox[1] /\ 1 \in 1 .. Len(inbox)
    BY <1>1, SMT DEF Types, ControlTypes
  <1>3. Opened'
    <2>1. CASE UNCHANGED advancing
      BY <1>1, <2>1 DEF Exchange, Opened
    <2>2. CASE /\ ResponseOpens(frame)
               /\ advancing' = [advancing EXCEPT ![Initiator] =
                                    Append(master[Initiator], Decapsulate(rekey.kp, frame))]
      <3>1. frame.key = cur[Initiator].key
        BY <1>1, <2>2, OpensAhead
      <3>2. frame.kp = rekey.kp /\ cur[Responder].key = Append(cur[Initiator].key, frame.ct)
        BY <1>2, <3>1 DEF Exchange, Queued, Answers
      <3>3. Decapsulate(rekey.kp, frame) = frame.ct /\ master[Initiator] = cur[Initiator].key
        BY <3>2, PeerFacts DEF Decapsulate, Undisturbed
      <3>4. Append(master[Initiator], Decapsulate(rekey.kp, frame)) = cur[Responder].key
        BY <3>2, <3>3
      <3>5. advancing'[Initiator] = cur[Responder].key
        BY <2>2, <3>4, PeerFacts DEF Types, SessionTypes
      <3> QED
        BY <1>1, <3>5 DEF Opened
    <2> QED
      BY <1>1, <2>1, <2>2
  <1>4. Queued'
    <2>1. \A i \in 1 .. Len(inbox') : i + 1 \in 1 .. Len(inbox) /\ inbox'[i] = inbox[i + 1]
      BY <1>1, <1>2, SMT
    <2> QED
      BY <1>1, <2>1, SMT DEF Exchange, Queued, Answers
  <1>5. (\A f \in net' : Belongs(f)') /\ RespAnswers' /\ OneCall'
    <2>1. \A f \in net' : Belongs(f)'
      BY <1>1 DEF Exchange, Belongs, Requests, Answers
    <2>2. RespAnswers' /\ OneCall'
      BY <1>1 DEF Exchange, RespAnswers, Answers, OneCall
    <2> QED
      BY <2>1, <2>2
  <1>6. Ready'
    <2>1. advancing'[Responder] = advancing[Responder]
      BY <1>1, PeerFacts DEF Types, SessionTypes
    <2> QED
      BY <1>1, <2>1 DEF Exchange, Ready
  <1> QED
    BY <1>3, <1>4, <1>5, <1>6 DEF Exchange

(* The responder answers the call under way.                               *)
LEMMA RespondExchange ==
    ASSUME Types, EpochInv, Undisturbed, Joined, Exchange, NEW frame \in net, RespondToRekey(frame)
    PROVE  Exchange'
  <1> DEFINE p == Responder
  <1>1. cur[p].key # nil /\ master[p] = cur[p].key
    BY PeerFacts DEF EpochInv, Held, Undisturbed
  <1>2. /\ frame.type = "init" /\ Answerable(frame) /\ UNCHANGED <<cur, net, rekey, inbox>>
        /\ advancing' = [advancing EXCEPT ![p] = Append(master[p], kem + 1)]
        /\ resp' = [valid |-> FALSE, from |-> frame.epoch, frame |-> AnswerTo(frame)]
    BY <1>1 DEF RespondToRekey, deriveNextDatagramSecret, AnswerTo
  <1>3. Even /\ frame.key = cur[p].key
    BY <1>2, AnswersEven
  <1>4. cur[p].key = cur[Initiator].key
    BY <1>3, EpochTypes DEF Joined
  <1>5. rekey.on /\ frame.kp = rekey.kp
    BY <1>2, <1>3, <1>4 DEF Exchange, Belongs, Requests
  <1>6. ~resp'.valid /\ resp'.frame.kp = frame.kp /\ resp'.frame.ct = kem + 1
    BY <1>2, AnswerBuilt DEF Types, ThreadTypes
  <1>7. /\ advancing'[p] = Append(cur[p].key, kem + 1)
        /\ advancing'[Initiator] = advancing[Initiator]
    BY <1>1, <1>2, PeerFacts DEF Types, SessionTypes
  <1>8. Ready' /\ Opened' /\ RespAnswers' /\ OneCall'
    BY <1>2, <1>5, <1>6, <1>7 DEF Exchange, Ready, Opened, RespAnswers, OneCall
  <1>9. (\A f \in net' : Belongs(f)') /\ Queued'
    <2>1. \A f \in net' : Belongs(f)'
      BY <1>2 DEF Exchange, Belongs, Requests, Answers
    <2>2. Queued'
      BY <1>2 DEF Exchange, Queued, Answers
    <2> QED
      BY <2>1, <2>2
  <1> QED
    BY <1>8, <1>9 DEF Exchange

(* It advances: only its own response was sealed under the epoch it left.  *)
LEMMA AnswerExchange ==
    ASSUME Types, EpochInv, Joined, Exchange, AnswerRekey
    PROVE  Exchange' /\ Joined'
  <1> DEFINE p == Initiator
             q == Responder
  <1>1. /\ AdvanceDatagramEpoch(q) /\ resp' = [resp EXCEPT !.valid = TRUE] /\ net' = net \cup {resp.frame}
        /\ UNCHANGED <<inbox, rekey>>
    BY DEF AnswerRekey
  <1>2. Even /\ Ahead'
    BY AnswerEpoch
  <1>3. /\ Advances(q) /\ cur'[p] = cur[p] /\ advancing'[q] = nil /\ advancing'[p] = advancing[p]
        /\ cur'[q].key = advancing[q] /\ advancing[q] # nil
    BY <1>1, AdvanceTypes, PeerFacts DEF Advances
  <1>4. cur[q].key = cur[p].key
    BY <1>2, EpochTypes DEF Joined
  <1>5. rekey.on /\ resp.frame.kp = rekey.kp /\ cur'[q].key = Append(cur[p].key, resp.frame.ct)
    BY <1>3, <1>4 DEF Exchange, Ready
  <1>6. /\ resp'.frame = resp.frame /\ resp.frame \in Frames /\ resp.frame.type = "resp"
    BY <1>1 DEF Types, ControlTypes
  <1>7. /\ rekey'.on /\ resp'.frame.kp = rekey'.kp
        /\ cur'[q].key = Append(cur'[p].key, resp'.frame.ct) /\ resp'.frame.ct \in Nat
    <2>1. rekey' = rekey /\ cur'[p].key = cur[p].key /\ resp.frame.ct \in Nat
      BY <1>1, <1>3, <1>6 DEF Frames
    <2> QED
      BY <1>5, <1>6, <2>1
  <1>8. ASSUME NEW f \in Frames, Late(f)
        PROVE  f.key # cur'[p].key
    BY <1>2, <1>3, <1>8, LateForEven
  <1>9. ASSUME NEW f \in net'
        PROVE  Belongs(f)'
    <2>1. CASE f \in net
      <3>1. f \in Frames /\ Belongs(f) /\ Placed(f)
        BY <2>1 DEF Types, ThreadTypes, Exchange, EpochInv
      <3>2. f.type = "init" => Requests(f)'
        BY <1>1, <1>3, <3>1 DEF Belongs, Requests
      <3>3. f.type = "resp" => Answers(f)'
        BY <1>8, <3>1 DEF Placed, Answers
      <3> QED
        BY <3>2, <3>3 DEF Belongs
    <2>2. CASE f = resp.frame
      <3>1. f.type = "resp" /\ f.kp = rekey'.kp /\ rekey'.on /\ cur'[q].key = Append(cur'[p].key, f.ct)
        BY <1>6, <1>7, <2>2
      <3> QED
        BY <3>1 DEF Belongs, Answers
    <2> QED
      BY <1>1, <2>1, <2>2
  <1>10. Queued'
    BY <1>1, <1>8, SMT DEF EpochInv, Waiting, Queued, Answers, Types, ControlTypes
  <1>11. RespAnswers' /\ Ready' /\ OneCall'
    <2>1. RespAnswers'
      BY <1>7 DEF RespAnswers, Answers
    <2>2. Ready'
      BY <1>3 DEF Ready
    <2>3. OneCall'
      BY <1>1 DEF Exchange, OneCall
    <2> QED
      BY <2>1, <2>2, <2>3
  <1>12. Opened'
    <2>1. advancing[p] = nil
      BY <1>2, EpochTypes DEF EpochInv, Turns
    <2> QED
      BY <1>3, <2>1 DEF Opened
  <1>13. Joined'
    <2>1. Follows(cur'[q].key, cur'[p].key)
      BY <1>7 DEF Follows
    <2> QED
      BY <1>2, <2>1 DEF Joined, Follows
  <1> QED
    BY <1>9, <1>10, <1>11, <1>12, <1>13 DEF Exchange

(* The initiator follows: nothing is sealed under the new epoch yet.       *)
LEMMA CompleteExchange ==
    ASSUME Types, EpochInv, Exchange, CompleteRekey
    PROVE  Exchange' /\ Joined'
  <1> DEFINE p == Initiator
             q == Responder
  <1>1. AdvanceDatagramEpoch(p) /\ rekey' = NoRekey /\ UNCHANGED <<net, inbox, resp>>
    BY DEF CompleteRekey
  <1>2. Ahead /\ Even' /\ advancing[q] = nil
    BY CompleteEpoch, EpochTypes DEF EpochInv, Turns
  <1>3. /\ Advances(p) /\ cur'[q] = cur[q] /\ advancing'[p] = nil /\ advancing'[q] = nil
        /\ cur'[p].key = cur[q].key
    BY <1>1, <1>2, AdvanceTypes, PeerFacts DEF Advances, Exchange, Opened
  <1>4. ASSUME NEW f \in Frames, Len(f.key) < Age(q)
        PROVE  f.key # cur'[p].key
    BY <1>3, <1>4, EpochTypes, PeerFacts, SMT DEF Age
  <1>5. ASSUME NEW f \in net'
        PROVE  Belongs(f)'
    <2>1. f \in Frames /\ Placed(f) /\ Len(f.key) \in Nat /\ Age(p) \in Nat /\ Age(q) = Age(p) + 1
      BY <1>1, <1>2, EpochTypes, PeerFacts DEF Types, ThreadTypes, EpochInv, Ahead
    <2>2. f.type \in {"init", "resp"} => f.key # cur'[p].key
      BY <1>4, <2>1, SMT DEF Placed, Late
    <2> QED
      BY <2>2 DEF Belongs, Requests, Answers
  <1>6. Queued'
    BY <1>1, <1>4, SMT DEF EpochInv, Waiting, Late, Queued, Answers, Types, ControlTypes
  <1>7. RespAnswers'
    BY <1>1, <1>4 DEF EpochInv, RespLate, Late, RespAnswers, Answers, Types, ControlTypes
  <1>8. Ready' /\ Opened' /\ OneCall'
    BY <1>1, <1>3 DEF Ready, Opened, OneCall, NoRekey
  <1>9. Joined'
    BY <1>2, <1>3 DEF Joined
  <1> QED
    BY <1>5, <1>6, <1>7, <1>8, <1>9 DEF Exchange

(* What a peer retains is what it left.                                    *)
LEMMA RetainedAdvances ==
    ASSUME Types, EpochInv, Undisturbed, Joined, Exchange, Retained, CompleteRekey \/ AnswerRekey
    PROVE  Retained'
  <1>1. PICK p \in Peers : /\ AdvanceDatagramEpoch(p)
                           /\ p = Initiator => CompleteRekey
                           /\ p = Responder => AnswerRekey
    BY PeerFacts DEF CompleteRekey, AnswerRekey
  <1>2. Advances(p)
    BY <1>1, AdvanceTypes
  <1>3. Follows(cur'[p].key, cur[p].key)
    <2>1. CASE p = Responder
      <3>1. cur'[p].key = Append(cur[p].key, resp.frame.ct) /\ resp.frame.ct \in Nat
        BY <1>2, <2>1 DEF Advances, Exchange, Ready, Types, ControlTypes, Frames
      <3> QED
        BY <3>1 DEF Follows
    <2>2. CASE p = Initiator
      <3>1. Ahead
        BY <1>1, <2>2, CompleteEpoch
      <3>2. Follows(cur[Responder].key, cur[p].key)
        BY <2>2, <3>1, EpochTypes DEF Joined
      <3>3. cur'[p].key = cur[Responder].key
        BY <1>2, <2>2 DEF Advances, Exchange, Opened
      <3> QED
        BY <3>2, <3>3 DEF Follows
    <2> QED
      BY <2>1, <2>2, PeerFacts
  <1>4. ASSUME NEW s \in Peers, prev'[s].key # nil
        PROVE  Follows(cur'[s].key, prev'[s].key) /\ cur'[s].epoch = nextEpoch(prev'[s].epoch)
    BY <1>2, <1>3, <1>4 DEF Advances, Retained
  <1> QED
    BY <1>4 DEF Retained, Follows

(* Every step.                                                             *)
LEMMA CalmStep ==
    ASSUME ~disturbed', Types, EpochInv, CalmInv, [Next]_vars
    PROVE  CalmInv'
  <1>1. Undisturbed /\ Joined /\ Retained /\ Exchange
    BY DEF CalmInv
  <1>2. Undisturbed'
    BY <1>1, UndisturbedStep
  <1>3. CASE CompleteRekey \/ AnswerRekey
    BY <1>1, <1>2, <1>3, CompleteExchange, AnswerExchange, RetainedAdvances DEF CalmInv
  <1>4. ASSUME cur' = cur
        PROVE  Joined'
    BY <1>1, <1>4 DEF Joined, Even, Ahead, Age
  <1>5. ASSUME UNCHANGED <<cur, prev>>
        PROVE  Retained'
    BY <1>1, <1>5 DEF Retained
  <1>6. ASSUME UNCHANGED <<cur, inbox, resp, advancing, rekey>>, net' = net
        PROVE  Exchange'
    BY <1>1, <1>6, ExchangeKept
  <1>7. ASSUME Exchange', UNCHANGED <<cur, prev>>
        PROVE  CalmInv'
    BY <1>2, <1>4, <1>5, <1>7 DEF CalmInv
  <1>8. ASSUME UNCHANGED <<cur, prev, inbox, resp, advancing, rekey, net>>
        PROVE  CalmInv'
    BY <1>6, <1>7, <1>8
  <1>9. ASSUME NEW t \in Threads, DrawSeq(t) \/ ReadEpoch(t)
        PROVE  CalmInv'
    BY <1>8, <1>9 DEF DrawSeq, ReadEpoch, session, control
  <1>10. ASSUME NEW t \in Threads, Seal(t)
         PROVE  CalmInv'
    <2> DEFINE frame == [out[t] EXCEPT !.key = cur[t[1]].key]
    <2>1. /\ UNCHANGED <<cur, prev, inbox, resp, advancing, rekey>>
          /\ net' = net \/ net' = net \cup {frame}
      BY <1>10 DEF Seal, session, control
    <2>2. frame.type \in {"data", "close"}
      BY DEF Types, ThreadTypes, Frames
    <2> HIDE DEF frame
    <2>3. Exchange'
      BY <1>1, <2>1, <2>2, ExchangeKept DEF Belongs
    <2> QED
      BY <1>7, <2>1, <2>3
  <1>11. ASSUME NEW p \in Peers, RetirePrev(p)
         PROVE  CalmInv'
    <2>1. /\ UNCHANGED <<cur, inbox, resp, advancing, rekey, net>>
          /\ prev' = [prev EXCEPT ![p] = NoEpoch]
      BY <1>11 DEF RetirePrev, control
    <2>2. \A s \in Peers : prev'[s].key = nil \/ prev'[s] = prev[s]
      BY <2>1 DEF NoEpoch, Types, SessionTypes
    <2>3. Retained'
      BY <1>1, <2>1, <2>2 DEF Retained
    <2> QED
      BY <1>2, <1>4, <1>6, <2>1, <2>3 DEF CalmInv
  <1>12. ASSUME NEW frame \in net, NEW p \in Peers, ReceiveData(p, frame)
         PROVE  CalmInv'
    BY <1>8, <1>12 DEF ReceiveData, session, control
  <1>13. ASSUME NEW frame \in net, ReplayResponse(frame)
         PROVE  CalmInv'
    <2>1. /\ UNCHANGED <<cur, prev, inbox, resp, advancing, rekey>>
          /\ net' = net \cup {resp.frame} /\ resp.valid
      BY <1>13 DEF ReplayResponse, Cached, session, control
    <2>2. Belongs(resp.frame)
      BY <1>1, <2>1 DEF Exchange, RespAnswers, Belongs, Types, ControlTypes
    <2>3. Exchange'
      BY <1>1, <2>1, <2>2, ExchangeKept
    <2> QED
      BY <1>7, <2>1, <2>3
  <1>14. CASE SendInit
    <2>1. /\ UNCHANGED <<cur, prev, inbox, resp, advancing>> /\ rekey.on
          /\ net' = net \cup {rekey.frame} /\ rekey' = [rekey EXCEPT !.attempts = @ + 1]
      BY <1>14 DEF SendInit, session
    <2>2. rekey'.on = rekey.on /\ rekey'.kp = rekey.kp /\ rekey'.frame = rekey.frame
      BY <2>1 DEF Types, ControlTypes
    <2>3. Belongs(rekey.frame)
      BY <1>1, <2>1 DEF Exchange, OneCall, Belongs, Requests, Types, ControlTypes
    <2>4. Exchange'
      BY <1>1, <2>1, <2>2, <2>3, ExchangeKept
    <2> QED
      BY <1>7, <2>1, <2>4
  <1>15. ASSUME NEW frame \in net, ReceiveResponse(frame) \/ RespondToRekey(frame)
         PROVE  CalmInv'
    <2>1. UNCHANGED <<cur, prev>>
      BY <1>15 DEF ReceiveResponse, RespondToRekey, session
    <2> QED
      BY <1>1, <1>7, <1>15, <2>1, ResponseExchange, RespondExchange
  <1>16. CASE BeginRekey \/ OpenResponse
    <2>1. UNCHANGED <<cur, prev>>
      BY <1>16 DEF BeginRekey, OpenResponse, session
    <2> QED
      BY <1>1, <1>7, <1>16, <2>1, BeginExchange, OpenExchange
  <1>17. CASE UNCHANGED vars
    BY <1>8, <1>17 DEF vars
  <1>18. ASSUME NEW t \in Threads, CalmSend(t)
         PROVE  CalmInv'
    BY <1>9, <1>10, <1>18 DEF CalmSend
  <1>19. ASSUME NEW frame \in net, CalmDeliver(frame)
         PROVE  CalmInv'
    BY <1>12, <1>13, <1>15, <1>19 DEF CalmDeliver
  <1>20. CASE CalmRekey
    BY <1>3, <1>14, <1>16, <1>20 DEF CalmRekey
  <1> QED
    BY <1>1, <1>11, <1>17, <1>18, <1>19, <1>20, CalmNext

(* At first.                                                               *)
LEMMA InitCalm ==
    ASSUME Init
    PROVE  CalmInv
  <1>1. \A p \in Peers : /\ cur[p].key = <<0>> /\ cur[p].epoch = 0 /\ master[p] = <<0>> /\ live[p]
                         /\ advancing[p] = nil /\ prev[p].key = nil
    BY DEF Init, NoEpoch
  <1>2. net = {} /\ inbox = << >> /\ ~rekey.on /\ ~resp.valid
    BY DEF Init, NoRekey
  <1>3. \A t \in Threads : pc[t] # "teardown"
    BY DEF Init
  <1>4. Joined
    BY <1>1, PeerFacts DEF Joined, Even, Age
  <1>5. Exchange
    BY <1>1, <1>2, PeerFacts, SMT DEF Exchange, Queued, RespAnswers, Ready, Opened, OneCall
  <1> QED
    BY <1>1, <1>2, <1>3, <1>4, <1>5 DEF CalmInv, Undisturbed, Retained

(* The invariant of sessions that were not disturbed.                      *)
LEMMA CalmInvariant == Spec => [](DatagramInv /\ (~disturbed => CalmInv))
  <1>1. Init => (~disturbed => CalmInv)
    BY InitCalm
  <1>2. DatagramInv /\ (~disturbed => CalmInv) /\ [Next]_vars => (~disturbed => CalmInv)'
    BY CalmStep, DisturbedStays DEF DatagramInv
  <1> QED
    BY <1>1, <1>2, DatagramInvariant, PTL DEF Spec

(* A secret more can be taken off again.                                   *)
LEMMA Extended ==
    ASSUME NEW k \in Keys, NEW x \in Nat
    PROVE  /\ Len(Append(k, x)) = Len(k) + 1 /\ SubSeq(Append(k, x), 1, Len(k)) = k
           /\ SubSeq(Append(k, x), 1, Len(k) + 1) = Append(k, x) /\ Len(k) \in Nat
  BY SMT DEF Keys

(* Until a Rekey call is given up or a session closed, the keys both peers *)
(* hold for one epoch are equal, the retained ones included, for any epoch *)
(* counter with more than two values (handleRekeyInit's cached response).  *)
THEOREM EpochKeysStayEqual ==
    ASSUME EpochMod > 2
    PROVE  Spec => []EpochKeysAgree
  <1>1. ASSUME DatagramInv, CalmInv
        PROVE  SameKeys
    <2> DEFINE p == Initiator
               q == Responder
    <2>1. Types /\ EpochInv /\ Joined /\ Retained
      BY <1>1 DEF DatagramInv, CalmInv
    <2>2. \A s \in Peers : cur[s].epoch \in Epochs /\ prev[s].epoch \in Epochs /\ cur[s].key \in Keys /\ prev[s].key \in Keys
      BY <2>1 DEF Types, SessionTypes, EpochRecords
    <2>3. \A s \in Peers : prev[s].key # nil => /\ Follows(cur[s].key, prev[s].key)
                                                /\ cur[s].epoch = nextEpoch(prev[s].epoch)
      BY <2>1 DEF Retained
    <2>4. \A d, e \in Epochs : /\ nextEpoch(d) = nextEpoch(e) => d = e
                               /\ nextEpoch(e) # e /\ nextEpoch(nextEpoch(e)) # e
      BY EpochFacts, SMT DEF Epochs
    <2>5. \A j, k, l \in Keys : Follows(l, j) /\ Follows(l, k) => j = k
      <3>1. ASSUME NEW j \in Keys, NEW k \in Keys, NEW x \in Nat, NEW y \in Nat, Append(j, x) = Append(k, y)
            PROVE  j = k
        <4>1. Len(j) = Len(k)
          BY <3>1, Extended, SMT
        <4> QED
          BY <3>1, <4>1, Extended, SMT
      <3> QED
        BY <3>1 DEF Follows
    <2>6. p \in Peers /\ q \in Peers
      BY PeerFacts
    <2>7. ASSUME NEW a \in LiveEpochs(p), NEW b \in LiveEpochs(q), a.epoch = b.epoch
          PROVE  a.key = b.key
      <3>1. /\ a = cur[p] \/ (a = prev[p] /\ prev[p].key # nil)
            /\ b = cur[q] \/ (b = prev[q] /\ prev[q].key # nil)
        BY <2>7 DEF LiveEpochs
      <3>2. CASE Even /\ cur[q].key = cur[p].key
        <4>1. CASE a = cur[p] /\ b = cur[q]
          BY <3>2, <4>1
        <4>2. CASE a = cur[p] /\ b = prev[q] /\ prev[q].key # nil
          <5>1. cur[q].epoch = nextEpoch(prev[q].epoch) /\ prev[q].epoch \in Epochs
            BY <2>2, <2>3, <2>6, <4>2
          <5>2. nextEpoch(prev[q].epoch) # prev[q].epoch
            BY <2>4, <5>1
          <5> QED
            BY <2>7, <3>2, <4>2, <5>1, <5>2 DEF Even
        <4>3. CASE a = prev[p] /\ prev[p].key # nil /\ b = cur[q]
          <5>1. cur[p].epoch = nextEpoch(prev[p].epoch) /\ prev[p].epoch \in Epochs
            BY <2>2, <2>3, <2>6, <4>3
          <5>2. nextEpoch(prev[p].epoch) # prev[p].epoch
            BY <2>4, <5>1
          <5> QED
            BY <2>7, <3>2, <4>3, <5>1, <5>2 DEF Even
        <4>4. CASE a = prev[p] /\ prev[p].key # nil /\ b = prev[q] /\ prev[q].key # nil
          BY <2>2, <2>3, <2>5, <2>6, <3>2, <4>4
        <4> QED
          BY <3>1, <4>1, <4>2, <4>3, <4>4
      <3>3. CASE Ahead /\ Follows(cur[q].key, cur[p].key)
        <4>1. CASE a = cur[p] /\ b = cur[q]
          BY <2>2, <2>4, <2>6, <2>7, <3>3, <4>1 DEF Ahead
        <4>2. CASE a = cur[p] /\ b = prev[q] /\ prev[q].key # nil
          BY <2>2, <2>3, <2>5, <2>6, <3>3, <4>2
        <4>3. CASE a = prev[p] /\ prev[p].key # nil /\ b = cur[q]
          <5>1. cur[p].epoch = nextEpoch(prev[p].epoch) /\ prev[p].epoch \in Epochs
            BY <2>2, <2>3, <2>6, <4>3
          <5>2. nextEpoch(nextEpoch(prev[p].epoch)) # prev[p].epoch
            BY <2>4, <5>1
          <5>3. cur[q].epoch = nextEpoch(cur[p].epoch)
            BY <3>3 DEF Ahead
          <5> QED
            BY <2>7, <4>3, <5>1, <5>2, <5>3
        <4>4. CASE a = prev[p] /\ prev[p].key # nil /\ b = prev[q] /\ prev[q].key # nil
          <5>1. cur[q].epoch = nextEpoch(prev[q].epoch) /\ prev[q].epoch \in Epochs
            BY <2>2, <2>3, <2>6, <4>4
          <5>2. cur[p].epoch = nextEpoch(prev[p].epoch) /\ cur[p].epoch \in Epochs
            BY <2>2, <2>3, <2>6, <4>4
          <5>3. cur[q].epoch = nextEpoch(cur[p].epoch)
            BY <3>3 DEF Ahead
          <5>4. prev[q].epoch = cur[p].epoch
            BY <2>4, <5>1, <5>2, <5>3
          <5>5. nextEpoch(prev[q].epoch) # prev[q].epoch
            BY <2>4, <5>1
          <5> QED
            BY <2>7, <4>4, <5>1, <5>2, <5>4, <5>5
        <4> QED
          BY <3>1, <4>1, <4>2, <4>3, <4>4
      <3> QED
        BY <2>1, <3>2, <3>3 DEF Joined
    <2> QED
      BY <2>7 DEF SameKeys
  <1>2. DatagramInv /\ (~disturbed => CalmInv) => EpochKeysAgree
    BY <1>1 DEF EpochKeysAgree
  <1> QED
    BY <1>2, CalmInvariant, PTL

\* The keys of the peers' epochs.
Secrets == [p \in Peers |-> cur[p].key]

(* An advance changes one of them.                                         *)
LEMMA AdvanceSecrets ==
    ASSUME Types, NEW p \in Peers, AdvanceDatagramEpoch(p)
    PROVE  Secrets' = [Secrets EXCEPT ![p] = advancing[p]] /\ cur'[p].key = advancing[p]
  <1>1. Advances(p)
    BY AdvanceTypes
  <1> QED
    BY <1>1 DEF Advances, Secrets

(* The responder extends the chain, when the initiator holds all of it.    *)
LEMMA AnswerExtends ==
    ASSUME Types, EpochInv, CalmInv, AnswerRekey
    PROVE  Chain!Extend
  <1> DEFINE q == Responder
             x == resp.frame.ct
  <1>1. AdvanceDatagramEpoch(q) /\ Even /\ q \in Peers
    BY AnswerEpoch, PeerFacts DEF AnswerRekey
  <1>2. \A p \in Peers : Secrets[p] = cur[q].key
    BY <1>1, EpochTypes, PeerFacts DEF CalmInv, Joined, Secrets
  <1>3. x \in Nat /\ cur[q].key \in Keys
    BY <1>1, EpochTypes DEF Types, ControlTypes, Frames
  <1>4. cur'[q].key = Append(cur[q].key, x) /\ Secrets' = [Secrets EXCEPT ![q] = cur'[q].key]
    <2>1. advancing[q] # nil
      BY <1>1 DEF AdvanceDatagramEpoch
    <2>2. advancing[q] = Append(cur[q].key, x)
      BY <2>1 DEF CalmInv, Exchange, Ready
    <2> QED
      BY <1>1, <2>2, AdvanceSecrets
  <1>5. Len(cur'[q].key) = Len(cur[q].key) + 1 /\ SubSeq(cur'[q].key, 1, Len(cur[q].key)) = cur[q].key
    BY <1>3, <1>4, Extended
  <1> QED
    BY <1>1, <1>2, <1>4, <1>5 DEF Chain!Extend, Secrets

(* The initiator adopts the next secret of it.                             *)
LEMMA CompleteAdopts ==
    ASSUME Types, EpochInv, CalmInv, CompleteRekey
    PROVE  Chain!Adopt(Initiator)
  <1> DEFINE p == Initiator
             q == Responder
  <1>1. AdvanceDatagramEpoch(p) /\ Ahead /\ p \in Peers /\ q \in Peers /\ p # q
    BY CompleteEpoch, PeerFacts DEF CompleteRekey
  <1>2. PICK x \in Nat : cur[q].key = Append(cur[p].key, x)
    <2>1. Follows(cur[q].key, cur[p].key)
      BY <1>1, EpochTypes DEF CalmInv, Joined
    <2> QED
      BY <2>1 DEF Follows
  <1>3. Secrets' = [Secrets EXCEPT ![p] = cur[q].key] /\ cur'[q].key = cur[q].key
    <2>1. Advances(p) /\ advancing[p] = cur[q].key
      BY <1>1, AdvanceTypes DEF Advances, CalmInv, Exchange, Opened
    <2> QED
      BY <1>1, <2>1, AdvanceSecrets DEF Advances
  <1>4. Len(cur[p].key) < Len(cur[q].key) /\ SubSeq(cur[q].key, 1, Len(cur[p].key) + 1) = cur[q].key
    <2>1. cur[p].key \in Keys
      BY <1>1, EpochTypes
    <2>2. /\ Len(cur[q].key) = Len(cur[p].key) + 1 /\ Len(cur[p].key) \in Nat
          /\ SubSeq(cur[q].key, 1, Len(cur[p].key) + 1) = cur[q].key
      BY <1>2, <2>1, Extended
    <2> QED
      BY <2>2, SMT
  <1>5. Secrets[p] = cur[p].key
    BY <1>1 DEF Secrets
  <1> QED
    BY <1>3, <1>4, <1>5 DEF Chain!Adopt, Secrets

(* When no Rekey call is given up and no session closed, the epochs' keys  *)
(* follow one chain of KEM secrets: a response extends it only when both   *)
(* peers hold all of it, and completing a rekey adopts what it added       *)
(* (respondToDatagramRekey, completeDatagramRekey).                        *)
THEOREM DatagramKeysFollowOneChain == Spec /\ []~disturbed => ImplementsRatchet
  <1>1. Init => Chain!Init
    <2> SUFFICES ASSUME Init
                 PROVE  Chain!Init
      OBVIOUS
    <2>1. cur = [p \in Peers |-> [epoch |-> 0, key |-> <<0>>, startSeq |-> 0]]
      BY DEF Init
    <2>2. \A p \in Peers : cur[p].key = <<0>>
      BY <2>1
    <2> QED
      BY <2>2, PeerFacts DEF Chain!Init
  <1>2. DatagramInv /\ CalmInv /\ [Next]_vars => [Chain!Next]_(Chain!vars)
    <2> SUFFICES ASSUME Types, EpochInv, CalmInv, [Next]_vars
                 PROVE  [Chain!Next]_(Chain!vars)
      BY DEF DatagramInv
    <2>1. CASE cur' = cur
      BY <2>1 DEF Chain!vars
    <2>2. CASE AnswerRekey
      BY <2>2, AnswerExtends DEF Chain!Next
    <2>3. CASE CompleteRekey
      BY <2>3, CompleteAdopts, PeerFacts DEF Chain!Next
    <2> QED
      BY <2>1, <2>2, <2>3, EpochChanges
  <1> QED
    BY <1>1, <1>2, CalmInvariant, PTL DEF Spec, ImplementsRatchet, Chain!Spec
-----------------------------------------------------------------------------
(* What a key seals *)

INSTANCE FiniteSetTheorems

(* Numbers within a cap's width, none of them twice.                       *)
LEMMA WearCount ==
    ASSUME NEW U, NEW start \in Nat,
           \A u \in U : u.seq \in Nat /\ start <= u.seq /\ u.seq < start + MaxPackets,
           \A u, w \in U : u.seq = w.seq => u = w
    PROVE  Cardinality(U) <= MaxPackets
  <1> DEFINE slots == start .. (start + MaxPackets - 1)
             f == [u \in U |-> u.seq]
  <1>1. MaxPackets \in Nat
    BY DatagramAssumption
  <1>2. IsFiniteSet(slots) /\ Cardinality(slots) = MaxPackets
    <2>1. start \in Int /\ start + MaxPackets - 1 \in Int
      BY <1>1, SMT
    <2>2. CASE MaxPackets = 0
      <3>1. start > start + MaxPackets - 1
        BY <2>2, SMT
      <3> QED
        BY <2>1, <2>2, <3>1, FS_Interval
    <2>3. CASE MaxPackets # 0
      <3>1. ~(start > start + MaxPackets - 1)
        BY <1>1, <2>3, SMT
      <3>2. Cardinality(slots) = (start + MaxPackets - 1) - start + 1 /\ IsFiniteSet(slots)
        BY <2>1, <3>1, FS_Interval
      <3> QED
        BY <1>1, <3>2, SMT
    <2> QED
      BY <2>2, <2>3
  <1>3. \A u \in U : f[u] \in slots
    BY <1>1, SMT
  <1>4. \A u, w \in U : f[u] = f[w] => u = w
    OBVIOUS
  <1>5. f \in Injection(U, slots)
    BY <1>3, <1>4 DEF Injection, IsInjective
  <1> QED
    BY <1>2, <1>5, FS_Injection, SMT

(* Until then, the key of an epoch seals at most MaxPackets data and CLOSE *)
(* frames, however the rekeys interleave with Send (DatagramSealTo's cap). *)
THEOREM DatagramKeysWearOut == Spec => [](Fits => DataWearBounded)
  <1>1. ASSUME DatagramInv, Fits
        PROVE  DataWearBounded
    <2>1. Types /\ OneUse /\ WearInv
      BY <1>1 DEF DatagramInv
    <2>2. ASSUME NEW u \in sealed
          PROVE  Cardinality({w \in sealed : w.peer = u.peer /\ w.key = u.key /\ w.type # "control"}) <= MaxPackets
      <3> DEFINE U == {w \in sealed : w.peer = u.peer /\ w.key = u.key /\ w.type # "control"}
      <3>1. PICK start \in Nat : \A w \in sealed : Same(u, w) => start <= w.seq /\ w.seq < start + MaxPackets
        BY <1>1, <2>1 DEF WearInv, Worn
      <3>2. \A w \in U : w.seq \in Nat /\ start <= w.seq /\ w.seq < start + MaxPackets
        BY <2>1, <3>1 DEF Same, Types, HistoryTypes, Uses
      <3>3. \A v, w \in U : v.seq = w.seq => v = w
        BY <2>1 DEF OneUse
      <3> HIDE DEF U
      <3>4. Cardinality(U) <= MaxPackets
        BY <3>2, <3>3, WearCount
      <3> QED
        BY <3>4 DEF U
    <2> QED
      BY <2>2 DEF DataWearBounded
  <1> QED
    BY <1>1, DatagramInvariant, PTL
=============================================================================
