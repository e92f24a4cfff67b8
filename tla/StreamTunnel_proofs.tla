------------------------ MODULE StreamTunnel_proofs -------------------------
(***************************************************************************)
(* For any number of senders, sends, rekeys, write failures and any caps:  *)
(* no sequence number is used twice to seal, a key seals at most one       *)
(* record more than the cap, and, while nobody closes, the two sessions    *)
(* follow one chain of secrets.                                            *)
(***************************************************************************)
EXTENDS StreamRekey_proofs, FiniteSetTheorems

\* Zenon proves the leaves that do not name another prover.
USE Zenon

(* The invariant *)

(* The inductive invariant holds initially.                                *)
LEMMA InitIInv ==
    ASSUME Init
    PROVE  IInv
  <1>1. Types
    BY InitTypes
  <1>2. Roles
    BY PeerFacts, ThreadFacts, FrameFields DEF Init, Roles, Role
  <1>3. NonceInv
    BY DEF Init, NonceInv
  <1>4. /\ \A p \in Peers : ~Handles(p) /\ RekeysOn(p) = {}
        /\ \A t \in Threads : ~Carries(t)
    BY PeerFacts, FrameFields, SMT DEF Init, Handles, Carries, RekeysOn
  <1>5. TokenInv
    BY <1>4, PeerFacts DEF TokenInv
  <1>6. \A p \in Peers : /\ sess[p].sendCipher = <<0>> /\ sess[p].pendingSendCipher = nil
                         /\ sess[p].sendSeq = 0 /\ sess[p].sendEpochStartSeq = 0
    BY DEF Init, EstablishedSession
  <1>7. FreshInv
    <2>1. Last(<<0>>) < kem + 1
      BY SMT DEF Init, Last
    <2>2. \A p \in Peers : Unused(p, kem + 1)
      BY <1>6, <2>1 DEF Init, Unused
    <2>3. \A kp, ct \in Nat : ~Answering(kp, ct)
      BY <1>4, PeerFacts DEF Answering, Carries
    <2> QED
      BY <1>6, <2>2, <2>3, PeerFacts DEF FreshInv
  <1>8. WearInv
    BY <1>6, SMT DEF Init, WearInv, StaleUse, StaleDraw
  <1> QED
    BY <1>1, <1>2, <1>3, <1>5, <1>7, <1>8 DEF IInv, Safe

(* Every step of the tunnel keeps it.                                      *)
LEMMA StepIInv ==
    ASSUME IInv, [Next]_vars
    PROVE  IInv'
  <1>1. Types'
    BY TypesKept DEF IInv
  <1>2. ASSUME NEW t \in Senders, Send(t) \/ SenderStep(t)
        PROVE  Safe'
    BY <1>2, SendKeeps, DrawKeeps, SealKeeps, WriteKeeps, CheckKeeps, InitiateKeeps, ThreadFacts
       DEF SenderStep
  <1>3. ASSUME NEW p \in Peers, ReceiverStep(p)
        PROVE  Safe'
    BY <1>3, ReceiveKeeps, ReadKeeps, PromoteKeeps, HandleKeeps, ActivateKeeps,
       DrawKeeps, SealKeeps, WriteKeeps, PeerFacts DEF ReceiverStep
  <1>4. CASE (\E p \in Peers : Close(p) \/ CloserStep(p)) \/ UNCHANGED vars
    BY <1>1, <1>4, CloseKeeps DEF IInv
  <1> QED
    BY <1>1, <1>2, <1>3, <1>4 DEF Next, IInv

(* The inductive invariant of the established tunnel, with any closers and *)
(* any failing writes.                                                     *)
THEOREM StreamInvariant == Spec => []IInv
  <1>1. Init => IInv
    BY InitIInv
  <1>2. IInv /\ [Next]_vars => IInv'
    BY StepIInv
  <1> QED
    BY <1>1, <1>2, PTL DEF Spec

(* Every variable of the tunnel keeps its type.                            *)
THEOREM StreamTypeCorrect == Spec => []TypeOK
  <1>1. IInv => TypeOK
    BY DEF IInv, Types, SessionTypes, ConnTypes, ThreadTypes, Positions, TypeOK
  <1> QED
    BY <1>1, StreamInvariant, PTL

(* Session.Encrypt never seals two records with one key and one sequence   *)
(* number, however senders, rekeys, failing writes and Close interleave.   *)
THEOREM NoncesAreUnique == Spec => []NonceNeverReused
  <1>1. IInv => NonceNeverReused
    BY DEF IInv, Safe, NonceInv, NonceNeverReused
  <1> QED
    BY <1>1, StreamInvariant, PTL

(* The uses of a key fit in MaxPackets + 1 places.                         *)
LEMMA WearCount ==
    ASSUME NEW U, Worn(U),
           \A u \in U : u.seq \in Nat,
           \A u, w \in U : u.seq = w.seq => u = w
    PROVE  Cardinality(U) <= MaxPackets + 1
  <1> PICK start \in Nat : /\ \A u \in U : u.seq < start + MaxPackets
                           /\ \A u, w \in U : u.seq < start /\ w.seq < start => u = w
    BY DEF Worn
  <1> DEFINE slots == start .. start + MaxPackets
             f == [u \in U |-> IF u.seq < start THEN start ELSE u.seq + 1]
  <1>1. MaxPackets \in Nat
    BY StreamAssumption
  <1>2. IsFiniteSet(slots) /\ Cardinality(slots) = MaxPackets + 1
    <2>1. start \in Int /\ start + MaxPackets \in Int /\ ~(start > start + MaxPackets)
      BY <1>1, SMT
    <2>2. (start + MaxPackets) - start + 1 = MaxPackets + 1
      BY <1>1, SMT
    <2> QED
      BY <2>1, <2>2, FS_Interval
  <1>3. \A u \in U : f[u] \in slots
    BY <1>1, SMT
  <1>4. ASSUME NEW u \in U, NEW w \in U, f[u] = f[w]
        PROVE  u = w
    <2>1. u.seq \in Nat /\ w.seq \in Nat
      OBVIOUS
    <2>2. u.seq = w.seq \/ (u.seq < start /\ w.seq < start)
      BY <1>4, <2>1, SMT
    <2> QED
      BY <2>2
  <1>5. f \in Injection(U, slots)
    BY <1>3, <1>4 DEF Injection, IsInjective
  <1> QED
    BY <1>2, <1>5, FS_Injection, SMT

(* A key seals at most MaxPackets + 1 records: the cap of Encrypt, and the *)
(* one record that was numbered before the key was switched to.            *)
THEOREM KeysWearOut == Spec => []KeyWearBounded
  <1>1. ASSUME IInv
        PROVE  KeyWearBounded
    <2>1. ASSUME NEW u \in sealed
          PROVE  SealedUnder(u.peer, u.key) <= MaxPackets + 1
      <3> DEFINE U == UsesOf(sealed, u.peer, u.key)
      <3>1. Worn(U)
        BY <1>1 DEF IInv, Safe, WearInv
      <3>2. /\ \A w \in U : w.seq \in Nat
            /\ \A v, w \in U : v.seq = w.seq => v = w
        BY <1>1, SMT DEF IInv, Types, SessionTypes, UsesOf
      <3>3. Cardinality(U) <= MaxPackets + 1
        BY <3>1, <3>2, WearCount
      <3> QED
        BY <3>3 DEF SealedUnder, UsesOf
    <2> QED
      BY <2>1 DEF KeyWearBounded
  <1> QED
    BY <1>1, StreamInvariant, PTL
-----------------------------------------------------------------------------
(* The chain of secrets *)

\* The chain of the refinement mapping.
Secrets == IF sess[Responder].pendingRekeySecret # nil
           THEN sess[Responder].pendingRekeySecret ELSE sess[Responder].masterSecret
Adopted == [p \in Peers |-> sess[p].masterSecret]

\* p opens what is sealed with k.
Hears(p, k) == \/ sess[p].pendingRecvCipher = k
               \/ sess[p].pendingRecvCipher = nil /\ sess[p].recvCipher = k

\* While nobody closes, both sessions are alive and seal with their master secret, and each
\* opens what the other seals, or will seal with the end of the chain.
AliveAt(p) == /\ closePc[p] = "open" /\ sess[p].state # "Closed"
              /\ sess[p].masterSecret # nil /\ sess[p].sendCipher = sess[p].masterSecret
Alive == \A p \in Peers : AliveAt(p)
Listens == Hears(Initiator, sess[Initiator].masterSecret) /\ Hears(Responder, Secrets)

\* The responder's master secret is the end of the chain, or one secret behind it while a
\* response is pending.
Pending ==
    LET s == sess[Responder] IN
    /\ s.pendingSendCipher = s.pendingRekeySecret
    /\ s.rekeyInProgress <=> s.pendingRekeySecret # nil
    /\ s.pendingRekeySecret # nil =>
          s.pendingRekeySecret = Append(s.masterSecret, Last(s.pendingRekeySecret))

\* The initiator's is the end of the chain unless it waits for a response.
Follows == sess[Initiator].rekeyInProgress \/ sess[Initiator].masterSecret = Secrets

\* A message under way is about the key pair the initiator waits with: a request finds it at
\* the end of the chain, a response brings it the secret it lacks.
Told ==
    /\ \A kp \in Nat : Asking(kp) =>
          kp = sess[Initiator].pendingRekeyKeyPair /\ sess[Initiator].masterSecret = Secrets
    /\ \A kp, ct \in Nat : Answering(kp, ct) =>
          kp = sess[Initiator].pendingRekeyKeyPair /\ Secrets = Append(sess[Initiator].masterSecret, ct)

ChainInv == Alive /\ Listens /\ Pending /\ Follows /\ Told

\* The sessions keep what the chain is about.
SameChain ==
    /\ UNCHANGED closePc
    /\ \A p \in Peers : /\ sess'[p].state = sess[p].state
                        /\ sess'[p].masterSecret = sess[p].masterSecret
                        /\ sess'[p].sendCipher = sess[p].sendCipher
                        /\ sess'[p].pendingSendCipher = sess[p].pendingSendCipher
                        /\ sess'[p].pendingRekeySecret = sess[p].pendingRekeySecret
                        /\ sess'[p].pendingRekeyKeyPair = sess[p].pendingRekeyKeyPair
                        /\ sess'[p].rekeyInProgress = sess[p].rekeyInProgress
                        /\ \A k : Hears(p, k) => Hears(p, k)'

\* Neither the chain nor what the peers adopted of it changes.
Stutters == UNCHANGED <<Secrets, Adopted>>

(* What keeps the sessions and brings no message keeps the chain.          *)
LEMMA ChainQuiet ==
    ASSUME ChainInv, NoNews, SameChain
    PROVE  ChainInv' /\ Stutters
  <1>1. Secrets' = Secrets
    BY PeerFacts DEF Secrets, SameChain
  <1>2. Adopted' = Adopted
    BY DEF Adopted, SameChain
  <1>3. Alive'
    BY DEF ChainInv, Alive, AliveAt, SameChain
  <1>4. /\ sess'[Initiator].masterSecret = sess[Initiator].masterSecret
        /\ sess'[Initiator].rekeyInProgress = sess[Initiator].rekeyInProgress
        /\ sess'[Initiator].pendingRekeyKeyPair = sess[Initiator].pendingRekeyKeyPair
    BY PeerFacts DEF SameChain
  <1>5. Listens'
    <2>1. \A k : Hears(Initiator, k) => Hears(Initiator, k)'
      BY PeerFacts DEF SameChain
    <2>2. \A k : Hears(Responder, k) => Hears(Responder, k)'
      BY PeerFacts DEF SameChain
    <2>3. Hears(Initiator, sess[Initiator].masterSecret)'
      BY <1>4, <2>1 DEF ChainInv, Listens, Hears
    <2>4. Hears(Responder, Secrets)'
      BY <1>1, <2>2 DEF ChainInv, Listens, Hears
    <2> QED
      BY <2>3, <2>4 DEF Listens
  <1>6. Pending'
    <2>1. /\ sess'[Responder].masterSecret = sess[Responder].masterSecret
          /\ sess'[Responder].pendingSendCipher = sess[Responder].pendingSendCipher
          /\ sess'[Responder].pendingRekeySecret = sess[Responder].pendingRekeySecret
          /\ sess'[Responder].rekeyInProgress = sess[Responder].rekeyInProgress
      BY PeerFacts DEF SameChain
    <2> QED
      BY <2>1 DEF ChainInv, Pending
  <1>7. Follows'
    BY <1>1, <1>4 DEF ChainInv, Follows
  <1>8. Told'
    BY <1>1, <1>4 DEF ChainInv, Told, NoNews
  <1> QED
    BY <1>1, <1>2, <1>3, <1>5, <1>6, <1>7, <1>8 DEF ChainInv, Stutters

(* Steps that leave the sessions as they are, number a record or seal it.  *)
LEMMA SendingChain ==
    ASSUME Types, NEW t \in Threads,
           \/ Send(t) \/ CheckAndRekey(t) \/ Write(t) \/ DrawSeq(t) \/ Seal(t)
           \/ Receive(t) \/ ReadFails(t) \/ ReadMessage(t)
    PROVE  SameChain
  <1>1. /\ UNCHANGED closePc
        /\ \/ sess' = sess
           \/ sess' = [sess EXCEPT ![Owner(t)].sendSeq = @ + 1]
           \/ sess' = [sess EXCEPT ![Owner(t)].packetsSent = @ + 1]
    BY DEF Send, CheckAndRekey, Write, DrawSeq, Seal, Receive, ReadFails, ReadMessage, session
  <1>2. CASE sess' = sess
    BY <1>1, <1>2 DEF SameChain, Hears
  <1>3. CASE \/ sess' = [sess EXCEPT ![Owner(t)].sendSeq = @ + 1]
             \/ sess' = [sess EXCEPT ![Owner(t)].packetsSent = @ + 1]
    BY <1>1, <1>3, SMT DEF SameChain, Hears, Types, SessionTypes, Sessions
  <1> QED
    BY <1>1, <1>2, <1>3

(* Promoting the pending receive cipher loses no key.                      *)
LEMMA PromoteChain ==
    ASSUME Types, NEW p \in Peers, promotePendingRecvCipher(p)
    PROVE  SameChain
  <1>1. /\ UNCHANGED closePc
        /\ sess' = IF sess[p].pendingRecvCipher = nil THEN sess
                   ELSE [sess EXCEPT ![p].recvCipher = sess[p].pendingRecvCipher,
                                     ![p].pendingRecvCipher = nil]
    BY DEF promotePendingRecvCipher
  <1> QED
    BY <1>1 DEF SameChain, Hears, Types, SessionTypes, Sessions

(* A peer whose session changes may be the only one to check.              *)
LEMMA AliveKept ==
    ASSUME Alive, UNCHANGED closePc, NEW p \in Peers,
           \A q \in Peers : q # p => sess'[q] = sess[q],
           sess'[p].state # "Closed", sess'[p].masterSecret # nil,
           sess'[p].sendCipher = sess'[p].masterSecret
    PROVE  Alive'
  <1>1. ASSUME NEW q \in Peers
        PROVE  AliveAt(q)'
    <2>1. AliveAt(q) /\ (q = p \/ sess'[q] = sess[q])
      BY DEF Alive
    <2> QED
      BY <2>1 DEF AliveAt
  <1> QED
    BY <1>1 DEF Alive

(* Its master secret is all the abstract state sees of it.                 *)
LEMMA AdoptedKept ==
    ASSUME NEW p \in Peers, \A q \in Peers : q # p => sess'[q] = sess[q]
    PROVE  Adopted' = [Adopted EXCEPT ![p] = sess'[p].masterSecret]
  BY DEF Adopted

(* Starting a rekey tells the key pair, and nothing about the chain.       *)
LEMMA InitiateChain ==
    ASSUME IInv, ChainInv, NEW t \in Threads, InitiateRekey(t)
    PROVE  ChainInv' /\ Stutters
  <1>1. Types /\ closePc' = closePc
    BY DEF IInv, InitiateRekey
  <1>2. CASE UNCHANGED <<session, out>> /\ pc' = [pc EXCEPT ![t] = "idle"]
    <2>1. NoNews
      <3>1. pc[t] = "initiate" /\ UNCHANGED <<sess, kem, writeMu, wire, out, in, sealed, nonceReused>>
        BY <1>2 DEF InitiateRekey, session, history
      <3> QED
        BY <1>2, <3>1, MoveKeeps
    <2>2. SameChain
      BY <1>1, <1>2 DEF SameChain, Hears, session
    <2> QED
      BY <2>1, <2>2, ChainQuiet
  <1>3. CASE Starts(t)
    <2>1. Owner(t) = Initiator /\ ~sess[Initiator].rekeyInProgress
      BY <1>3, StartsAlone DEF Starts
    <2>2. /\ sess'[Responder] = sess[Responder]
          /\ sess'[Initiator] = [sess[Initiator] EXCEPT !.rekeyInProgress = TRUE,
                                    !.pendingRekeyKeyPair = kem + 1, !.state = "Rekeying"]
      BY <1>1, <1>3, <2>1, PeerFacts DEF Starts, Types, SessionTypes
    <2>3. /\ sess'[Initiator].state = "Rekeying" /\ sess'[Initiator].rekeyInProgress
          /\ sess'[Initiator].pendingRekeyKeyPair = kem + 1
          /\ sess'[Initiator].masterSecret = sess[Initiator].masterSecret
          /\ sess'[Initiator].sendCipher = sess[Initiator].sendCipher
          /\ sess'[Initiator].recvCipher = sess[Initiator].recvCipher
          /\ sess'[Initiator].pendingRecvCipher = sess[Initiator].pendingRecvCipher
      <3>1. sess[Initiator] \in Sessions
        BY <1>1, PeerFacts DEF Types, SessionTypes
      <3> QED
        BY <2>2, <3>1 DEF Sessions
    <2>4. Secrets' = Secrets /\ Adopted' = Adopted
      <3>1. \A p \in Peers : sess'[p].masterSecret = sess[p].masterSecret
        BY <2>2, <2>3, PeerFacts
      <3> QED
        BY <2>2, <3>1 DEF Secrets, Adopted
    <2>5. Alive'
      <3>1. /\ sess[Initiator].masterSecret # nil
            /\ sess[Initiator].sendCipher = sess[Initiator].masterSecret
        BY PeerFacts DEF ChainInv, Alive, AliveAt
      <3>2. \A q \in Peers : q # Initiator => sess'[q] = sess[q]
        BY <2>2, PeerFacts
      <3>3. sess'[Initiator].state # "Closed"
        BY <2>3
      <3> QED
        BY <1>1, <2>3, <3>1, <3>2, <3>3, PeerFacts, AliveKept DEF ChainInv
    <2>6. Listens' /\ Pending' /\ Follows'
      <3>1. Listens'
        BY <2>2, <2>3, <2>4 DEF ChainInv, Listens, Hears
      <3> QED
        BY <2>2, <2>3, <3>1 DEF ChainInv, Pending, Follows
    <2>7. Told'
      <3>1. \A kp, ct \in Nat : ~Answering(kp, ct)' /\ (Asking(kp)' => kp = kem + 1)
        BY <1>3, StartsAlone
      <3>2. sess[Initiator].masterSecret = Secrets
        BY <2>1 DEF ChainInv, Follows
      <3> QED
        BY <2>3, <2>4, <3>1, <3>2 DEF Told
    <2> QED
      BY <2>4, <2>5, <2>6, <2>7 DEF ChainInv, Stutters
  <1> QED
    BY <1>2, <1>3 DEF InitiateRekey, Starts, history

(* A sequence with one more element.                                       *)
LEMMA Extended ==
    ASSUME NEW k \in Keys, NEW c \in Nat
    PROVE  Len(Append(k, c)) = Len(k) + 1 /\ SubSeq(Append(k, c), 1, Len(k)) = k
  BY SMT DEF Keys

(* Adopting the next secret of a chain that is one ahead adopts all of it. *)
LEMMA WholeChain ==
    ASSUME NEW k \in Keys, NEW c \in Nat
    PROVE  Len(k) < Len(Append(k, c)) /\ SubSeq(Append(k, c), 1, Len(k) + 1) = Append(k, c)
  BY SMT DEF Keys

(* The response extends the chain, which both peers hold all of.           *)
LEMMA PrepareChain ==
    ASSUME IInv, ChainInv, HandleRekey(Responder), ~sess[Responder].rekeyInProgress,
           NEW newSecret, Prepares(newSecret)
    PROVE  ChainInv' /\ Chain!Extend
  <1> DEFINE i == Initiator
             r == Responder
  <1>1. Types /\ Handled(r) /\ closePc' = closePc /\ i # r /\ i \in Peers /\ r \in Peers
    BY HandlesOnly, PeerFacts DEF IInv, HandleRekey
  <1>2. kem + 1 \in Nat /\ sess[r].masterSecret \in Keys /\ in[r].kp \in Nat /\ sess[r] \in Sessions
    BY <1>1, PeerFacts, SMT DEF Types, SessionTypes, Sessions, ThreadTypes, Frames
  <1>3. /\ newSecret = Append(sess[r].masterSecret, kem + 1)
        /\ newSecret \in Keys /\ Last(newSecret) = kem + 1 /\ newSecret # nil
    BY <1>2, ExtendedKey DEF Prepares
  <1>4. sess'[r] = PendingResponse(sess[r], newSecret) /\ \A q \in Peers : q # r => sess'[q] = sess[q]
    BY <1>1 DEF Types, SessionTypes, Prepares
  <1>5. /\ sess'[r].state = "Rekeying" /\ sess'[r].rekeyInProgress
        /\ sess'[r].masterSecret = sess[r].masterSecret /\ sess'[r].sendCipher = sess[r].sendCipher
        /\ sess'[r].pendingRecvCipher = newSecret
        /\ sess'[r].pendingSendCipher = newSecret /\ sess'[r].pendingRekeySecret = newSecret
    BY <1>2, <1>4 DEF PendingResponse, Sessions
  <1>6. Secrets = sess[r].masterSecret
    BY DEF ChainInv, Pending, Secrets
  <1>7. in[r].kp = sess[i].pendingRekeyKeyPair /\ sess[i].masterSecret = Secrets
    <2>1. Asking(in[r].kp)
      BY <1>1 DEF Asking, Handled
    <2> QED
      BY <1>2, <2>1 DEF ChainInv, Told
  <1>8. Secrets' = newSecret /\ sess'[i] = sess[i]
    BY <1>1, <1>3, <1>4, <1>5 DEF Secrets
  <1>9. Alive'
    <2>1. sess[r].masterSecret # nil /\ sess[r].sendCipher = sess[r].masterSecret
      BY <1>1 DEF ChainInv, Alive, AliveAt
    <2>2. sess'[r].state # "Closed"
      BY <1>5
    <2> QED
      BY <1>1, <1>4, <1>5, <2>1, <2>2, AliveKept DEF ChainInv
  <1>10. Listens' /\ Pending'
    BY <1>3, <1>5, <1>8 DEF ChainInv, Listens, Pending, Hears
  <1>11. Follows'
    BY <1>1, <1>8 DEF Follows, Handled
  <1>12. Told'
    <2>1. out'[r].kind = "rekey" /\ out'[r].kp = in[r].kp /\ out'[r].ct = kem + 1
      <3>1. out'[r] = RekeyFrame(in[r].kp, kem + 1)
        BY <1>1, PeerFacts DEF Types, ThreadTypes, Prepares
      <3> QED
        BY <3>1, SMT DEF RekeyFrame
    <2>2. ~Handles(r)' /\ ~Handles(i)' /\ RekeysOn(i)' = {} /\ RekeysOn(r)' = {}
      <3>1. in'[r].kind # "rekey" /\ RekeysOn(i)' = {} /\ RekeysOn(r)' = {} /\ ~Carries(i)'
        BY <1>1, PeerFacts DEF Handled
      <3> QED
        BY <1>1, <3>1 DEF Handles, Carries
    <2>3. \A t \in InitiatorSenders : out'[t].kind # "rekey"
      <3>1. \A t \in InitiatorSenders : t \in Threads /\ t # r
        BY PeerFacts, ThreadFacts
      <3> QED
        BY <1>1, <3>1 DEF Handled, Carries
    <2>4. \A kp, ct \in Nat : ~Asking(kp)' /\ (Answering(kp, ct)' => kp = in[r].kp /\ ct = kem + 1)
      BY <2>1, <2>2, <2>3 DEF Asking, Answering
    <2> QED
      BY <1>3, <1>6, <1>7, <1>8, <2>4 DEF Told
  <1>13. Chain!Extend
    <2>1. Adopted' = Adopted /\ \A q \in Peers : Adopted[q] = Secrets
      <3>1. \A q \in Peers : sess'[q].masterSecret = sess[q].masterSecret /\ sess[q].masterSecret = Secrets
        BY <1>4, <1>5, <1>6, <1>7, PeerFacts
      <3> QED
        BY <3>1 DEF Adopted
    <2>2. Len(Secrets') = Len(Secrets) + 1 /\ SubSeq(Secrets', 1, Len(Secrets)) = Secrets
      <3>1. Secrets \in Keys /\ Secrets' = Append(Secrets, kem + 1)
        BY <1>2, <1>3, <1>6, <1>8
      <3> QED
        BY <1>2, <3>1, Extended
    <2> QED
      BY <2>1, <2>2 DEF Chain!Extend, Secrets, Adopted
  <1> QED
    BY <1>9, <1>10, <1>11, <1>12, <1>13 DEF ChainInv

(* The initiator adopts the chain when it processes the response.          *)
LEMMA ProcessChain ==
    ASSUME IInv, ChainInv, HandleRekey(Initiator), NEW c \in Nat, NEW newSecret, Processes(c, newSecret)
    PROVE  ChainInv' /\ Chain!Adopt(Initiator)
  <1> DEFINE i == Initiator
             r == Responder
  <1>1. Types /\ Handled(i) /\ closePc' = closePc /\ i # r /\ i \in Peers /\ r \in Peers
    BY HandlesOnly, PeerFacts DEF IInv, HandleRekey
  <1>2. /\ sess[i].masterSecret \in Keys /\ sess[i] \in Sessions
        /\ in[i].kp \in Nat /\ in[i].ct \in Nat
    BY <1>1, PeerFacts DEF Types, SessionTypes, Sessions, ThreadTypes, Frames
  <1>3. in[i].kp = sess[i].pendingRekeyKeyPair /\ Secrets = Append(sess[i].masterSecret, in[i].ct)
    <2>1. Answering(in[i].kp, in[i].ct)
      BY <1>1 DEF Answering, Handled
    <2> QED
      BY <1>2, <2>1 DEF ChainInv, Told
  <1>4. c = in[i].ct /\ newSecret = Secrets
    BY <1>3 DEF Processes, Decapsulate
  <1>5. newSecret \in Keys /\ newSecret # nil
    BY <1>2, <1>3, <1>4, ExtendedKey
  <1>6. sess'[i] = Processed(sess[i], newSecret) /\ \A q \in Peers : q # i => sess'[q] = sess[q]
    BY <1>1 DEF Types, SessionTypes, Processes
  <1>7. /\ sess'[i].state = "Established" /\ ~sess'[i].rekeyInProgress
        /\ sess'[i].masterSecret = newSecret /\ sess'[i].sendCipher = newSecret
        /\ sess'[i].pendingRecvCipher = newSecret
    BY <1>2, <1>5, <1>6, ProcessedFields, SMT
  <1>8. Secrets' = Secrets /\ sess'[r] = sess[r]
    BY <1>1, <1>6 DEF Secrets
  <1>9. Alive'
    <2>1. sess'[i].state # "Closed"
      BY <1>7
    <2> QED
      BY <1>1, <1>5, <1>6, <1>7, <2>1, AliveKept DEF ChainInv
  <1>10. Listens' /\ Pending' /\ Follows'
    BY <1>4, <1>7, <1>8 DEF ChainInv, Listens, Pending, Follows, Hears
  <1>11. Told'
    <2>1. \A v \in Threads : ~Carries(v)'
      BY <1>1 DEF Handled, Processes, Carries, Handles
    <2>2. ~Handles(r)' /\ ~Handles(i)' /\ RekeysOn(i)' = {} /\ RekeysOn(r)' = {} /\ out'[r].kind # "rekey"
      <3>1. RekeysOn(i)' = {} /\ RekeysOn(r)' = {} /\ ~Carries(i)' /\ ~Carries(r)'
        BY <1>1, <2>1, PeerFacts DEF Handled
      <3> QED
        BY <1>1, <3>1 DEF Carries
    <2>3. \A t \in InitiatorSenders : out'[t].kind # "rekey"
      <3>1. \A t \in InitiatorSenders : t \in Threads
        BY ThreadFacts
      <3> QED
        BY <2>1, <3>1 DEF Carries
    <2> QED
      BY <2>2, <2>3 DEF Told, Asking, Answering
  <1>12. Chain!Adopt(i)
    <2>1. Adopted' = [Adopted EXCEPT ![i] = Secrets]
      BY <1>1, <1>4, <1>6, <1>7, AdoptedKept
    <2>2. /\ Len(Adopted[i]) < Len(Secrets)
          /\ SubSeq(Secrets, 1, Len(Adopted[i]) + 1) = Secrets
      <3>1. Adopted[i] = sess[i].masterSecret
        BY PeerFacts DEF Adopted
      <3> QED
        BY <1>2, <1>3, <3>1, WholeChain
    <2> QED
      BY <1>8, <2>1, <2>2 DEF Chain!Adopt, Secrets, Adopted
  <1> QED
    BY <1>9, <1>10, <1>11, <1>12 DEF ChainInv

(* The responder adopts the chain when it switches its send cipher.        *)
LEMMA ActivateChain ==
    ASSUME IInv, ChainInv, NEW p \in Peers, ActivateRekeySend(p)
    PROVE  ChainInv' /\ (Chain!Adopt(Responder) \/ Stutters)
  <1> DEFINE i == Initiator
             r == Responder
             k == sess[r].pendingRekeySecret
  <1>1. Types /\ NoNews /\ p = r /\ closePc' = closePc /\ i # r /\ i \in Peers /\ r \in Peers
    <2>1. Role(p) /\ pc[p] = "activate"
      BY PeerFacts DEF IInv, Safe, Roles, ActivateRekeySend
    <2>2. p = r
      BY <2>1, PeerFacts DEF Role
    <2> QED
      BY <2>2, ActivateKeeps, PeerFacts DEF IInv, ActivateRekeySend
  <1>2. /\ sess'[r] = finalizeRekeyStateLocked(SwitchSend(sess[r]))
        /\ \A q \in Peers : q # r => sess'[q] = sess[q]
    BY <1>1 DEF Types, SessionTypes, ActivateRekeySend
  <1>3. sess[r] \in Sessions /\ sess[r].masterSecret \in Keys /\ k \in Keys
    BY <1>1 DEF Types, SessionTypes, Sessions
  <1>4. /\ sess[r].pendingSendCipher = k /\ sess[r].sendCipher = sess[r].masterSecret
        /\ sess[r].masterSecret # nil
    BY <1>1 DEF ChainInv, Pending, Alive, AliveAt
  <1>5. Secrets = (IF k # nil THEN k ELSE sess[r].masterSecret) /\ Secrets # nil
    BY <1>4 DEF Secrets
  <1>6. /\ sess'[r].state = "Established" /\ ~sess'[r].rekeyInProgress
        /\ sess'[r].pendingRekeySecret = nil /\ sess'[r].pendingSendCipher = nil
        /\ sess'[r].masterSecret = Secrets /\ sess'[r].sendCipher = Secrets
        /\ sess'[r].recvCipher = sess[r].recvCipher
        /\ sess'[r].pendingRecvCipher = sess[r].pendingRecvCipher
    BY <1>2, <1>3, <1>4, <1>5, SMT DEF finalizeRekeyStateLocked, SwitchSend, Sessions
  <1>7. Secrets' = Secrets /\ sess'[i] = sess[i]
    BY <1>1, <1>2, <1>6 DEF Secrets
  <1>8. Alive'
    <2>1. sess'[r].state # "Closed"
      BY <1>6
    <2> QED
      BY <1>1, <1>2, <1>5, <1>6, <2>1, AliveKept DEF ChainInv
  <1>9. Listens' /\ Pending' /\ Follows'
    BY <1>6, <1>7 DEF ChainInv, Listens, Pending, Follows, Hears
  <1>10. Told'
    BY <1>1, <1>7 DEF ChainInv, Told, NoNews
  <1>11. ChainInv'
    BY <1>8, <1>9, <1>10 DEF ChainInv
  <1>12. Adopted' = [Adopted EXCEPT ![r] = Secrets] /\ Adopted[r] = sess[r].masterSecret
    BY <1>1, <1>2, <1>6, AdoptedKept DEF Adopted
  <1>13. CASE k = nil
    <2>1. sess[r].masterSecret = Secrets
      BY <1>5, <1>13
    <2>2. Adopted' = Adopted
      BY <1>12, <2>1 DEF Adopted
    <2> QED
      BY <1>7, <1>11, <2>2 DEF Stutters
  <1>14. CASE k # nil
    <2>1. Secrets = Append(sess[r].masterSecret, Last(k)) /\ Last(k) \in Nat
      <3>1. Secrets = Append(sess[r].masterSecret, Last(k))
        BY <1>5, <1>14 DEF ChainInv, Pending
      <3>2. Last(k) \in Nat
        BY <1>3, <1>14, SMT DEF Last, Keys, nil
      <3> QED
        BY <3>1, <3>2
    <2>2. /\ Len(Adopted[r]) < Len(Secrets)
          /\ SubSeq(Secrets, 1, Len(Adopted[r]) + 1) = Secrets
      BY <1>3, <1>12, <2>1, WholeChain
    <2>3. Chain!Adopt(r)
      BY <1>7, <1>12, <2>2 DEF Chain!Adopt, Secrets, Adopted
    <2> QED
      BY <1>11, <2>3
  <1> QED
    BY <1>13, <1>14

(* While nobody closes, every step keeps the chain and is one of Ratchet,  *)
(* or none.                                                                *)
LEMMA ChainStep ==
    ASSUME Closers = {}, IInv, ChainInv, [Next]_vars
    PROVE  ChainInv' /\ (Chain!Next \/ Stutters)
  <1>1. Types
    BY DEF IInv
  <1>2. ASSUME NEW t \in Threads, SameChain, NoNews
        PROVE  ChainInv' /\ (Chain!Next \/ Stutters)
    BY <1>2, ChainQuiet
  <1>3. ASSUME NEW t \in Senders, Send(t) \/ SenderStep(t)
        PROVE  ChainInv' /\ (Chain!Next \/ Stutters)
    <2>1. t \in Threads
      BY ThreadFacts
    <2>2. CASE InitiateRekey(t)
      BY <2>1, <2>2, InitiateChain
    <2>3. CASE Send(t) \/ CheckAndRekey(t) \/ Write(t) \/ DrawSeq(t) \/ Seal(t)
      <3>1. SameChain
        BY <1>1, <2>1, <2>3, SendingChain
      <3>2. NoNews
        BY <2>1, <2>3, SendKeeps, CheckKeeps, WriteKeeps, DrawKeeps, SealKeeps
      <3> QED
        BY <3>1, <3>2, ChainQuiet
    <2> QED
      BY <1>3, <2>2, <2>3 DEF SenderStep
  <1>4. ASSUME NEW p \in Peers, ReceiverStep(p)
        PROVE  ChainInv' /\ (Chain!Next \/ Stutters)
    <2>1. p \in Threads
      BY PeerFacts
    <2>2. CASE \/ Receive(p) \/ ReadFails(p) \/ ReadMessage(p)
               \/ Write(p) \/ DrawSeq(p) \/ Seal(p)
      <3>1. SameChain
        BY <1>1, <2>1, <2>2, SendingChain
      <3>2. NoNews
        BY <2>1, <2>2, ReceiveKeeps, ReadKeeps, WriteKeeps, DrawKeeps, SealKeeps
      <3> QED
        BY <3>1, <3>2, ChainQuiet
    <2>3. CASE promotePendingRecvCipher(p)
      BY <1>1, <2>3, PromoteChain, PromoteKeeps, ChainQuiet
    <2>4. CASE HandleRekey(p)
      <3>1. \/ UNCHANGED <<session, out>> /\ pc' = [pc EXCEPT ![p] = "idle"]
            \/ p = Responder /\ ~sess[p].rekeyInProgress /\ \E newSecret : Prepares(newSecret)
            \/ p = Initiator /\ \E c, newSecret : Processes(c, newSecret)
        BY <2>4
           DEF HandleRekey, PrepareRekeyResponse, ProcessRekeyResponse, Prepares, Processes, Processed
      <3>2. CASE UNCHANGED <<session, out>> /\ pc' = [pc EXCEPT ![p] = "idle"]
        <4>1. NoNews
          BY <2>4, <3>2, IgnoreKeeps
        <4>2. SameChain
          BY <2>4, <3>2 DEF SameChain, Hears, HandleRekey, session
        <4> QED
          BY <4>1, <4>2, ChainQuiet
      <3>3. CASE p = Responder /\ ~sess[p].rekeyInProgress /\ \E newSecret : Prepares(newSecret)
        BY <2>4, <3>3, PrepareChain DEF Chain!Next
      <3>4. CASE p = Initiator /\ \E c, newSecret : Processes(c, newSecret)
        <4>1. PICK c, newSecret : Processes(c, newSecret)
          BY <3>4
        <4>2. c \in Nat
          BY <1>1, <3>4, <4>1, ResponseSecret
        <4> QED
          BY <2>4, <3>4, <4>1, <4>2, ProcessChain, PeerFacts DEF Chain!Next
      <3> QED
        BY <3>1, <3>2, <3>3, <3>4
    <2>5. CASE ActivateRekeySend(p)
      BY <2>5, ActivateChain, PeerFacts DEF Chain!Next
    <2> QED
      BY <1>4, <2>2, <2>3, <2>4, <2>5 DEF ReceiverStep
  <1>5. ~\E p \in Peers : Close(p) \/ CloserStep(p)
    <2>1. \A p \in Peers : closePc[p] = "open" /\ p \notin Closers
      BY DEF ChainInv, Alive, AliveAt
    <2> QED
      BY <2>1 DEF Close, CloserStep, NotifyPeer, CloseSession, CloseConn
  <1>6. CASE UNCHANGED vars
    <2>1. NoNews
      BY <1>6, CloseKeeps
    <2>2. SameChain
      BY <1>6 DEF vars, SameChain, Hears
    <2> QED
      BY <2>1, <2>2, ChainQuiet
  <1> QED
    BY <1>3, <1>4, <1>5, <1>6 DEF Next

(* The chain starts with the secret of the handshake.                      *)
LEMMA InitChain ==
    ASSUME Init
    PROVE  ChainInv /\ Chain!Init
  <1>1. \A p \in Peers : sess[p] = EstablishedSession
    BY DEF Init
  <1>2. <<0>> # nil /\ Secrets = <<0>>
    BY <1>1, PeerFacts, SMT DEF EstablishedSession, Secrets, nil
  <1>3. \A kp, ct \in Nat : ~Asking(kp) /\ ~Answering(kp, ct)
    BY PeerFacts, ThreadFacts, FrameFields, SMT DEF Init, Asking, Answering, Handles, RekeysOn
  <1>4. Alive
    BY <1>1, <1>2 DEF Init, Alive, AliveAt, EstablishedSession
  <1>5. Listens /\ Pending /\ Follows /\ Told
    <2>1. \A p \in Peers : /\ sess[p].masterSecret = <<0>> /\ sess[p].recvCipher = <<0>>
                           /\ sess[p].pendingRecvCipher = nil /\ sess[p].pendingSendCipher = nil
                           /\ sess[p].pendingRekeySecret = nil /\ ~sess[p].rekeyInProgress
      BY <1>1, SMT DEF EstablishedSession
    <2> QED
      BY <1>2, <1>3, <2>1, PeerFacts DEF Listens, Pending, Follows, Told, Hears
  <1>6. Adopted = [p \in Peers |-> <<0>>]
    BY <1>1, SMT DEF Adopted, EstablishedSession
  <1>7. Chain!Init
    BY <1>2, <1>6 DEF Chain!Init, Secrets, Adopted
  <1> QED
    BY <1>4, <1>5, <1>7 DEF ChainInv

(* While nobody closes, the rekeys of the two sessions implement Ratchet,  *)
(* whichever writes fail: InitiateRekey, PrepareRekeyResponse,             *)
(* ProcessRekeyResponse and ActivateRekeySend extend one chain of secrets  *)
(* only when both peers hold all of it, and never skip a secret.           *)
THEOREM RekeysFollowOneChain ==
    ASSUME Closers = {}
    PROVE  Spec => ImplementsRatchet
  <1>1. Init => IInv /\ ChainInv /\ Chain!Init
    BY InitIInv, InitChain
  <1>2. IInv /\ ChainInv /\ [Next]_vars => IInv' /\ ChainInv' /\ [Chain!Next]_(Chain!vars)
    <2>1. Stutters => UNCHANGED Chain!vars
      BY DEF Stutters, Secrets, Adopted, Chain!vars
    <2> QED
      BY <2>1, StepIInv, ChainStep
  <1> QED
    BY <1>1, <1>2, PTL DEF Spec, ImplementsRatchet, Chain!Spec

(* While nobody closes, whenever no rekey is under way the peers hold the  *)
(* same master secret and each opens what the other seals.                 *)
THEOREM QuietPeersAgree ==
    ASSUME Closers = {}
    PROVE  Spec => []QuietAgreement
  <1>1. Init => IInv /\ ChainInv
    BY InitIInv, InitChain
  <1>2. IInv /\ ChainInv /\ [Next]_vars => IInv' /\ ChainInv'
    BY StepIInv, ChainStep
  <1>3. ASSUME ChainInv, RekeyQuiet, NEW p \in Peers
        PROVE  /\ sess[p].masterSecret = sess[Peer(p)].masterSecret
               /\ sess[p].sendCipher = sess[p].masterSecret
               /\ sess[p].sendCipher \in {sess[Peer(p)].recvCipher, sess[Peer(p)].pendingRecvCipher}
    <2>1. ~sess[Initiator].rekeyInProgress /\ ~sess[Responder].rekeyInProgress
      BY <1>3, PeerFacts DEF RekeyQuiet
    <2>2. sess[Initiator].masterSecret = Secrets /\ sess[Responder].masterSecret = Secrets
      BY <1>3, <2>1 DEF ChainInv, Follows, Pending, Secrets
    <2>3. /\ sess[p].sendCipher = sess[p].masterSecret /\ Listens
      BY <1>3 DEF ChainInv, Alive, AliveAt
    <2> QED
      BY <2>2, <2>3, PeerFacts DEF Listens, Hears
  <1>4. ChainInv => QuietAgreement
    BY <1>3 DEF QuietAgreement
  <1> QED
    BY <1>1, <1>2, <1>4, PTL DEF Spec
=============================================================================
