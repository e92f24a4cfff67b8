--------------------------- MODULE DatagramRekey ----------------------------
(***************************************************************************)
(* An established datagram session: epochs, sealing and opening            *)
(* (pkg/tunnel/dgram_session.go, dgram_conn.go), the RekeyInit /           *)
(* RekeyResponse exchange with its retransmissions, timeout and cached     *)
(* response (dgram_rekey.go) and CLOSE, over a network that loses,         *)
(* duplicates, delays and reorders datagrams.                              *)
(*                                                                         *)
(* A master secret is the sequence of KEM secrets ratcheted into it and    *)
(* stands for the keys of its epoch; nil is the empty sequence.  A control *)
(* message stands for all of its fragments: losing one loses the message.  *)
(***************************************************************************)
EXTENDS Integers, Sequences, FiniteSets

CONSTANTS Initiator, Responder,
          Speakers,       \* the peers whose application calls Send
          MaxSends,       \* bound: Send calls per peer
          MaxRekeys,      \* bound: Rekey calls
          MaxSeq,         \* bound: no session already closed answers a rekey past it
          RetryCeiling,   \* retransmissions before a Rekey call gives up
          TimeOuts,       \* whether the response can come after the last retransmission's timer
          Closers,        \* the peers whose application calls Close
          InboxCap,       \* capacity of rekeyInbox, 4 in the code
          MaxPackets,     \* constants.MaxPacketsBeforeRekey
          EpochMod,       \* 256: the epoch is one byte
          Word            \* 2^64, or any bound no counter reaches

Peers == {Initiator, Responder}
Kinds == {"send", "close"}     \* the goroutines that seal frames
Threads == Peers \X Kinds

ASSUME DatagramAssumption ==
    /\ Initiator # Responder
    /\ MaxSends \in Nat /\ MaxRekeys \in Nat /\ MaxSeq \in Nat /\ RetryCeiling \in Nat
    /\ TimeOuts \in BOOLEAN /\ Closers \subseteq Peers /\ Speakers \subseteq Peers
    /\ InboxCap \in Nat /\ MaxPackets \in Nat
    /\ EpochMod \in Nat \ {0, 1} /\ Word \in Nat \ {0}

VARIABLES
    cur, prev,     \* Session.dgramEpochs
    master,        \* Session.masterSecret
    live,          \* the session is in its endpoint's registry
    sendSeq,
    net,           \* every datagram sent so far; delivery does not remove it
    pc, out,       \* the sealing goroutines and the frame each one builds
    sends,
    rekey,         \* the initiator's Rekey call
    inbox,         \* rekeyInbox
    resp,          \* the responder's cached response
    advancing,     \* the secret each peer is about to hand to AdvanceDatagramEpoch
    kem, rekeys,
    accepted,      \* sequence numbers each replay window accepted
    sealed,        \* history: every (peer, key, sequence) used to seal
    nonceReused,   \* history: some such triple was used twice
    disturbed      \* history: a Rekey call was given up, or a session closed

session == <<cur, prev, master, live, sendSeq>>
local   == <<pc, out, sends>>
control == <<rekey, inbox, resp, advancing, kem, rekeys>>
history == <<sealed, nonceReused>>
vars == <<cur, prev, master, live, sendSeq, net, pc, out, sends, rekey, inbox, resp,
          advancing, kem, rekeys, accepted, sealed, nonceReused, disturbed>>

nil == << >>
Peer(p) == IF p = Initiator THEN Responder ELSE Initiator

Frame(type, to) ==
    [type |-> type, to |-> to, epoch |-> 0, key |-> nil, seq |-> 0, kp |-> 0, ct |-> 0]

NoRekey == [on |-> FALSE, kp |-> 0, attempts |-> 0, frame |-> Frame("init", Responder)]
NoEpoch == [epoch |-> 0, key |-> nil, startSeq |-> 0]
-----------------------------------------------------------------------------
\* uint64 subtraction wraps.
Sub64(a, b) == (a - b + Word) % Word

\* datagramRecvCipherLocked: the current epoch's key or the retained previous one's.
datagramRecvCipherLocked(p, epoch) ==
    IF cur[p].epoch = epoch THEN cur[p].key
    ELSE IF prev[p].key # nil /\ prev[p].epoch = epoch THEN prev[p].key ELSE nil

Opens(p, frame) == frame.key # nil /\ datagramRecvCipherLocked(p, frame.epoch) = frame.key

\* Both sessions as InitializeDatagramKeys leaves them after the handshake.
Init ==
    /\ cur = [p \in Peers |-> [epoch |-> 0, key |-> <<0>>, startSeq |-> 0]]
    /\ prev = [p \in Peers |-> NoEpoch]
    /\ master = [p \in Peers |-> <<0>>]
    /\ live = [p \in Peers |-> TRUE]
    /\ sendSeq = [p \in Peers |-> 0]
    /\ net = {}
    /\ pc = [t \in Threads |-> "idle"]
    /\ out = [t \in Threads |-> Frame("data", t[1])]
    /\ sends = [t \in Threads |-> 0]
    /\ rekey = NoRekey
    /\ inbox = << >>
    /\ resp = [valid |-> FALSE, from |-> 0, frame |-> Frame("resp", Initiator)]
    /\ advancing = [p \in Peers |-> nil]
    /\ kem = 0 /\ rekeys = 0
    /\ accepted = [p \in Peers |-> {}]
    /\ sealed = {} /\ nonceReused = FALSE /\ disturbed = FALSE

\* Sealing with the current epoch's key, as the history variables see it.
Use(p, seq, type) ==
    LET use == [peer |-> p, key |-> cur[p].key, seq |-> seq, type |-> type] IN
    /\ sealed' = sealed \cup {use}
    /\ nonceReused' = (nonceReused \/ \E u \in sealed : u.peer = p /\ u.key = use.key /\ u.seq = seq)
-----------------------------------------------------------------------------
(* DatagramConn.Send and the sealing half of DatagramConn.Close. *)

\* Faulty variant of nextDatagramSeq: the counter is read and not advanced.
nextDatagramSeqPeek(p) == UNCHANGED sendSeq

\* nextDatagramSeq: the atomic counter that data, CLOSE and control frames share.
nextDatagramSeq(p) == sendSeq' = [sendSeq EXCEPT ![p] = @ + 1]

\* A frame of either kind draws its sequence number first.
DrawSeq(t) ==
    LET p == t[1] IN
    /\ pc[t] = "idle"
    /\ t[2] = "send" => p \in Speakers /\ sends[t] < MaxSends
    /\ t[2] = "close" => p \in Closers /\ sends[t] = 0
    /\ sends' = [sends EXCEPT ![t] = @ + 1]
    /\ out' = [out EXCEPT ![t] = [Frame(IF t[2] = "send" THEN "data" ELSE "close", Peer(p))
                                  EXCEPT !.seq = sendSeq[p]]]
    /\ nextDatagramSeq(p)
    /\ pc' = [pc EXCEPT ![t] = "header"]
    /\ UNCHANGED <<cur, prev, master, live, net, control, accepted, history, disturbed>>

\* datagramSendEpoch, for the header.
ReadEpoch(t) ==
    /\ pc[t] = "header"
    /\ out' = [out EXCEPT ![t].epoch = cur[t[1]].epoch]
    /\ pc' = [pc EXCEPT ![t] = "seal"]
    /\ UNCHANGED <<session, net, sends, control, accepted, history, disturbed>>

\* Faulty variant of AtCap: the subtraction guarded against wrapping.
AtCapGuarded(p, seq) == seq >= cur[p].startSeq /\ seq - cur[p].startSeq >= MaxPackets

\* The per-epoch cap.  A frame whose sequence number was drawn before the epoch
\* began is over it as well: the difference wraps.
AtCap(p, seq) == Sub64(seq, cur[p].startSeq) >= MaxPackets

\* DatagramSealTo (Send) or DatagramSeal (Close), which read the epoch again, and the
\* write.  Close goes on to tear the session down whatever its seal returned.
Seal(t) ==
    LET p == t[1] IN
    /\ pc[t] = "seal"
    /\ \/ /\ ~AtCap(p, out[t].seq)
          /\ net' = net \cup {[out[t] EXCEPT !.key = cur[p].key]}
          /\ Use(p, out[t].seq, out[t].type)
       \/ /\ AtCap(p, out[t].seq)
          /\ UNCHANGED <<net, sealed, nonceReused>>
    /\ out' = [out EXCEPT ![t] = Frame("data", p)]
    /\ pc' = [pc EXCEPT ![t] = IF t[2] = "send" THEN "idle" ELSE "closing"]
    /\ UNCHANGED <<session, sends, control, accepted, disturbed>>

\* Session.Close zeroizes and drops the master secret and leaves the epochs in place.
\* A derivation that has read the slice races with the zeroization, and may come out
\* as a secret nobody else has.
SessionClose(p) ==
    /\ disturbed' = TRUE
    /\ master' = [master EXCEPT ![p] = nil]
    /\ \/ UNCHANGED <<advancing, kem>>
       \/ /\ advancing[p] # nil
          /\ advancing' = [advancing EXCEPT ![p][Len(advancing[p])] = kem + 1]
          /\ kem' = kem + 1

CloseSession(t) ==
    /\ pc[t] = "closing"
    /\ SessionClose(t[1])
    /\ pc' = [pc EXCEPT ![t] = "teardown"]
    /\ UNCHANGED <<cur, prev, live, sendSeq, net, out, sends, rekey, inbox, resp, rekeys,
                   accepted, history>>

Teardown(t) ==
    /\ pc[t] = "teardown"
    /\ live' = [live EXCEPT ![t[1]] = FALSE]
    /\ pc' = [pc EXCEPT ![t] = "closed"]
    /\ UNCHANGED <<cur, prev, master, sendSeq, net, out, sends, control, accepted, history, disturbed>>
-----------------------------------------------------------------------------
(* routeDatagram: data and CLOSE frames. *)

ReceiveData(p, frame) ==
    /\ frame.type = "data" /\ frame.to = p /\ live[p]
    /\ frame.seq \notin accepted[p] /\ Opens(p, frame)
    /\ accepted' = [accepted EXCEPT ![p] = @ \cup {frame.seq}]
    /\ UNCHANGED <<session, net, local, control, history, disturbed>>

ReceiveClose(p, frame) ==
    /\ frame.type = "close" /\ frame.to = p /\ live[p]
    /\ frame.seq \notin accepted[p] /\ Opens(p, frame)
    /\ accepted' = [accepted EXCEPT ![p] = @ \cup {frame.seq}]
    /\ SessionClose(p)
    /\ live' = [live EXCEPT ![p] = FALSE]
    /\ UNCHANGED <<cur, prev, sendSeq, net, local, rekey, inbox, resp, rekeys, history>>

\* DatagramPrevEpochRetainSeconds have passed.
RetirePrev(p) ==
    /\ prev[p].key # nil
    /\ prev' = [prev EXCEPT ![p] = NoEpoch]
    /\ UNCHANGED <<cur, master, live, sendSeq, net, local, control, accepted, history, disturbed>>
-----------------------------------------------------------------------------
(* The initiator: DatagramConn.Rekey. *)

\* beginRekey, a fresh key pair, the sealed RekeyInit, and the drain of one stale
\* response.  Send starts it when datagramRekeyDue, an application at any time.
BeginRekey ==
    LET p == Initiator
        init == [Frame("init", Responder) EXCEPT !.epoch = cur[p].epoch, !.key = cur[p].key,
                                                 !.seq = sendSeq[p], !.kp = kem + 1]
    IN
    /\ ~rekey.on /\ rekeys < MaxRekeys
    /\ rekeys' = rekeys + 1
    /\ kem' = kem + 1
    /\ nextDatagramSeq(p)
    /\ Use(p, sendSeq[p], "control")
    /\ rekey' = [on |-> TRUE, kp |-> kem + 1, attempts |-> 0, frame |-> init]
    /\ inbox' = IF inbox = << >> THEN inbox ELSE Tail(inbox)
    /\ UNCHANGED <<cur, prev, master, live, net, local, resp, advancing, accepted, disturbed>>

\* The timer fires: the init is (re)transmitted verbatim.
SendInit ==
    /\ rekey.on /\ advancing[Initiator] = nil
    /\ rekey.attempts <= RetryCeiling
    /\ net' = net \cup {rekey.frame}
    /\ rekey' = [rekey EXCEPT !.attempts = @ + 1]
    /\ UNCHANGED <<session, local, inbox, resp, advancing, kem, rekeys, accepted, history, disturbed>>

\* Faulty variant of GivesUp: Rekey retransmits for ever.
GivesUpOnClose == ~live[Initiator]

\* The attempts are used up when the timer fires, or the session's closed channel is.
GivesUp == (TimeOuts /\ rekey.attempts > RetryCeiling) \/ ~live[Initiator]

\* Rekey returns without a response.
AbandonRekey ==
    /\ rekey.on /\ advancing[Initiator] = nil
    /\ GivesUp
    /\ rekey' = NoRekey
    /\ disturbed' = TRUE
    /\ UNCHANGED <<session, net, local, inbox, resp, advancing, kem, rekeys, accepted, history>>

\* rekeyInbox is a buffered channel and the send to it does not block.
InboxHasRoom == Len(inbox) < InboxCap

\* handleRekey hands a response to the waiting initiator; a full inbox drops it.
ReceiveResponse(frame) ==
    /\ frame.type = "resp" /\ live[Initiator]
    /\ InboxHasRoom
    /\ inbox' = Append(inbox, frame)
    /\ UNCHANGED <<session, net, local, rekey, resp, advancing, kem, rekeys, accepted, history, disturbed>>

\* ML-KEM rejects implicitly: a ciphertext for another key pair decapsulates, without
\* an error, to a secret nobody else has.
Decapsulate(kp, frame) == IF frame.kp = kp THEN frame.ct ELSE kem + 1

\* Faulty variant of deriveNextDatagramSecret: the old secret is not mixed in.
deriveNextFreshOnly(p, fresh) == <<fresh>>

\* deriveNextDatagramSecret.
deriveNextDatagramSecret(p, fresh) == Append(master[p], fresh)

\* openRekeyControl, under the epoch the init was sealed under.
ResponseOpens(frame) == frame.epoch = rekey.frame.epoch /\ Opens(Initiator, frame)

\* completeDatagramRekey up to its AdvanceDatagramEpoch.  A response that does not
\* open under the epoch of the init, or a closed session, leaves Rekey waiting.
OpenResponse ==
    LET p == Initiator
        frame == Head(inbox)
    IN
    /\ rekey.on /\ advancing[p] = nil /\ inbox # << >>
    /\ inbox' = Tail(inbox)
    /\ \/ /\ ResponseOpens(frame) /\ master[p] # nil
          /\ advancing' = [advancing EXCEPT ![p] =
                 deriveNextDatagramSecret(p, Decapsulate(rekey.kp, frame))]
          /\ kem' = IF frame.kp = rekey.kp THEN kem ELSE kem + 1
       \/ /\ ~ResponseOpens(frame) \/ master[p] = nil
          /\ UNCHANGED <<advancing, kem>>
    /\ UNCHANGED <<session, net, local, rekey, resp, rekeys, accepted, history, disturbed>>

\* Faulty variant of nextEpoch: the byte saturates.
nextEpochSaturating(epoch) == IF epoch + 1 < EpochMod THEN epoch + 1 ELSE epoch

nextEpoch(epoch) == (epoch + 1) % EpochMod

\* AdvanceDatagramEpoch does not look at the session's state: it also runs on a
\* session that was closed meanwhile.
AdvanceDatagramEpoch(p) ==
    /\ advancing[p] # nil
    /\ prev' = [prev EXCEPT ![p] = cur[p]]
    /\ cur' = [cur EXCEPT ![p] = [epoch |-> nextEpoch(cur[p].epoch),
                                  key |-> advancing[p], startSeq |-> sendSeq[p]]]
    /\ master' = [master EXCEPT ![p] = advancing[p]]
    /\ advancing' = [advancing EXCEPT ![p] = nil]

CompleteRekey ==
    /\ AdvanceDatagramEpoch(Initiator)
    /\ rekey' = NoRekey
    /\ UNCHANGED <<live, sendSeq, net, local, inbox, resp, kem, rekeys, accepted, history, disturbed>>
-----------------------------------------------------------------------------
(* The responder: handleRekeyInit, serialised by rekeyRespMu. *)

\* Faulty variant of Cached: the epoch the response answers is not compared.
CachedAny(frame) == resp.valid

\* The init's epoch is the one the cached response answers.
Cached(frame) == resp.valid /\ resp.from = frame.epoch

\* Faulty variant of Answerable: a new key pair is answered from the retained epoch.
AnswerableAgain(frame) == resp.frame.kp # frame.kp /\ Opens(Responder, frame)

\* Otherwise it is answered only if it names the current epoch, and opens.
Answerable(frame) ==
    ~Cached(frame) /\ frame.epoch = cur[Responder].epoch /\ Opens(Responder, frame)

\* A retransmitted init is answered with the cached frames.
ReplayResponse(frame) ==
    /\ frame.type = "init" /\ live[Responder] /\ advancing[Responder] = nil
    /\ Cached(frame)
    /\ net' = net \cup {resp.frame}
    /\ UNCHANGED <<session, local, control, accepted, history, disturbed>>

\* respondToDatagramRekey up to its AdvanceDatagramEpoch: the response is sealed under
\* the epoch the init names, which must be the current one.
RespondToRekey(frame) ==
    LET p == Responder
        answer == [Frame("resp", Initiator) EXCEPT !.epoch = cur[p].epoch, !.key = cur[p].key,
                       !.seq = sendSeq[p], !.kp = frame.kp, !.ct = kem + 1]
    IN
    /\ frame.type = "init" /\ live[p] /\ advancing[p] = nil
    /\ Answerable(frame)
    /\ nextDatagramSeq(p)
    /\ Use(p, sendSeq[p], "control")
    /\ \/ /\ master[p] # nil
          /\ kem' = kem + 1
          /\ advancing' = [advancing EXCEPT ![p] = deriveNextDatagramSecret(p, kem + 1)]
          /\ resp' = [valid |-> FALSE, from |-> frame.epoch, frame |-> answer]
       \/ /\ master[p] = nil /\ sendSeq[p] < MaxSeq
          /\ UNCHANGED <<advancing, resp, kem>>
    /\ UNCHANGED <<cur, prev, master, live, net, local, rekey, inbox, rekeys, accepted, disturbed>>

\* The epoch advances; the response is cached and sent.
AnswerRekey ==
    /\ AdvanceDatagramEpoch(Responder)
    /\ resp' = [resp EXCEPT !.valid = TRUE]
    /\ net' = net \cup {resp.frame}
    /\ UNCHANGED <<live, sendSeq, local, rekey, inbox, kem, rekeys, accepted, history, disturbed>>
-----------------------------------------------------------------------------
SealStep(t) == ReadEpoch(t) \/ Seal(t) \/ CloseSession(t) \/ Teardown(t)
Deliver(frame) ==
    \/ \E p \in Peers : ReceiveData(p, frame) \/ ReceiveClose(p, frame)
    \/ ReceiveResponse(frame) \/ ReplayResponse(frame) \/ RespondToRekey(frame)
InitiatorStep == SendInit \/ AbandonRekey \/ OpenResponse \/ CompleteRekey

Next ==
    \/ \E t \in Threads : DrawSeq(t) \/ SealStep(t)
    \/ \E p \in Peers : RetirePrev(p)
    \/ \E frame \in net : Deliver(frame)
    \/ BeginRekey \/ InitiatorStep \/ AnswerRekey

Spec == Init /\ [][Next]_vars

\* Goroutines that can run do run: the timer, the select loop and the receive loop.
LocalFairness ==
    /\ WF_vars(SendInit) /\ WF_vars(AbandonRekey) /\ WF_vars(OpenResponse)
    /\ WF_vars(CompleteRekey) /\ WF_vars(AnswerRekey)

\* The network delivers some copy of what is retransmitted again and again.
DeliveryFairness ==
    /\ SF_vars(\E f \in net : f = rekey.frame /\ (ReplayResponse(f) \/ RespondToRekey(f)))
    /\ SF_vars(\E f \in net : f.kp = rekey.kp /\ ReceiveResponse(f))

LocalFairSpec == Spec /\ LocalFairness
FairSpec == Spec /\ LocalFairness /\ DeliveryFairness
-----------------------------------------------------------------------------
Keys == Seq(Nat)
Epochs == 0 .. (EpochMod - 1)
EpochRecords == [epoch : Epochs, key : Keys, startSeq : Nat]
Frames == [type : {"data", "close", "init", "resp"}, to : Peers, epoch : Epochs, key : Keys,
           seq : Nat, kp : Nat, ct : Nat]

\* Every field of the sessions, the rekey driver and the goroutines keeps its type.
TypeOK ==
    /\ cur \in [Peers -> EpochRecords] /\ prev \in [Peers -> EpochRecords]
    /\ master \in [Peers -> Keys] /\ live \in [Peers -> BOOLEAN] /\ sendSeq \in [Peers -> Nat]
    /\ net \subseteq Frames
    /\ pc \in [Threads -> {"idle", "header", "seal", "closing", "teardown", "closed"}]
    /\ out \in [Threads -> Frames] /\ sends \in [Threads -> Nat]
    /\ rekey \in [on : BOOLEAN, kp : Nat, attempts : Nat, frame : Frames]
    /\ inbox \in Seq(Frames) /\ Len(inbox) <= InboxCap
    /\ resp \in [valid : BOOLEAN, from : Epochs, frame : Frames]
    /\ advancing \in [Peers -> Keys] /\ kem \in Nat /\ rekeys \in 0 .. MaxRekeys
    /\ accepted \in [Peers -> SUBSET Nat]
    /\ sealed \subseteq [peer : Peers, key : Keys, seq : Nat, type : {"data", "close", "control"}]
    /\ nonceReused \in BOOLEAN /\ disturbed \in BOOLEAN

LiveEpochs(p) == {e \in {cur[p], prev[p]} : e.key # nil}

SameKeys ==
    \A a \in LiveEpochs(Initiator), b \in LiveEpochs(Responder) : a.epoch = b.epoch => a.key = b.key

\* Until a Rekey call is given up or a session closed, whenever both peers hold a key for
\* the same epoch it is the same key, whatever the network loses, repeats or reorders of
\* the exchange (handleRekeyInit's cached response, openRekeyControl).
EpochKeysAgree == ~disturbed => SameKeys

\* dgram_rekey.go's comment: the cached response keeps the epochs from a desync.
NeverDesync == SameKeys

\* The responder's epoch byte is the initiator's or the next one, across its wrap and
\* whatever rekeys time out, so the two always share a live epoch or had one
\* (handleRekeyInit answers only its current epoch; AdvanceDatagramEpoch adds one).
EpochsAdjacent ==
    cur[Responder].epoch \in {cur[Initiator].epoch, (cur[Initiator].epoch + 1) % EpochMod}

\* No key ever seals two frames, data or control, with the same sequence number.
NonceNeverReused == ~nonceReused

\* The epoch in a frame's header is that of the key that seals it, although Send and
\* Close read the epoch twice and a rekey may advance it in between: the sequence
\* number was drawn first, so the wrapped subtraction of the cap check refuses it.
HeaderNamesKey ==
    \A f \in net : f.epoch = (Len(f.key) - 1) % EpochMod

\* An epoch's key seals at most MaxPackets data and CLOSE frames (DatagramSeal's cap).
DataWearBounded ==
    \A u \in sealed :
        Cardinality({v \in sealed : v.peer = u.peer /\ v.key = u.key /\ v.type # "control"}) <= MaxPackets

\* While no Rekey call is given up and no session closed (as in the runs without timeouts
\* and closers), the keys follow one chain, which only the responder extends, and only
\* when both peers hold all of it.
Chain == INSTANCE Ratchet WITH chain <- cur[Responder].key, secret <- [p \in Peers |-> cur[p].key]
ImplementsRatchet == Chain!Spec

\* A Rekey call returns: it completes, times out or sees the session close.
RekeyReturns == rekey.on ~> ~rekey.on

\* When no rekey times out and nobody closes, a Rekey call ends with both peers on the
\* next epoch's key: neither a lost message nor a stale response strands it.
RekeyCompletes ==
    \A n \in 0 .. MaxRekeys :
        rekey.on /\ Len(cur[Initiator].key) = n + 1
            ~> cur[Initiator].key = cur[Responder].key /\ Len(cur[Initiator].key) > n + 1

=============================================================================
