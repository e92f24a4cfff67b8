---------------------------- MODULE ReplayWindow ----------------------------
(***************************************************************************)
(* DatagramReplayWindow (pkg/tunnel/replay.go): the multi-word sliding     *)
(* bitmap that both transports use to reject replayed records, and the     *)
(* receive goroutines of the datagram endpoint that use it in two critical *)
(* sections: Admissible before the AEAD open, Check after it.              *)
(*                                                                         *)
(* A word is the set of its one bits.  Bit p of the window (bit p % Bits   *)
(* of word p \div Bits) stands for sequence number highSeq - p.            *)
(***************************************************************************)
EXTENDS Naturals

CONSTANTS Bits,        \* replayWordBits, 64 in the code
          Words,       \* len(w.bitmap)
          Seqs,        \* the sequence numbers a peer may present
          Goroutines   \* receive goroutines (one per SO_REUSEPORT socket)

ASSUME WindowAssumption ==
    /\ Bits \in Nat \ {0}
    /\ Words \in Nat \ {0}
    /\ Seqs \subseteq Nat

VARIABLES
    bitmap, highSeq, seen,  \* the fields of DatagramReplayWindow
    pc, held,               \* a goroutine between its peek and its commit, and its frame
    acceptCount,            \* history: how often each sequence was accepted
    verdict                 \* history: the last Check and its answer

window == <<bitmap, highSeq, seen>>
vars   == <<bitmap, highSeq, seen, pc, held, acceptCount, verdict>>

Size == Words * Bits
BitPositions == 0 .. (Bits - 1)
WordIndices  == 0 .. (Words - 1)
Positions    == 0 .. (Size - 1)
-----------------------------------------------------------------------------
testBit(bm, pos) == (pos % Bits) \in bm[pos \div Bits]

setBit(bm, pos) == [bm EXCEPT ![pos \div Bits] = @ \cup {pos % Bits}]

\* Go's shifts within one word: bits pushed past an end are lost.
ShiftLeft(word, n)  == {b \in BitPositions : b >= n /\ (b - n) \in word}
ShiftRight(word, n) == {b \in BitPositions : (b + n) \in word}

\* Faulty variant of advance: without the carry between words.
advanceNoCarry(bm, delta) ==
    [i \in WordIndices |->
        IF delta < Size /\ i >= delta \div Bits
        THEN ShiftLeft(bm[i - delta \div Bits], delta % Bits) ELSE {}]

\* The code rewrites the words from the highest down, so every word it reads
\* still has its old value.
advance(bm, delta) ==
    LET wordShift == delta \div Bits
        bitShift  == delta % Bits
        moved(i)  == ShiftLeft(bm[i - wordShift], bitShift)
        carry(i)  == IF bitShift # 0 /\ i - wordShift >= 1
                     THEN ShiftRight(bm[i - wordShift - 1], Bits - bitShift)
                     ELSE {}
    IN  IF delta >= Size
        THEN [i \in WordIndices |-> {}]
        ELSE [i \in WordIndices |-> IF i >= wordShift THEN moved(i) \cup carry(i) ELSE {}]

\* Faulty variants of Admissible: the oldest position of the window is given up; a
\* jump by more than the window is refused.
AdmissibleNarrow(seq) ==
    \/ ~seen
    \/ seq > highSeq
    \/ seq < highSeq /\ highSeq - seq + 1 < Size /\ ~testBit(bitmap, highSeq - seq)
AdmissibleNear(seq) ==
    \/ ~seen
    \/ seq > highSeq /\ seq - highSeq < Size
    \/ seq < highSeq /\ highSeq - seq < Size /\ ~testBit(bitmap, highSeq - seq)

Admissible(seq) ==
    \/ ~seen
    \/ seq > highSeq
    \/ /\ seq < highSeq
       /\ highSeq - seq < Size
       /\ ~testBit(bitmap, highSeq - seq)

\* Faulty variant of Check: the frame is accepted on the strength of its peek.
CheckTrustsPeek(seq) ==
    /\ verdict' = [seq |-> seq, ok |-> TRUE]
    /\ acceptCount' = [acceptCount EXCEPT ![seq] = @ + 1]
    /\ seen' = TRUE
    /\ \/ ~seen /\ bitmap' = setBit(bitmap, 0) /\ highSeq' = seq
       \/ /\ seen /\ seq > highSeq
          /\ bitmap' = setBit(advance(bitmap, seq - highSeq), 0) /\ highSeq' = seq
       \/ /\ seen /\ seq <= highSeq /\ UNCHANGED highSeq
          /\ bitmap' = IF highSeq - seq < Size THEN setBit(bitmap, highSeq - seq) ELSE bitmap

\* Check: decide and record under one lock.
Check(seq) ==
    /\ verdict' = [seq |-> seq, ok |-> Admissible(seq)]
    /\ acceptCount' = IF Admissible(seq) THEN [acceptCount EXCEPT ![seq] = @ + 1] ELSE acceptCount
    /\ seen' = TRUE
    /\ \/ /\ ~seen
          /\ bitmap' = setBit(bitmap, 0) /\ highSeq' = seq
       \/ /\ seen /\ seq > highSeq
          /\ bitmap' = setBit(advance(bitmap, seq - highSeq), 0) /\ highSeq' = seq
       \/ /\ seen /\ seq <= highSeq /\ ~Admissible(seq)
          /\ UNCHANGED <<bitmap, highSeq>>
       \/ /\ seen /\ seq < highSeq /\ Admissible(seq)
          /\ bitmap' = setBit(bitmap, highSeq - seq) /\ UNCHANGED highSeq
-----------------------------------------------------------------------------
NewDatagramReplayWindow ==
    /\ bitmap = [i \in WordIndices |-> {}]
    /\ highSeq = 0
    /\ seen = FALSE

Init ==
    /\ NewDatagramReplayWindow
    /\ pc = [g \in Goroutines |-> "idle"]
    /\ held = [g \in Goroutines |-> 0]
    /\ acceptCount = [s \in Seqs |-> 0]
    /\ verdict = [seq |-> 0, ok |-> FALSE]

\* routeDatagram drops an inadmissible frame before it decrypts it, and holds an
\* admissible one while DatagramOpen runs outside the window's lock.
Peek(g, seq) ==
    /\ pc[g] = "idle"
    /\ Admissible(seq)
    /\ pc' = [pc EXCEPT ![g] = "opening"]
    /\ held' = [held EXCEPT ![g] = seq]
    /\ UNCHANGED <<window, acceptCount, verdict>>

PeekDrops(g, seq) ==
    /\ pc[g] = "idle"
    /\ ~Admissible(seq)
    /\ UNCHANGED vars

\* DatagramOpen failed: the frame is dropped and nothing is recorded.
OpenFails(g) ==
    /\ pc[g] = "opening"
    /\ pc' = [pc EXCEPT ![g] = "idle"]
    /\ held' = [held EXCEPT ![g] = 0]
    /\ UNCHANGED <<window, acceptCount, verdict>>

\* DatagramOpen succeeded: the frame is recorded and delivered if Check still
\* accepts it.
Commit(g) ==
    /\ pc[g] = "opening"
    /\ Check(held[g])
    /\ pc' = [pc EXCEPT ![g] = "idle"]
    /\ held' = [held EXCEPT ![g] = 0]

Next == \E g \in Goroutines :
            \/ \E s \in Seqs : Peek(g, s) \/ PeekDrops(g, s)
            \/ OpenFails(g)
            \/ Commit(g)

Spec == Init /\ [][Next]_vars
-----------------------------------------------------------------------------
\* The fields of the window and the goroutines' locals keep their types.
TypeOK ==
    /\ bitmap \in [WordIndices -> SUBSET BitPositions]
    /\ highSeq \in Seqs \cup {0}
    /\ seen \in BOOLEAN
    /\ pc \in [Goroutines -> {"idle", "opening"}]
    /\ held \in [Goroutines -> Seqs \cup {0}]
    /\ acceptCount \in [Seqs -> Nat]
    /\ verdict \in [seq : Seqs \cup {0}, ok : BOOLEAN]

\* No sequence number is ever accepted twice, however the goroutines' peeks and
\* commits interleave (replay.go Check; datagram.go routeDatagram).
NeverTwice == \A s \in Seqs : acceptCount[s] <= 1

\* The bitmap is exactly the recent history: the bit at distance p from the highest
\* accepted sequence number is set when, and only when, that number was accepted
\* (replay.go advance and setBit, whose shifts carry between words).
WindowRecordsHistory ==
    \A p \in Positions :
        testBit(bitmap, p) <=> /\ seen
                               /\ highSeq >= p
                               /\ highSeq - p \in Seqs
                               /\ acceptCount[highSeq - p] > 0

\* highSeq is the highest accepted sequence number once there is one (Check).
HighIsHighest ==
    /\ seen => highSeq \in Seqs /\ acceptCount[highSeq] > 0
    /\ \A s \in Seqs : acceptCount[s] > 0 => seen /\ s <= highSeq

\* A goroutine that is opening a frame holds one the peer presented (routeDatagram).
HeldIsAFrame == \A g \in Goroutines : pc[g] = "opening" => held[g] \in Seqs

\* What makes NeverTwice inductive: the bitmap remembers every acceptance still
\* inside the window (replay.go advance, setBit), its reference point is the highest
\* acceptance, and a goroutine between peek and Check holds a frame it was given.
WindowInv == WindowRecordsHistory /\ HighIsHighest /\ HeldIsAFrame

\* A sequence number that Admissible refuses is refused for ever after: the peek
\* before the AEAD open never drops a frame that a later Check would have taken.
RejectionIsFinal ==
    [][\A s \in Seqs : ~Admissible(s) => ~(Admissible(s)')]_vars

\* The bitmap is the filter of ReplaySpec: each answer is the one the whole
\* history of accepted sequence numbers determines.
Filter == INSTANCE ReplaySpec WITH accepted <- {s \in Seqs : acceptCount[s] > 0}
ImplementsFilter == Filter!Spec
=============================================================================
