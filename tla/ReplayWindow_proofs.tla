------------------------- MODULE ReplayWindow_proofs -------------------------
(***************************************************************************)
(* Proofs about DatagramReplayWindow, for every word width, window size,   *)
(* set of sequence numbers and set of receive goroutines.                  *)
(***************************************************************************)
EXTENDS ReplayWindow, TLAPS

\* Splitting a bit position into its word and its bit within the word.
LEMMA DivMod ==
  ASSUME NEW n \in Nat
  PROVE  /\ n \div Bits \in Nat
         /\ n % Bits \in BitPositions
         /\ n = (n \div Bits) * Bits + (n % Bits)
BY WindowAssumption DEF BitPositions

\* A word index and a bit index below Bits determine the position uniquely.
LEMMA DivModUnique ==
  ASSUME NEW q \in Nat, NEW r \in BitPositions
  PROVE  /\ q * Bits + r \in Nat
         /\ (q * Bits + r) \div Bits = q
         /\ (q * Bits + r) % Bits = r
BY WindowAssumption DEF BitPositions

\* Positions in a lower word are below every position of a higher word.
LEMMA WordGap ==
  ASSUME NEW q1 \in Nat, NEW q2 \in Nat, q1 < q2
  PROVE  q1 * Bits + Bits <= q2 * Bits
BY WindowAssumption

\* A position inside the window lies in an existing word.
LEMMA PositionInWord ==
  ASSUME NEW p \in Positions
  PROVE  /\ p \div Bits \in WordIndices
         /\ p % Bits \in BitPositions
<1>1. p \in Nat /\ p < Words * Bits
  BY WindowAssumption DEF Positions, Size
<1>2. p \div Bits < Words
  <2>1. SUFFICES ASSUME p \div Bits >= Words PROVE FALSE
    BY <1>1, DivMod, WindowAssumption
  <2>2. Words * Bits <= (p \div Bits) * Bits
    BY <2>1, <1>1, DivMod, WordGap, WindowAssumption
  <2>. QED BY <2>2, <1>1, DivMod, WindowAssumption DEF BitPositions
<1>. QED BY <1>1, <1>2, DivMod, WindowAssumption DEF WordIndices

Bitmaps == [WordIndices -> SUBSET BitPositions]

\* advance moves every bit delta positions up and drops what leaves the window,
\* although it works word by word with a carry between neighbours.
LEMMA AdvanceShifts ==
  ASSUME NEW bm \in Bitmaps, NEW delta \in Nat, NEW p \in Positions
  PROVE  /\ advance(bm, delta) \in Bitmaps
         /\ testBit(advance(bm, delta), p) <=> (p >= delta /\ testBit(bm, p - delta))
<1>. DEFINE ws == delta \div Bits
            bs == delta % Bits
            i  == p \div Bits
            b  == p % Bits
<1>1. /\ ws \in Nat /\ bs \in Nat /\ bs < Bits /\ delta = ws * Bits + bs
      /\ i \in Nat /\ b \in Nat /\ b < Bits /\ p = i * Bits + b
      /\ Bits \in Nat /\ Bits > 0 /\ Words \in Nat
      /\ i \in WordIndices /\ b \in BitPositions /\ p \in Nat
  BY DivMod, PositionInWord, WindowAssumption DEF Positions, BitPositions
<1>. HIDE DEF ws, bs, i, b
<1>2. advance(bm, delta) \in Bitmaps
  BY <1>1 DEF advance, Bitmaps, ShiftLeft, ShiftRight, ws, bs
<1>3. CASE delta >= Size
  <2>1. p < delta
    BY <1>3, <1>1 DEF Positions, Size
  <2>2. ~testBit(advance(bm, delta), p)
    BY <1>3, <1>1 DEF advance, testBit, i
  <2>. QED BY <1>1, <1>2, <2>1, <2>2
<1>4. CASE delta < Size /\ i < ws
  <2>1. p < delta
    BY <1>4, <1>1, WordGap
  <2>2. ~testBit(advance(bm, delta), p)
    BY <1>4, <1>1 DEF advance, testBit, i, ws, Size
  <2>. QED BY <1>1, <1>2, <2>1, <2>2
<1>5. CASE delta < Size /\ i >= ws /\ b >= bs
  <2>1. /\ i - ws \in Nat /\ b - bs \in BitPositions
        /\ p - delta = (i - ws) * Bits + (b - bs)
    BY <1>5, <1>1 DEF BitPositions
  <2>2. p >= delta
    BY <2>1, <1>1, DivModUnique
  <2>3. (p - delta) \div Bits = i - ws /\ (p - delta) % Bits = b - bs
    BY <2>1, DivModUnique
  <2>4. ~(b + (Bits - bs) \in BitPositions)
    BY <1>5, <1>1 DEF BitPositions
  <2>5. i - ws \in WordIndices /\ (i - ws >= 1 => i - ws - 1 \in WordIndices)
    BY <1>5, <1>1 DEF WordIndices
  <2>6. testBit(advance(bm, delta), p) <=> b - bs \in bm[i - ws]
    <3>1. advance(bm, delta)[i] =
             ShiftLeft(bm[i - ws], bs) \cup
             (IF bs # 0 /\ i - ws >= 1 THEN ShiftRight(bm[i - ws - 1], Bits - bs) ELSE {})
      BY <1>5, <1>1 DEF advance, ws, bs, Size
    <3>2. b \notin (IF bs # 0 /\ i - ws >= 1 THEN ShiftRight(bm[i - ws - 1], Bits - bs) ELSE {})
      BY <2>4, <2>5 DEF ShiftRight, Bitmaps
    <3>3. b \in ShiftLeft(bm[i - ws], bs) <=> b - bs \in bm[i - ws]
      BY <1>5, <1>1 DEF ShiftLeft
    <3>. QED BY <3>1, <3>2, <3>3 DEF testBit, i, b
  <2>. QED BY <1>2, <2>2, <2>3, <2>6 DEF testBit
<1>6. CASE delta < Size /\ i >= ws /\ b < bs
  <2>1. CASE i = ws
    <3>1. p < delta
      BY <1>6, <2>1, <1>1
    <3>2. advance(bm, delta)[i] = ShiftLeft(bm[i - ws], bs)
      <4>1. ~(i - ws >= 1)
        BY <2>1, <1>1
      <4>. QED BY <4>1, <1>6, <1>1 DEF advance, ws, bs, Size
    <3>3. b \notin ShiftLeft(bm[i - ws], bs)
      BY <1>6, <1>1 DEF ShiftLeft
    <3>. QED BY <1>1, <1>2, <3>1, <3>2, <3>3 DEF testBit, i, b
  <2>2. CASE i > ws
    <3>1. /\ i - ws - 1 \in Nat /\ b + (Bits - bs) \in BitPositions
          /\ p - delta = (i - ws - 1) * Bits + (b + (Bits - bs))
      BY <1>6, <2>2, <1>1 DEF BitPositions
    <3>2. p >= delta
      BY <3>1, <1>1, DivModUnique
    <3>3. /\ (p - delta) \div Bits = i - ws - 1
          /\ (p - delta) % Bits = b + (Bits - bs)
      BY <3>1, DivModUnique
    <3>4. advance(bm, delta)[i] =
             ShiftLeft(bm[i - ws], bs) \cup ShiftRight(bm[i - ws - 1], Bits - bs)
      <4>1. bs # 0 /\ i - ws >= 1
        BY <1>6, <2>2, <1>1
      <4>. QED BY <4>1, <1>6, <1>1 DEF advance, ws, bs, Size
    <3>5. b \notin ShiftLeft(bm[i - ws], bs)
      BY <1>6, <1>1 DEF ShiftLeft
    <3>6. b \in ShiftRight(bm[i - ws - 1], Bits - bs) <=> b + (Bits - bs) \in bm[i - ws - 1]
      BY <1>1 DEF ShiftRight
    <3>. QED BY <1>2, <3>2, <3>3, <3>4, <3>5, <3>6 DEF testBit, i, b
  <2>. QED BY <2>1, <2>2, <1>6, <1>1
<1>. QED BY <1>1, <1>3, <1>4, <1>5, <1>6, WindowAssumption DEF Size

\* setBit adds exactly one bit to the window.
LEMMA SetBitAdds ==
  ASSUME NEW bm \in Bitmaps, NEW p \in Positions, NEW q \in Positions
  PROVE  /\ setBit(bm, p) \in Bitmaps
         /\ testBit(setBit(bm, p), q) <=> (q = p \/ testBit(bm, q))
<1>1. /\ p \div Bits \in WordIndices /\ p % Bits \in BitPositions
      /\ q \div Bits \in WordIndices /\ q % Bits \in BitPositions
      /\ p \in Nat /\ q \in Nat
  BY PositionInWord DEF Positions
<1>2. (p \div Bits = q \div Bits /\ p % Bits = q % Bits) => p = q
  BY <1>1, DivMod
<1>. QED BY <1>1, <1>2 DEF setBit, testBit, Bitmaps

\* The inductive invariant.
IInv == TypeOK /\ NeverTwice /\ WindowInv

\* A fresh window (NewDatagramReplayWindow) satisfies the inductive invariant.
THEOREM InitInv == Init => IInv
<1>. SUFFICES ASSUME Init PROVE IInv
  OBVIOUS
<1>1. TypeOK
  BY WindowAssumption DEF Init, NewDatagramReplayWindow, TypeOK
<1>2. NeverTwice /\ HighIsHighest /\ HeldIsAFrame
  BY DEF Init, NewDatagramReplayWindow, NeverTwice, HighIsHighest, HeldIsAFrame
<1>3. WindowRecordsHistory
  BY PositionInWord DEF Init, NewDatagramReplayWindow, WindowRecordsHistory, testBit
<1>. QED BY <1>1, <1>2, <1>3 DEF IInv, WindowInv

\* Recording one sequence number keeps the bitmap equal to the recent history.
LEMMA CheckInv ==
  ASSUME IInv, NEW s \in Seqs, Check(s)
  PROVE  /\ bitmap' \in Bitmaps
         /\ acceptCount' \in [Seqs -> Nat]
         /\ highSeq' \in Seqs
         /\ (NeverTwice /\ WindowRecordsHistory /\ HighIsHighest)'
<1>. USE DEF IInv, WindowInv
<1>0. /\ s \in Nat /\ highSeq \in Nat /\ Seqs \subseteq Nat /\ bitmap \in Bitmaps
      /\ Bits \in Nat \ {0} /\ Words \in Nat \ {0} /\ Size \in Nat \ {0} /\ 0 \in Positions
      /\ acceptCount \in [Seqs -> Nat] /\ seen \in BOOLEAN /\ seen'
  BY WindowAssumption DEF TypeOK, Bitmaps, Size, Positions, Check
<1>1. CASE ~seen
  <2>1. /\ bitmap' = setBit(bitmap, 0) /\ highSeq' = s
        /\ acceptCount' = [acceptCount EXCEPT ![s] = @ + 1]
    BY <1>1 DEF Check, Admissible
  <2>2. \A t \in Seqs : acceptCount[t] = 0
    BY <1>0, <1>1 DEF HighIsHighest
  <2>3. \A p \in Positions : ~testBit(bitmap, p)
    BY <1>1 DEF WindowRecordsHistory
  <2>4. \A p \in Positions : testBit(bitmap', p) <=> p = 0
    BY <1>0, <2>1, <2>3, SetBitAdds
  <2>5. \A t \in Seqs : acceptCount'[t] = IF t = s THEN 1 ELSE 0
    BY <1>0, <2>1, <2>2
  <2>6. WindowRecordsHistory'
    BY <1>0, <2>1, <2>4, <2>5 DEF WindowRecordsHistory, Positions
  <2>. QED BY <1>0, <2>1, <2>5, <2>6, SetBitAdds DEF NeverTwice, HighIsHighest
<1>2. CASE seen /\ s > highSeq
  <2>. DEFINE shifted == advance(bitmap, s - highSeq)
  <2>1. /\ bitmap' = setBit(shifted, 0) /\ highSeq' = s
        /\ acceptCount' = [acceptCount EXCEPT ![s] = @ + 1]
    BY <1>0, <1>2 DEF Check, Admissible
  <2>2. acceptCount[s] = 0
    BY <1>0, <1>2 DEF HighIsHighest
  <2>3. /\ shifted \in Bitmaps
        /\ \A p \in Positions : testBit(shifted, p) <=>
              (p >= s - highSeq /\ testBit(bitmap, p - (s - highSeq)))
    BY <1>0, <1>2, AdvanceShifts
  <2>4. \A p \in Positions : testBit(bitmap', p) <=> (p = 0 \/ testBit(shifted, p))
    BY <1>0, <2>1, <2>3, SetBitAdds
  <2>5. ASSUME NEW p \in Positions
        PROVE  testBit(bitmap', p) <=> /\ s >= p /\ s - p \in Seqs
                                       /\ acceptCount'[s - p] > 0
    <3>1. CASE p = 0
      BY <1>0, <2>1, <2>2, <2>4, <3>1
    <3>2. CASE p # 0 /\ p >= s - highSeq
      <4>1. p - (s - highSeq) \in Positions
        BY <1>0, <1>2, <3>2 DEF Positions
      <4>2. highSeq - (p - (s - highSeq)) = s - p
        BY <1>0, <1>2, <3>2 DEF Positions
      <4>3. testBit(bitmap', p) <=> /\ highSeq >= p - (s - highSeq)
                                    /\ s - p \in Seqs
                                    /\ acceptCount[s - p] > 0
        BY <1>2, <2>3, <2>4, <3>2, <4>1, <4>2 DEF WindowRecordsHistory
      <4>4. (highSeq >= p - (s - highSeq)) <=> (s >= p)
        BY <1>0, <1>2, <3>2 DEF Positions
      <4>5. s - p # s
        BY <1>0, <3>2 DEF Positions
      <4>. QED BY <1>0, <2>1, <4>3, <4>4, <4>5
    <3>3. CASE p # 0 /\ p < s - highSeq
      <4>1. ~testBit(bitmap', p)
        BY <1>0, <1>2, <2>3, <2>4, <3>3 DEF Positions
      <4>2. s - p \in Seqs => acceptCount'[s - p] = 0
        <5>1. s - p > highSeq /\ s - p # s
          BY <1>0, <1>2, <3>3 DEF Positions
        <5>. SUFFICES ASSUME s - p \in Seqs PROVE acceptCount'[s - p] = 0
          OBVIOUS
        <5>2. ~(acceptCount[s - p] > 0)
          BY <1>0, <5>1 DEF HighIsHighest, Positions
        <5>3. acceptCount'[s - p] = acceptCount[s - p]
          BY <1>0, <2>1, <5>1
        <5>4. acceptCount[s - p] \in Nat
          BY <1>0
        <5>. QED BY <5>2, <5>3, <5>4
      <4>. QED BY <4>1, <4>2, <1>0
    <3>. QED BY <3>1, <3>2, <3>3, <1>0, <1>2 DEF Positions
  <2>6. WindowRecordsHistory'
    BY <1>0, <2>1, <2>5 DEF WindowRecordsHistory
  <2>7. NeverTwice' /\ HighIsHighest'
    BY <1>0, <1>2, <2>1, <2>2 DEF NeverTwice, HighIsHighest
  <2>. QED BY <1>0, <2>1, <2>3, <2>6, <2>7, SetBitAdds
<1>3. CASE seen /\ s <= highSeq /\ ~Admissible(s)
  <2>1. UNCHANGED <<bitmap, highSeq, acceptCount>>
    BY <1>0, <1>3 DEF Check
  <2>. QED BY <1>0, <1>3, <2>1
           DEF NeverTwice, WindowRecordsHistory, HighIsHighest, testBit
<1>4. CASE seen /\ s < highSeq /\ Admissible(s)
  <2>1. /\ bitmap' = setBit(bitmap, highSeq - s) /\ highSeq' = highSeq
        /\ acceptCount' = [acceptCount EXCEPT ![s] = @ + 1]
    BY <1>0, <1>4 DEF Check
  <2>2. highSeq - s \in Positions /\ ~testBit(bitmap, highSeq - s)
    BY <1>0, <1>4 DEF Admissible, Positions
  <2>3. acceptCount[s] = 0
    <3>1. highSeq - (highSeq - s) = s
      BY <1>0, <1>4
    <3>2. ~(acceptCount[s] > 0)
      BY <1>0, <1>4, <2>2, <3>1 DEF WindowRecordsHistory
    <3>. QED BY <1>0, <3>2
  <2>4. \A p \in Positions : testBit(bitmap', p) <=> (p = highSeq - s \/ testBit(bitmap, p))
    BY <1>0, <2>1, <2>2, SetBitAdds
  <2>5. \A p \in Positions : (highSeq >= p /\ highSeq - p = s) <=> p = highSeq - s
    BY <1>0, <1>4 DEF Positions
  <2>6. WindowRecordsHistory'
    <3>. SUFFICES ASSUME NEW p \in Positions
                  PROVE  testBit(bitmap', p) <=> /\ highSeq >= p /\ highSeq - p \in Seqs
                                                 /\ acceptCount'[highSeq - p] > 0
      BY <1>0, <2>1 DEF WindowRecordsHistory
    <3>1. CASE p = highSeq - s
      <4>1. highSeq >= p /\ highSeq - p = s /\ acceptCount'[s] = 1
        BY <1>0, <2>1, <2>3, <2>5, <3>1
      <4>. QED BY <2>4, <3>1, <4>1
    <3>2. CASE p # highSeq - s
      <4>1. highSeq >= p => highSeq - p # s
        BY <2>5, <3>2
      <4>2. testBit(bitmap', p) <=> testBit(bitmap, p)
        BY <2>4, <3>2
      <4>. QED BY <1>0, <1>4, <2>1, <4>1, <4>2 DEF WindowRecordsHistory
    <3>. QED BY <3>1, <3>2
  <2>7. NeverTwice' /\ HighIsHighest'
    BY <1>0, <1>4, <2>1, <2>3 DEF NeverTwice, HighIsHighest
  <2>8. bitmap' \in Bitmaps
    BY <1>0, <2>1, <2>2, SetBitAdds
  <2>9. highSeq' \in Seqs /\ acceptCount' \in [Seqs -> Nat]
    BY <1>0, <1>4, <2>1 DEF HighIsHighest
  <2>. QED BY <2>6, <2>7, <2>8, <2>9
<1>5. ~seen \/ (seen /\ s > highSeq) \/ (seen /\ s <= highSeq /\ ~Admissible(s))
      \/ (seen /\ s < highSeq /\ Admissible(s))
  BY <1>0 DEF Admissible
<1>. QED BY <1>1, <1>2, <1>3, <1>4, <1>5

\* Every peek, drop, failed open and commit of a goroutine preserves it.
THEOREM StepInv == IInv /\ [Next]_vars => IInv'
<1>. SUFFICES ASSUME IInv, [Next]_vars PROVE IInv'
  OBVIOUS
<1>. USE DEF IInv, WindowInv
<1>1. ASSUME NEW g \in Goroutines, NEW s \in Seqs, Peek(g, s) PROVE IInv'
  <2>1. TypeOK' /\ HeldIsAFrame'
    BY <1>1 DEF Peek, TypeOK, HeldIsAFrame, window
  <2>. QED BY <1>1, <2>1
           DEF Peek, window, NeverTwice, WindowRecordsHistory, HighIsHighest, testBit
<1>2. ASSUME NEW g \in Goroutines, OpenFails(g) PROVE IInv'
  <2>1. TypeOK' /\ HeldIsAFrame'
    BY <1>2 DEF OpenFails, TypeOK, HeldIsAFrame, window
  <2>. QED BY <1>2, <2>1
           DEF OpenFails, window, NeverTwice, WindowRecordsHistory, HighIsHighest, testBit
<1>3. ASSUME NEW g \in Goroutines, Commit(g) PROVE IInv'
  <2>1. held[g] \in Seqs /\ Check(held[g])
    BY <1>3 DEF Commit, HeldIsAFrame
  <2>2. /\ bitmap' \in Bitmaps /\ acceptCount' \in [Seqs -> Nat] /\ highSeq' \in Seqs
        /\ NeverTwice' /\ WindowRecordsHistory' /\ HighIsHighest'
    BY <2>1, CheckInv
  <2>3. seen' \in BOOLEAN /\ verdict' \in [seq : Seqs \cup {0}, ok : BOOLEAN]
    BY <2>1 DEF Check, Admissible, TypeOK
  <2>4. pc' \in [Goroutines -> {"idle", "opening"}] /\ held' \in [Goroutines -> Seqs \cup {0}]
    BY <1>3 DEF Commit, TypeOK
  <2>5. HeldIsAFrame'
    BY <1>3 DEF Commit, TypeOK, HeldIsAFrame
  <2>. QED BY <2>2, <2>3, <2>4, <2>5 DEF TypeOK, Bitmaps
<1>4. CASE UNCHANGED vars
  BY <1>4 DEF vars, TypeOK, HeldIsAFrame, NeverTwice, WindowRecordsHistory, HighIsHighest, testBit
<1>. QED BY <1>1, <1>2, <1>3, <1>4 DEF Next, PeekDrops

\* The inductive invariant holds for every word width, window length, set of
\* sequence numbers and number of receive goroutines (replay.go).
THEOREM WindowIsHistory == Spec => [](TypeOK /\ NeverTwice /\ WindowInv)
BY InitInv, StepInv, PTL DEF Spec, IInv

\* The fields of the window keep their types.
THEOREM TypeCorrect == Spec => []TypeOK
BY WindowIsHistory, PTL

\* No sequence number is accepted twice, whatever the interleaving of the receive
\* goroutines between Admissible and Check.
THEOREM NeverAcceptedTwice == Spec => []NeverTwice
BY WindowIsHistory, PTL

\* Admissible, which consults the bitmap, is the history-based test of ReplaySpec.
LEMMA AdmissibleIsFresh ==
  ASSUME IInv, NEW s \in Seqs
  PROVE  Admissible(s) <=> Filter!Fresh(s)
<1>. USE DEF IInv, WindowInv
<1>. DEFINE accepted == {t \in Seqs : acceptCount[t] > 0}
<1>0. /\ s \in Nat /\ highSeq \in Nat /\ Seqs \subseteq Nat
      /\ Bits \in Nat \ {0} /\ Words \in Nat \ {0} /\ Size \in Nat \ {0}
      /\ acceptCount \in [Seqs -> Nat] /\ seen \in BOOLEAN
  BY WindowAssumption DEF TypeOK, Size
<1>1. Filter!Fresh(s) <=> s \notin accepted /\ \A a \in accepted : a < s + Size
  BY DEF Filter!Fresh
<1>2. CASE ~seen
  BY <1>1, <1>2 DEF HighIsHighest, Admissible
<1>3. CASE seen /\ s > highSeq
  BY <1>0, <1>1, <1>3 DEF HighIsHighest, Admissible
<1>4. CASE seen /\ s = highSeq
  BY <1>0, <1>1, <1>4 DEF HighIsHighest, Admissible
<1>5. CASE seen /\ s < highSeq /\ highSeq - s >= Size
  <2>1. highSeq \in accepted /\ ~(highSeq < s + Size)
    BY <1>0, <1>5 DEF HighIsHighest
  <2>. QED BY <1>0, <1>1, <1>5, <2>1 DEF Admissible
<1>6. CASE seen /\ s < highSeq /\ highSeq - s < Size
  <2>1. highSeq - s \in Positions /\ highSeq - (highSeq - s) = s /\ highSeq >= highSeq - s
    BY <1>0, <1>6 DEF Positions
  <2>2. testBit(bitmap, highSeq - s) <=> s \in accepted
    BY <1>6, <2>1 DEF WindowRecordsHistory
  <2>3. \A a \in accepted : a < s + Size
    BY <1>0, <1>6 DEF HighIsHighest
  <2>. QED BY <1>0, <1>1, <1>6, <2>2, <2>3 DEF Admissible
<1>. QED BY <1>0, <1>2, <1>3, <1>4, <1>5, <1>6

\* A step only ever adds to the set of accepted sequence numbers, and a Check adds
\* its argument exactly when the history says it is fresh.
LEMMA StepIsCall ==
  ASSUME IInv, [Next]_vars
  PROVE  [Filter!Next]_(Filter!vars)
<1>. DEFINE accepted == {t \in Seqs : acceptCount[t] > 0}
<1>1. ASSUME NEW g \in Goroutines, Commit(g)
      PROVE  Filter!Call(held[g]) /\ held[g] \in Seqs
  <2>1. held[g] \in Seqs /\ Check(held[g])
    BY <1>1 DEF Commit, IInv, WindowInv, HeldIsAFrame
  <2>2. verdict' = [seq |-> held[g], ok |-> Filter!Fresh(held[g])]
    <3>1. Admissible(held[g]) = Filter!Fresh(held[g])
      BY <2>1, AdmissibleIsFresh DEF Admissible, Filter!Fresh, IInv, TypeOK
    <3>. QED BY <2>1, <3>1 DEF Check
  <2>3. accepted' = IF Filter!Fresh(held[g]) THEN accepted \cup {held[g]} ELSE accepted
    <3>1. CASE Admissible(held[g])
      <4>1. acceptCount' = [acceptCount EXCEPT ![held[g]] = @ + 1]
        BY <2>1, <3>1 DEF Check
      <4>2. acceptCount \in [Seqs -> Nat]
        BY DEF IInv, TypeOK
      <4>3. accepted' = accepted \cup {held[g]}
        BY <2>1, <4>1, <4>2
      <4>. QED BY <2>1, <3>1, <4>3, AdmissibleIsFresh
    <3>2. CASE ~Admissible(held[g])
      <4>1. acceptCount' = acceptCount
        BY <2>1, <3>2 DEF Check
      <4>. QED BY <2>1, <3>2, <4>1, AdmissibleIsFresh
    <3>. QED BY <3>1, <3>2
  <2>. QED BY <2>1, <2>2, <2>3 DEF Filter!Call
<1>2. ASSUME UNCHANGED <<acceptCount, verdict>> PROVE UNCHANGED Filter!vars
  BY <1>2 DEF Filter!vars
<1>3. CASE \E g \in Goroutines : Commit(g)
  <2>1. PICK g \in Goroutines : Commit(g)
    BY <1>3
  <2>2. PICK s \in Seqs : Filter!Call(s)
    BY <1>1, <2>1 DEF Filter!Call
  <2>. QED BY <2>2 DEF Filter!Next
<1>4. CASE ~\E g \in Goroutines : Commit(g)
  <2>1. UNCHANGED <<acceptCount, verdict>>
    <3>1. \/ \E g \in Goroutines : \/ \E s \in Seqs : Peek(g, s) \/ PeekDrops(g, s)
                                   \/ OpenFails(g)
          \/ UNCHANGED vars
      BY <1>4 DEF Next
    <3>. QED BY <3>1 DEF Peek, PeekDrops, OpenFails, vars
  <2>. QED BY <1>2, <2>1
<1>. QED BY <1>3, <1>4

\* Refinement: the words, shifts and carries of replay.go implement the filter
\* that remembers its whole history.
THEOREM Refinement == Spec => ImplementsFilter
<1>1. Init => Filter!Init
  BY DEF Init, Filter!Init
<1>2. IInv /\ [Next]_vars => [Filter!Next]_(Filter!vars)
  BY StepIsCall
<1>. QED BY <1>1, <1>2, InitInv, StepInv, PTL DEF Spec, ImplementsFilter, Filter!Spec

\* A sequence number the window refuses stays refused: what Admissible drops
\* before the AEAD open, Check would have dropped at any later time.
THEOREM RejectionsAreFinal == Spec => RejectionIsFinal
<1>. DEFINE Agree == \A s \in Seqs : Admissible(s) <=> Filter!Fresh(s)
<1>1. IInv => Agree
  BY AdmissibleIsFresh
<1>2. IInv' => Agree'
  BY <1>1, PTL
<1>3. ASSUME IInv, IInv', [Next]_vars
      PROVE  [\A s \in Seqs : ~Admissible(s) => ~(Admissible(s)')]_vars
  <2>. SUFFICES ASSUME NEW s \in Seqs, ~Admissible(s) PROVE ~(Admissible(s)')
    OBVIOUS
  <2>. DEFINE accepted == {t \in Seqs : acceptCount[t] > 0}
  <2>1. accepted \subseteq accepted'
    BY <1>3, StepIsCall DEF Filter!Next, Filter!Call, Filter!vars
  <2>2. ~Filter!Fresh(s)
    BY <1>1, <1>3
  <2>3. ~(Filter!Fresh(s)')
    BY <2>1, <2>2 DEF Filter!Fresh
  <2>. QED BY <1>2, <1>3, <2>3
<1>. QED BY <1>3, InitInv, StepInv, PTL DEF Spec, RejectionIsFinal
=============================================================================
