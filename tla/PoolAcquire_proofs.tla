------------------------- MODULE PoolAcquire_proofs -------------------------
(***************************************************************************)
(* The inductive invariant of the pool, and that every step of an          *)
(* acquisition keeps it: the lock, the dial, the wait and its timeout.     *)
(* First, what the operations on lists do to one without repetitions.      *)
(***************************************************************************)
EXTENDS Pool, FiniteSetTheorems, TLAPS

\* Zenon proves the leaves that do not name another prover.
USE Zenon

(* Lists without repetitions *)

(* The domain of a sequence.                                               *)
LEMMA SeqDomain ==
    ASSUME NEW S, NEW s \in Seq(S)
    PROVE  Len(s) \in Nat /\ DOMAIN s = 1 .. Len(s) /\ s \in [1 .. Len(s) -> S]
  BY SMT

(* A part of a sequence.                                                   *)
LEMMA SubSeqOfSeq ==
    ASSUME NEW S, NEW s \in Seq(S), NEW m \in 1 .. Len(s) + 1, NEW n \in 0 .. Len(s), m <= n + 1
    PROVE  /\ SubSeq(s, m, n) \in Seq(S) /\ Len(SubSeq(s, m, n)) = n - m + 1
           /\ \A i \in 1 .. n - m + 1 : SubSeq(s, m, n)[i] = s[m + i - 1]
  BY SMT

(* Two sequences, one after the other.                                     *)
LEMMA ConcatOfSeqs ==
    ASSUME NEW S, NEW s \in Seq(S), NEW r \in Seq(S)
    PROVE  /\ s \o r \in Seq(S) /\ Len(s \o r) = Len(s) + Len(r)
           /\ \A i \in 1 .. Len(s) + Len(r) :
                (s \o r)[i] = IF i <= Len(s) THEN s[i] ELSE r[i - Len(s)]
  BY SMT

(* A non-empty set of naturals has a least element.                        *)
LEMMA NatMin ==
    ASSUME NEW T \in SUBSET Nat, T # {}
    PROVE  \E x \in T : \A y \in T : x <= y
  <1> DEFINE R == {ss \in Nat \X Nat : ss[1] < ss[2]}
  <1>1. IsWellFoundedOn(R, Nat)
    <2>1. IsWellFoundedOn(OpToRel(<, Nat), Nat)
      BY NatLessThanWellFounded
    <2>2. R = OpToRel(<, Nat)
      BY DEF OpToRel
    <2> QED
      BY <2>1, <2>2
  <1>2. \E x \in T : \A y \in T : <<y, x>> \notin R
    <2> HIDE DEF R
    <2> QED
      BY <1>1, WFMin
  <1>3. PICK x \in T : \A y \in T : <<y, x>> \notin R
    BY <1>2
  <1>4. ASSUME NEW y \in T
        PROVE  x <= y
    <2>1. <<y, x>> \in Nat \X Nat /\ <<y, x>>[1] = y /\ <<y, x>>[2] = x
      OBVIOUS
    <2>2. ~(y < x)
      BY <1>3, <2>1
    <2> QED
      BY <2>2, SMT
  <1> QED
    BY <1>4

(* Min and Max of a non-empty set of positions belong to it.               *)
LEMMA MinMaxOfPositions ==
    ASSUME NEW n \in Nat, NEW T \in SUBSET (1 .. n), T # {}
    PROVE  Min(T) \in T /\ Max(T) \in T /\ \A i \in T : i <= Max(T)
  <1>1. \E x \in T : \A y \in T : x <= y
    BY NatMin, SMT
  <1>2. \E x \in T : \A y \in T : x >= y
    <2> DEFINE D == {n - i : i \in T}
    <2>1. D \in SUBSET Nat /\ D # {}
      <3>1. \A i \in T : n - i \in Nat
        BY SMT
      <3>2. D \in SUBSET Nat
        BY <3>1
      <3>3. PICK i : i \in T
        OBVIOUS
      <3>4. n - i \in D
        BY <3>3
      <3> QED
        BY <3>2, <3>4
    <2>2. PICK d \in D : \A e \in D : d <= e
      <3> HIDE DEF D
      <3> QED
        BY <2>1, NatMin
    <2>3. PICK x \in T : d = n - x
      OBVIOUS
    <2>4. ASSUME NEW y \in T
          PROVE  x >= y
      <3>1. n - y \in D
        OBVIOUS
      <3>2. n - x <= n - y
        BY <2>2, <2>3, <3>1
      <3>3. x \in Int /\ y \in Int
        BY SMT
      <3> QED
        BY <3>2, <3>3, SMT
    <2> QED
      BY <2>4
  <1>3. \A x \in T : \A y \in T : x >= y <=> y <= x
    OBVIOUS
  <1> QED
    BY <1>1, <1>2, <1>3 DEF Min, Max

(* removeConnLocked and removeWaiter: of a list without repetitions, the   *)
(* element is gone and the rest stays.                                     *)
LEMMA RemoveFirstFromList ==
    ASSUME NEW S, NEW s \in Seq(S), NEW e, IsInjective(s)
    PROVE  /\ RemoveFirst(s, e) \in Seq(S)
           /\ IsInjective(RemoveFirst(s, e))
           /\ Range(RemoveFirst(s, e)) = Range(s) \ {e}
  <1> DEFINE T == {i \in 1 .. Len(s) : s[i] = e}
             k == Min(T)
             r == SubSeq(s, 1, k - 1) \o SubSeq(s, k + 1, Len(s))
  <1>1. CASE \A i \in 1 .. Len(s) : s[i] # e
    <2>1. RemoveFirst(s, e) = s
      BY <1>1 DEF RemoveFirst
    <2>2. e \notin Range(s)
      BY <1>1, SMT DEF Range
    <2> QED
      BY <2>1, <2>2
  <1>2. CASE \E i \in 1 .. Len(s) : s[i] = e
    <2>1. RemoveFirst(s, e) = r
      BY <1>2 DEF RemoveFirst
    <2>2. k \in 1 .. Len(s) /\ s[k] = e
      <3>1. k \in T
        <4>1. T \in SUBSET (1 .. Len(s)) /\ T # {} /\ Len(s) \in Nat
          BY <1>2, SMT
        <4> HIDE DEF T
        <4> QED
          BY <4>1, MinMaxOfPositions
      <3> QED
        BY <3>1
    <2> HIDE DEF k
    <2>3. /\ r \in Seq(S) /\ Len(r) = Len(s) - 1
          /\ \A i \in 1 .. Len(s) - 1 : r[i] = IF i < k THEN s[i] ELSE s[i + 1]
      <3> DEFINE a == SubSeq(s, 1, k - 1)
                 b == SubSeq(s, k + 1, Len(s))
      <3>1. a \in Seq(S) /\ Len(a) = k - 1 /\ \A i \in 1 .. k - 1 : a[i] = s[i]
        BY <2>2, SubSeqOfSeq, SMT
      <3>2. /\ b \in Seq(S) /\ Len(b) = Len(s) - k
            /\ \A i \in 1 .. Len(s) - k : b[i] = s[k + i]
        BY <2>2, SubSeqOfSeq, SMT
      <3> HIDE DEF a, b
      <3>3. /\ a \o b \in Seq(S) /\ Len(a \o b) = Len(s) - 1
            /\ \A i \in 1 .. Len(s) - 1 : (a \o b)[i] = IF i <= k - 1 THEN a[i] ELSE b[i - (k - 1)]
        <4>1. /\ a \o b \in Seq(S) /\ Len(a \o b) = Len(a) + Len(b)
              /\ \A i \in 1 .. Len(a) + Len(b) :
                    (a \o b)[i] = IF i <= Len(a) THEN a[i] ELSE b[i - Len(a)]
          BY <3>1, <3>2, ConcatOfSeqs
        <4>2. Len(a) + Len(b) = Len(s) - 1
          BY <2>2, <3>1, <3>2, SMT
        <4> QED
          BY <3>1, <4>1, <4>2
      <3>4. ASSUME NEW i \in 1 .. Len(s) - 1
            PROVE  (a \o b)[i] = IF i < k THEN s[i] ELSE s[i + 1]
        <4>1. CASE i < k
          BY <2>2, <3>1, <3>3, <4>1, SMT
        <4>2. CASE i >= k
          <5>1. i - (k - 1) \in 1 .. Len(s) - k /\ k + (i - (k - 1)) = i + 1
            BY <2>2, <4>2, SMT
          <5>2. b[i - (k - 1)] = s[i + 1]
            BY <3>2, <5>1
          <5>3. (a \o b)[i] = b[i - (k - 1)]
            BY <2>2, <3>3, <4>2, SMT
          <5> QED
            BY <2>2, <4>2, <5>2, <5>3, SMT
        <4>3. i < k \/ i >= k
          BY <2>2, SMT
        <4> QED
          BY <4>1, <4>2, <4>3
      <3> QED
        BY <3>3, <3>4 DEF a, b
    <2> HIDE DEF r
    <2>4. DOMAIN r = 1 .. Len(s) - 1 /\ DOMAIN s = 1 .. Len(s)
      BY <2>3, SeqDomain
    <2>5. IsInjective(r)
      <3>1. ASSUME NEW i \in 1 .. Len(s) - 1, NEW j \in 1 .. Len(s) - 1, r[i] = r[j]
            PROVE  i = j
        <4>1. \A m, n \in 1 .. Len(s) : s[m] = s[n] => m = n
          BY <2>4 DEF IsInjective
        <4>2. /\ i \in 1 .. Len(s) /\ i + 1 \in 1 .. Len(s)
              /\ j \in 1 .. Len(s) /\ j + 1 \in 1 .. Len(s)
          BY SMT
        <4> QED
          BY <2>2, <2>3, <3>1, <4>1, <4>2, SMT
      <3> QED
        BY <2>4, <3>1 DEF IsInjective
    <2>6. Range(r) \subseteq Range(s) \ {e}
      <3>1. ASSUME NEW i \in 1 .. Len(s) - 1
            PROVE  \E m \in 1 .. Len(s) : m # k /\ r[i] = s[m]
        BY <2>2, <2>3, SMT
      <3>2. \A m \in 1 .. Len(s) : m # k => s[m] # e
        BY <2>2, <2>4 DEF IsInjective
      <3> QED
        BY <2>4, <3>1, <3>2 DEF Range
    <2>7. Range(s) \ {e} \subseteq Range(r)
      <3>1. ASSUME NEW i \in 1 .. Len(s), i # k
            PROVE  \E j \in 1 .. Len(s) - 1 : r[j] = s[i]
        <4>1. CASE i < k
          <5>1. i \in 1 .. Len(s) - 1 /\ r[i] = s[i]
            BY <2>2, <2>3, <4>1, SMT
          <5> QED
            BY <5>1
        <4>2. CASE i > k
          <5>1. i - 1 \in 1 .. Len(s) - 1 /\ r[i - 1] = s[i]
            BY <2>2, <2>3, <4>2, SMT
          <5> QED
            BY <5>1
        <4> QED
          BY <2>2, <3>1, <4>1, <4>2, SMT
      <3> QED
        BY <2>2, <2>4, <3>1 DEF Range
    <2> QED
      BY <2>1, <2>3, <2>5, <2>6, <2>7
  <1> QED
    BY <1>1, <1>2

(* runHealthCheck's filter: the elements at the kept positions, each once. *)
LEMMA ElementsAtPositions ==
    ASSUME NEW S, NEW s \in Seq(S), NEW keep \in SUBSET (1 .. Len(s)), IsInjective(s)
    PROVE  /\ ElementsAt(s, keep) \in Seq(S)
           /\ IsInjective(ElementsAt(s, keep))
           /\ Range(ElementsAt(s, keep)) \subseteq {s[i] : i \in keep}
  <1> DEFINE N == Cardinality(keep)
             upTo(i) == {j \in keep : j <= i}
             rank == [i \in keep |-> Cardinality(upTo(i))]
             r == ElementsAt(s, keep)
  <1>1. IsFiniteSet(keep) /\ N \in Nat
    <2>1. IsFiniteSet(1 .. Len(s))
      BY FS_Interval, SMT
    <2> QED
      BY <2>1, FS_Subset, FS_CardinalityType
  <1>2. ASSUME NEW i \in keep
        PROVE  IsFiniteSet(upTo(i)) /\ Cardinality(upTo(i)) \in 1 .. N
    <2>1. upTo(i) \in SUBSET keep /\ upTo(i) # {}
      BY SMT
    <2>2. IsFiniteSet(upTo(i)) /\ Cardinality(upTo(i)) <= N
      BY <1>1, <2>1, FS_Subset
    <2>3. Cardinality(upTo(i)) \in Nat /\ Cardinality(upTo(i)) # 0
      BY <2>1, <2>2, FS_CardinalityType, FS_EmptySet
    <2> QED
      BY <1>1, <2>2, <2>3, SMT
  <1>3. ASSUME NEW i \in keep, NEW j \in keep, i < j
        PROVE  rank[i] < rank[j]
    <2>1. upTo(i) \in SUBSET upTo(j) /\ j \in upTo(j) /\ j \notin upTo(i)
      <3>1. i \in Int /\ j \in Int /\ i <= j /\ j <= j /\ ~(j <= i)
        BY <1>3, SMT
      <3>2. \A m \in keep : m <= i => m <= j
        BY <1>3, SMT
      <3> QED
        BY <3>1, <3>2
    <2>2. Cardinality(upTo(i)) <= Cardinality(upTo(j))
          /\ Cardinality(upTo(i)) # Cardinality(upTo(j))
      BY <1>2, <2>1, FS_Subset
    <2> HIDE DEF upTo
    <2> QED
      BY <1>2, <2>2, SMT
  <1>4. rank \in Injection(keep, 1 .. N)
    <2>1. rank \in [keep -> 1 .. N]
      BY <1>2
    <2>2. ASSUME NEW i \in keep, NEW j \in keep, rank[i] = rank[j]
          PROVE  i = j
      <3> HIDE DEF rank
      <3>1. ~(i < j) /\ ~(j < i)
        BY <1>3, <2>1, <2>2, SMT
      <3> QED
        BY <3>1, SMT
    <2> HIDE DEF rank
    <2> QED
      BY <2>1, <2>2 DEF Injection, IsInjective
  <1>5. rank \in Surjection(keep, 1 .. N)
    <2>1. IsFiniteSet(1 .. N) /\ Cardinality(1 .. N) = N
      BY <1>1, FS_Interval, SMT
    <2> HIDE DEF rank
    <2> QED
      BY <1>4, <2>1, FS_Injection
  <1>6. ASSUME NEW n \in 1 .. N
        PROVE  \E i \in keep : rank[i] = n /\ r[n] = s[i]
    <2>1. \E i \in keep : rank[i] = n
      <3> HIDE DEF rank
      <3> QED
        BY <1>5 DEF Surjection
    <2>2. \E i \in keep : Cardinality({j \in keep : j <= i}) = n
      BY <2>1
    <2> DEFINE m == CHOOSE i \in keep : Cardinality({j \in keep : j <= i}) = n
    <2>3. m \in keep /\ Cardinality({j \in keep : j <= m}) = n
      BY <2>2
    <2>4. r[n] = s[m]
      BY DEF ElementsAt
    <2> HIDE DEF m
    <2>5. rank[m] = n
      BY <2>3
    <2> QED
      BY <2>3, <2>4, <2>5
  <1>7. DOMAIN r = 1 .. N
    BY DEF ElementsAt
  <1> HIDE DEF rank, r
  <1>8. r \in Seq(S) /\ Len(r) = N
    <2>1. r = [n \in 1 .. N |-> r[n]]
      BY SMT DEF ElementsAt, r
    <2>2. \A n \in 1 .. N : r[n] \in S
      BY <1>6, SMT
    <2> QED
      BY <1>1, <2>1, <2>2, SMT
  <1>9. IsInjective(r)
    BY <1>6, <1>7, SMT DEF IsInjective
  <1>10. Range(r) \subseteq {s[i] : i \in keep}
    BY <1>6, <1>7, SMT DEF Range
  <1> QED
    BY <1>8, <1>9, <1>10 DEF r

(* A new element at the end of a list without repetitions.                 *)
LEMMA AppendToList ==
    ASSUME NEW S, NEW s \in Seq(S), NEW e \in S, IsInjective(s), e \notin Range(s)
    PROVE  /\ Append(s, e) \in Seq(S)
           /\ IsInjective(Append(s, e))
           /\ Range(Append(s, e)) = Range(s) \cup {e}
  <1> DEFINE r == Append(s, e)
  <1>1. /\ r \in Seq(S) /\ Len(r) = Len(s) + 1 /\ r[Len(s) + 1] = e
        /\ \A i \in 1 .. Len(s) : r[i] = s[i]
    BY SMT
  <1> HIDE DEF r
  <1>2. DOMAIN s = 1 .. Len(s) /\ DOMAIN r = 1 .. Len(s) + 1 /\ Len(s) \in Nat
    BY <1>1, SeqDomain
  <1>3. \A i \in 1 .. Len(s) + 1 : i \in 1 .. Len(s) \/ i = Len(s) + 1
    BY <1>2, SMT
  <1>4. IsInjective(r)
    BY <1>1, <1>2, <1>3 DEF IsInjective, Range
  <1>5. Range(r) = Range(s) \cup {e}
    BY <1>1, <1>2, <1>3, SMT DEF Range
  <1> QED
    BY <1>1, <1>4, <1>5 DEF r

(* The rest of a list without repetitions, after its head.                 *)
LEMMA TailOfList ==
    ASSUME NEW S, NEW s \in Seq(S), s # << >>, IsInjective(s)
    PROVE  /\ Head(s) \in Range(s) /\ Head(s) \in S
           /\ Tail(s) \in Seq(S)
           /\ IsInjective(Tail(s))
           /\ Range(Tail(s)) = Range(s) \ {Head(s)}
  <1> DEFINE r == Tail(s)
  <1>1. /\ r \in Seq(S) /\ Len(r) = Len(s) - 1 /\ Head(s) = s[1] /\ Head(s) \in S
        /\ \A i \in 1 .. Len(r) : r[i] = s[i + 1]
    BY SMT
  <1> HIDE DEF r
  <1>2. DOMAIN s = 1 .. Len(s) /\ DOMAIN r = 1 .. Len(s) - 1 /\ Len(s) \in Nat /\ Len(s) # 0
    BY <1>1, SeqDomain, SMT
  <1>3. \A i \in 1 .. Len(s) - 1 : i + 1 \in 1 .. Len(s) /\ i + 1 # 1
    BY <1>2, SMT
  <1>4. \A i \in 1 .. Len(s) : i = 1 \/ (i - 1 \in 1 .. Len(s) - 1 /\ (i - 1) + 1 = i)
    BY <1>2, SMT
  <1>5. IsInjective(r)
    <2>1. ASSUME NEW i \in 1 .. Len(s) - 1, NEW j \in 1 .. Len(s) - 1, r[i] = r[j]
          PROVE  i = j
      <3>1. s[i + 1] = s[j + 1]
        BY <1>1, <2>1
      <3>2. i + 1 = j + 1
        BY <1>2, <1>3, <3>1 DEF IsInjective
      <3> QED
        BY <3>2, SMT
    <2> QED
      BY <1>2, <2>1 DEF IsInjective
  <1>6. Range(r) \subseteq Range(s) \ {Head(s)}
    BY <1>1, <1>2, <1>3, SMT DEF IsInjective, Range
  <1>7. Range(s) \ {Head(s)} \subseteq Range(r)
    <2>1. ASSUME NEW i \in 1 .. Len(s), s[i] # Head(s)
          PROVE  s[i] \in Range(r)
      <3>1. i # 1
        BY <1>1, <2>1
      <3>2. i - 1 \in DOMAIN r /\ r[i - 1] = s[i]
        BY <1>1, <1>2, <1>4, <3>1
      <3> QED
        BY <3>2 DEF Range
    <2> QED
      BY <1>2, <2>1 DEF Range
  <1>8. Head(s) \in Range(s)
    BY <1>1, <1>2, SMT DEF Range
  <1> QED
    BY <1>1, <1>5, <1>6, <1>7, <1>8 DEF r
-----------------------------------------------------------------------------
(* The inductive invariant *)

\* TypeOK in three parts: the fields of Pool and the tunnels, the users, and the
\* goroutines of the pool.
Fields ==
    /\ conns \subseteq Conns /\ idle \in Seq(Conns) /\ waiters \in Seq(Users)
    /\ closed \in BOOLEAN /\ pending \in Nat
    /\ dials \in 0 .. MaxDials /\ shut \subseteq 1 .. dials
    /\ marked \subseteq 1 .. dials /\ sick \subseteq 1 .. dials

Locals ==
    /\ pc \in [Users -> {"idle", "acquire", "dialing", "waiting", "timedOut", "done"}]
    /\ held \in [Users -> Conns \cup {None}] /\ released \in [Users -> BOOLEAN]
    /\ ch \in [Users -> [kind : {"empty", "conn", "closed"}, conn : Conns \cup {None}]]
    /\ saved \in [Users -> {"none", "set", "zero"}] /\ calls \in 0 .. MaxCalls /\ noWait \in BOOLEAN

Loops ==
    /\ start \in [pc : {"new", "dialing", "starting", "done"}, left : 0 .. MinConns]
    /\ health \in [pc : {"off", "tick", "deficit", "dialing", "stopped"}, left : 0 .. MinConns,
                  cancel : {"nil", "set", "called"}]
    /\ closer \in [pc : {"open", "waiting", "returned"}, conns : SUBSET Conns, duringStart : BOOLEAN]

Waiting == {"waiting", "timedOut"}

\* A user in an acquisition holds no handle, and only one that waits has a channel
\* with something in it.
UserInv ==
    /\ \A u \in Users : pc[u] \in {"acquire", "dialing"} \cup Waiting => released[u]
    /\ \A u \in Users : ch[u] # Empty => pc[u] \in Waiting
    /\ \A u \in Users : ch[u] \in {Empty, Shut} \cup {Handoff(c) : c \in 0 .. dials}

\* HandoffNeverBlocks, of the waiters as a set.
WaitInv ==
    /\ IsInjective(waiters)
    /\ \A v \in Range(waiters) : ch[v] = Empty /\ pc[v] \in Waiting

\* What is idle, in a handle or in a channel is a connection, each in one place.
OwnInv ==
    /\ IsInjective(idle) /\ Range(idle) \subseteq 1 .. dials
    /\ \A u \in Users : ~released[u] => held[u] \in (1 .. dials) \ Range(idle)
    /\ \A u \in Users : ch[u].conn # None => ch[u].conn \in (1 .. dials) \ Range(idle)
    /\ \A u, v \in Users : ~released[u] /\ ~released[v] /\ held[u] = held[v] => u = v
    /\ \A u, v \in Users : ch[u].conn # None /\ ch[u].conn = ch[v].conn => u = v
    /\ \A u, v \in Users : ~released[u] /\ ch[v].conn # None => held[u] # ch[v].conn

\* Every connection is in the pool, closed, or in the hands of Close, and only a Start
\* that was dialing adds to a closed pool.
CloseInv ==
    /\ closed <=> closer.pc # "open"
    /\ closed => waiters = << >>
    /\ closed /\ ~closer.duringStart => conns = {} /\ start.pc # "dialing"
    /\ closer.pc # "waiting" => closer.conns = {}
    /\ 1 .. dials \subseteq shut \cup conns \cup closer.conns
    /\ conns \subseteq 1 .. dials /\ closer.conns \subseteq 1 .. dials

Dialing == {u \in Users : pc[u] = "dialing"}

\* The dials that Start and the health checker may still make never add up.
DialInv ==
    /\ IsFiniteSet(Dialing) /\ pending = Cardinality(Dialing)
    /\ start.left # 0 => start.pc = "dialing"
    /\ health.left # 0 <=> health.pc = "dialing"
    /\ health.pc # "off" => start.pc = "done"

SizeInv ==
    MaxConns # 0 =>
        /\ pending <= MaxConns
        /\ start.pc = "new" => Cardinality(conns) + pending <= MaxConns
        /\ Cardinality(conns) + pending + start.left + health.left <= MaxConns + MinConns

IInv ==
    /\ Fields /\ Locals /\ Loops
    /\ UserInv /\ WaitInv /\ OwnInv /\ CloseInv /\ DialInv /\ SizeInv

(* What leaves the idle list when Acquire takes a connection: it, and what *)
(* lies above it.                                                          *)
LEMMA TakeFromIdle ==
    ASSUME Fields, IsInjective(idle)
    PROVE  /\ LastHealthy \in 0 .. Len(idle)
           /\ Discarded \subseteq Range(idle)
           /\ LastHealthy # 0 =>
                /\ idle[LastHealthy] \in Range(idle)
                /\ SubSeq(idle, 1, LastHealthy - 1) \in Seq(Conns)
                /\ IsInjective(SubSeq(idle, 1, LastHealthy - 1))
                /\ Range(SubSeq(idle, 1, LastHealthy - 1)) \subseteq Range(idle) \ {idle[LastHealthy]}
  <1>1. idle \in Seq(Conns) /\ DOMAIN idle = 1 .. Len(idle) /\ Len(idle) \in Nat
    BY SeqDomain DEF Fields
  <1> DEFINE T == {i \in 1 .. Len(idle) : isHealthy(idle[i])}
  <1>2. LastHealthy = IF T # {} THEN Max(T) ELSE 0
    BY DEF LastHealthy
  <1>3. T \in SUBSET (1 .. Len(idle))
    OBVIOUS
  <1> HIDE DEF T
  <1>4. LastHealthy \in 0 .. Len(idle)
    <2>1. T # {} => Max(T) \in T
      BY <1>1, <1>3, MinMaxOfPositions
    <2>2. T # {} => Max(T) \in 1 .. Len(idle)
      BY <1>3, <2>1
    <2> QED
      BY <1>1, <1>2, <2>2, SMT
  <1>5. Discarded \subseteq Range(idle)
    <2>1. ASSUME NEW i \in (LastHealthy + 1) .. Len(idle)
          PROVE  idle[i] \in Range(idle)
      <3>1. i \in DOMAIN idle
        BY <1>1, <1>4, SMT
      <3> QED
        BY <3>1 DEF Range
    <2> QED
      BY <2>1 DEF Discarded
  <1>6. ASSUME LastHealthy # 0
        PROVE  /\ idle[LastHealthy] \in Range(idle)
               /\ SubSeq(idle, 1, LastHealthy - 1) \in Seq(Conns)
               /\ IsInjective(SubSeq(idle, 1, LastHealthy - 1))
               /\ Range(SubSeq(idle, 1, LastHealthy - 1)) \subseteq Range(idle) \ {idle[LastHealthy]}
    <2> DEFINE k == LastHealthy
               r == SubSeq(idle, 1, k - 1)
    <2>1. k \in 1 .. Len(idle)
      BY <1>4, <1>6, SMT
    <2> HIDE DEF k
    <2>2. /\ r \in Seq(Conns) /\ Len(r) = k - 1 /\ \A i \in 1 .. k - 1 : r[i] = idle[i]
      BY <1>1, <2>1, SubSeqOfSeq, SMT
    <2> HIDE DEF r
    <2>3. DOMAIN r = 1 .. k - 1
      BY <2>2, SeqDomain
    <2>4. \A i \in 1 .. k - 1 : i \in DOMAIN idle /\ i # k
      BY <1>1, <2>1, SMT
    <2>5. IsInjective(r)
      BY <2>2, <2>3, <2>4 DEF IsInjective
    <2>6. idle[k] \in Range(idle)
      BY <1>1, <2>1 DEF Range
    <2>7. Range(r) \subseteq Range(idle) \ {idle[k]}
      BY <1>1, <2>1, <2>2, <2>3, <2>4 DEF IsInjective, Range
    <2> QED
      BY <2>2, <2>5, <2>6, <2>7 DEF k, r
  <1> QED
    BY <1>4, <1>5, <1>6

(* The waiter that wakeWaiterLocked wakes has an empty channel and is      *)
(* taken off the list.                                                     *)
LEMMA Wake ==
    ASSUME Fields, WaitInv, NEW c, wakeWaiterLocked(c)
    PROVE  \/ waiters = << >> /\ ch' = ch /\ waiters' = waiters
           \/ waiters # << >> /\ \E v \in Users :
                /\ ch[v] = Empty /\ pc[v] \in Waiting /\ ch' = [ch EXCEPT ![v] = Handoff(c)]
                /\ waiters' \in Seq(Users) /\ IsInjective(waiters')
                /\ Range(waiters') = Range(waiters) \ {v}
  <1>1. CASE waiters = << >>
    BY <1>1 DEF wakeWaiterLocked
  <1>2. CASE waiters # << >>
    <2> DEFINE v == Head(waiters)
    <2>1. /\ v \in Range(waiters) /\ v \in Users /\ Tail(waiters) \in Seq(Users)
          /\ IsInjective(Tail(waiters)) /\ Range(Tail(waiters)) = Range(waiters) \ {v}
      BY <1>2, TailOfList DEF Fields, WaitInv
    <2>2. ch' = [ch EXCEPT ![v] = Handoff(c)] /\ waiters' = Tail(waiters)
      BY <1>2 DEF wakeWaiterLocked
    <2>3. ch[v] = Empty /\ pc[v] \in Waiting
      BY <2>1 DEF WaitInv
    <2> HIDE DEF v
    <2> QED
      BY <1>2, <2>1, <2>2, <2>3
  <1> QED
    BY <1>1, <1>2
-----------------------------------------------------------------------------
(* The steps of a user *)

(* BeginAcquire keeps the invariant.                                       *)
LEMMA BeginAcquireKeeps ==
    ASSUME IInv, NEW u \in Users, BeginAcquire(u)
    PROVE  IInv'
  <1>1. /\ pc[u] = "idle" /\ released[u] /\ pc' = [pc EXCEPT ![u] = "acquire"]
        /\ UNCHANGED <<conns, idle, waiters, closed, pending, dials, shut, marked, sick,
                       held, released, ch, start, health, closer>>
    BY DEF BeginAcquire, lists, tunnels
  <1>2. Fields' /\ Loops' /\ OwnInv' /\ CloseInv' /\ SizeInv'
    BY <1>1 DEF IInv, Fields, Loops, OwnInv, CloseInv, SizeInv, Conns
  <1>3. Locals'
    <2>1. /\ saved' \in [Users -> {"none", "set", "zero"}] /\ calls' \in 0 .. MaxCalls
          /\ noWait' \in BOOLEAN
      <3>1. saved' \in [Users -> {"none", "set", "zero"}] /\ noWait' \in BOOLEAN
        BY DEF BeginAcquire, IInv, Locals
      <3>2. calls' \in 0 .. MaxCalls
        BY PoolAssumption, SMT DEF BeginAcquire, IInv, Locals
      <3> QED
        BY <3>1, <3>2
    <2> QED
      BY <1>1, <2>1 DEF IInv, Locals, Conns
  <1>4. UserInv'
    BY <1>1 DEF IInv, Locals, UserInv, Waiting
  <1>5. WaitInv'
    BY <1>1, SMT DEF IInv, Locals, WaitInv, Waiting
  <1>6. DialInv'
    <2>1. Dialing' = Dialing
      BY <1>1 DEF IInv, Locals, Dialing
    <2> QED
      BY <1>1, <2>1 DEF IInv, DialInv
  <1> QED
    BY <1>2, <1>3, <1>4, <1>5, <1>6 DEF IInv

(* A dial that was counted ends, and one that begins is counted.           *)
LEMMA DialingSet ==
    ASSUME Locals, DialInv, NEW u \in Users, NEW s, pc' = [pc EXCEPT ![u] = s]
    PROVE  /\ IsFiniteSet(Dialing')
           /\ Cardinality(Dialing') \in Nat
           /\ pc[u] # "dialing" /\ s # "dialing" => Cardinality(Dialing') = pending
           /\ pc[u] # "dialing" /\ s = "dialing" => Cardinality(Dialing') = pending + 1
           /\ pc[u] = "dialing" /\ s # "dialing" => Cardinality(Dialing') = pending - 1
  <1>1. /\ pc[u] # "dialing" /\ s # "dialing" => Dialing' = Dialing
        /\ s = "dialing" => Dialing' = Dialing \cup {u}
        /\ pc[u] = "dialing" /\ s # "dialing" => Dialing' = Dialing \ {u}
        /\ u \in Dialing <=> pc[u] = "dialing"
    BY DEF Locals, Dialing
  <1>2. IsFiniteSet(Dialing) /\ pending = Cardinality(Dialing)
    BY DEF DialInv
  <1>3. IsFiniteSet(Dialing')
    BY <1>1, <1>2, FS_AddElement, FS_RemoveElement
  <1> QED
    BY <1>1, <1>2, <1>3, FS_AddElement, FS_RemoveElement, FS_CardinalityType, SMT

(* A user that neither begins nor ends a dial leaves the count alone.      *)
LEMMA DialKept ==
    ASSUME Locals, DialInv, NEW u \in Users, NEW s, pc' = [pc EXCEPT ![u] = s],
           pc[u] # "dialing", s # "dialing", UNCHANGED <<pending, start, health>>
    PROVE  DialInv'
  <1>1. IsFiniteSet(Dialing') /\ Cardinality(Dialing') = pending
    BY DialingSet
  <1> QED
    BY <1>1 DEF DialInv

(* The connections of the pool can be counted, and so can a part of them.  *)
LEMMA ConnsFinite ==
    ASSUME Fields
    PROVE  /\ IsFiniteSet(conns) /\ Cardinality(conns) \in Nat
           /\ \A T \in SUBSET conns :
                 IsFiniteSet(T) /\ Cardinality(T) \in Nat /\ Cardinality(T) <= Cardinality(conns)
           /\ \A c : Cardinality(conns \cup {c}) \in Nat
                     /\ Cardinality(conns \cup {c}) <= Cardinality(conns) + 1
  <1>1. conns \in SUBSET (1 .. MaxDials) /\ IsFiniteSet(1 .. MaxDials)
    BY PoolAssumption, FS_Interval, SMT DEF Fields, Conns
  <1>2. IsFiniteSet(conns)
    BY <1>1, FS_Subset
  <1>3. Cardinality(conns) \in Nat
    BY <1>2, FS_CardinalityType
  <1>4. \A T \in SUBSET conns :
            IsFiniteSet(T) /\ Cardinality(T) \in Nat /\ Cardinality(T) <= Cardinality(conns)
    BY <1>2, FS_Subset, FS_CardinalityType
  <1>5. ASSUME NEW c
        PROVE  Cardinality(conns \cup {c}) \in Nat
               /\ Cardinality(conns \cup {c}) <= Cardinality(conns) + 1
    BY <1>2, <1>3, FS_AddElement, SMT
  <1> QED
    BY <1>2, <1>3, <1>4, <1>5

(* The numbers SizeInv adds.                                               *)
LEMMA LeftTypes ==
    ASSUME Loops
    PROVE  start.left \in Nat /\ health.left \in Nat
           /\ start.left <= MinConns /\ health.left <= MinConns /\ MinConns \in Nat /\ MaxConns \in Nat
  BY PoolAssumption, SMT DEF Loops

(* Connections that leave the pool do no harm to its bound.                *)
LEMMA SizeKept ==
    ASSUME Fields, Loops, SizeInv, conns' \in SUBSET conns, UNCHANGED <<pending, start, health>>
    PROVE  SizeInv'
  <1>1. /\ Cardinality(conns) \in Nat /\ Cardinality(conns') \in Nat
        /\ Cardinality(conns') <= Cardinality(conns) /\ pending \in Nat
    BY ConnsFinite DEF Fields
  <1> QED
    BY <1>1, LeftTypes, SMT DEF SizeInv

(* Acquire keeps the invariant.                                            *)
LEMMA AcquireKeeps ==
    ASSUME IInv, NEW u \in Users, Acquire(u)
    PROVE  IInv'
  <1>1. /\ pc[u] = "acquire" /\ released[u] /\ ch[u] = Empty /\ u \notin Range(waiters)
        /\ UNCHANGED <<closed, noWait, dials, marked, sick, saved, calls, start, health, closer>>
    BY DEF Acquire, IInv, UserInv, WaitInv, Waiting
  <1>2. Loops'
    BY <1>1 DEF IInv, Loops, Conns
  <1>3. /\ LastHealthy \in 0 .. Len(idle) /\ Discarded \subseteq Range(idle)
        /\ Discarded \subseteq 1 .. dials
    BY TakeFromIdle DEF IInv, OwnInv
  <1>4. CASE closed
    <2>1. /\ pc' = [pc EXCEPT ![u] = "done"]
          /\ UNCHANGED <<conns, idle, waiters, pending, shut, held, released, ch>>
      BY <1>4 DEF Acquire, Return
    <2>2. Fields' /\ OwnInv' /\ CloseInv' /\ SizeInv'
      BY <1>1, <2>1 DEF IInv, Fields, OwnInv, CloseInv, SizeInv, Conns
    <2>3. Locals' /\ UserInv' /\ WaitInv'
      BY <1>1, <2>1, SMT DEF IInv, Locals, UserInv, WaitInv, Waiting, Conns
    <2>4. DialInv'
      BY <1>1, <2>1, DialKept DEF IInv
    <2> QED
      BY <1>2, <2>2, <2>3, <2>4 DEF IInv
  <1>5. CASE ~closed
    <2> DEFINE left == conns \ Discarded
    <2>1. /\ conns' = left /\ shut' = shut \cup Discarded
      BY <1>5 DEF Acquire
    <2>2. IsFiniteSet(conns) /\ IsFiniteSet(left)
          /\ Cardinality(conns) \in Nat /\ Cardinality(left) \in Nat
          /\ Cardinality(left) <= Cardinality(conns)
      BY ConnsFinite DEF IInv
    <2>3. conns' \subseteq Conns /\ shut' \subseteq 1 .. dials
      BY <1>3, <2>1 DEF IInv, Fields
    <2>4. CloseInv'
      <3>1. 1 .. dials \subseteq shut' \cup conns' \cup closer.conns
        BY <2>1 DEF IInv, CloseInv
      <3> QED
        BY <1>1, <1>5, <2>1, <3>1 DEF IInv, CloseInv
    <2>5. CASE LastHealthy # 0
      <3> DEFINE c == idle[LastHealthy]
      <3>1. /\ idle' = SubSeq(idle, 1, LastHealthy - 1)
            /\ held' = [held EXCEPT ![u] = c] /\ released' = [released EXCEPT ![u] = FALSE]
            /\ pc' = [pc EXCEPT ![u] = "done"]
            /\ UNCHANGED <<waiters, pending, ch>>
        BY <1>5, <2>5 DEF Acquire, Handle, Return
      <3>2. /\ c \in Range(idle) /\ idle' \in Seq(Conns) /\ IsInjective(idle')
            /\ Range(idle') \subseteq Range(idle) \ {c}
        BY <2>5, <3>1, TakeFromIdle DEF IInv, OwnInv
      <3>3. c \in 1 .. dials /\ c \in Conns
        <4>1. c \in 1 .. dials
          BY <3>2 DEF IInv, OwnInv
        <4> HIDE DEF c
        <4> QED
          BY <4>1, PoolAssumption, SMT DEF IInv, Fields, Conns
      <3> HIDE DEF c
      <3>4. Fields'
        BY <1>1, <2>3, <3>1, <3>2 DEF IInv, Fields, Conns
      <3>5. Locals'
        BY <1>1, <3>1, <3>3 DEF IInv, Locals, Conns
      <3>6. UserInv' /\ WaitInv'
        BY <1>1, <3>1, SMT DEF IInv, Locals, UserInv, WaitInv, Waiting
      <3>7. OwnInv'
        BY <1>1, <3>1, <3>2, <3>3, SMT DEF IInv, Locals, OwnInv
      <3>8. DialInv'
        BY <1>1, <3>1, DialKept DEF IInv
      <3>9. SizeInv'
        BY <1>1, <2>1, <3>1, SizeKept DEF IInv
      <3> QED
        BY <1>2, <2>4, <3>4, <3>5, <3>6, <3>7, <3>8, <3>9 DEF IInv
    <2>6. CASE LastHealthy = 0
      <3>1. idle' = << >> /\ UNCHANGED <<held, released>>
        BY <1>5, <2>6 DEF Acquire
      <3>2. idle' \in Seq(Conns) /\ IsInjective(idle') /\ Range(idle') = {}
        BY <3>1, SMT DEF IsInjective, Range
      <3>3. CASE HasSlot(Cardinality(left)) /\ pending' = pending + 1
                 /\ pc' = [pc EXCEPT ![u] = "dialing"] /\ UNCHANGED <<waiters, ch>>
        <4>1. Fields'
          BY <1>1, <2>3, <3>2, <3>3, SMT DEF IInv, Fields, Conns
        <4>2. Locals' /\ UserInv' /\ WaitInv'
          BY <1>1, <3>1, <3>3, SMT DEF IInv, Locals, UserInv, WaitInv, Waiting, Conns
        <4>3. OwnInv'
          BY <1>1, <3>1, <3>2, <3>3 DEF IInv, OwnInv
        <4>4. DialInv'
          BY <1>1, <3>3, DialingSet DEF IInv, DialInv
        <4>5. SizeInv'
          <5>1. /\ pending \in Nat
                /\ start.left = 0 \/ health.left = 0
                /\ MaxConns # 0 => Cardinality(left) + pending < MaxConns
            BY <3>3 DEF IInv, Fields, DialInv, HasSlot
          <5> HIDE DEF left
          <5> QED
            BY <1>1, <2>1, <2>2, <3>3, <5>1, LeftTypes, SMT DEF IInv, SizeInv
        <4> QED
          BY <1>2, <2>4, <4>1, <4>2, <4>3, <4>4, <4>5 DEF IInv
      <3>4. CASE pc' = [pc EXCEPT ![u] = "done"] /\ UNCHANGED <<waiters, pending, ch>>
        <4>1. Fields'
          BY <1>1, <2>3, <3>2, <3>4 DEF IInv, Fields, Conns
        <4>2. Locals' /\ UserInv' /\ WaitInv'
          BY <1>1, <3>1, <3>4, SMT DEF IInv, Locals, UserInv, WaitInv, Waiting, Conns
        <4>3. OwnInv'
          BY <1>1, <3>1, <3>2, <3>4 DEF IInv, OwnInv
        <4>4. DialInv'
          BY <1>1, <3>4, DialKept DEF IInv
        <4>5. SizeInv'
          BY <1>1, <2>1, <3>4, SizeKept DEF IInv
        <4> QED
          BY <1>2, <2>4, <4>1, <4>2, <4>3, <4>4, <4>5 DEF IInv
      <3>5. CASE /\ waiters' = Append(waiters, u) /\ ch' = [ch EXCEPT ![u] = Empty]
                 /\ pc' = [pc EXCEPT ![u] = "waiting"] /\ UNCHANGED pending
        <4>1. /\ waiters' \in Seq(Users) /\ IsInjective(waiters')
              /\ Range(waiters') = Range(waiters) \cup {u}
          BY <1>1, <3>5, AppendToList, SMT DEF IInv, Fields, WaitInv
        <4>2. ch' = ch
          BY <1>1, <3>5 DEF IInv, Locals
        <4>3. Fields'
          BY <1>1, <2>3, <3>2, <3>5, <4>1 DEF IInv, Fields, Conns
        <4>4. Locals' /\ UserInv'
          BY <1>1, <3>1, <3>5, <4>2 DEF IInv, Locals, UserInv, Waiting, Conns
        <4>5. WaitInv'
          BY <1>1, <3>5, <4>1, <4>2, SMT DEF IInv, Locals, WaitInv, Waiting
        <4>6. OwnInv'
          BY <1>1, <3>1, <3>2, <4>2 DEF IInv, OwnInv
        <4>7. DialInv'
          BY <1>1, <3>5, DialKept DEF IInv
        <4>8. SizeInv'
          BY <1>1, <2>1, <3>5, SizeKept DEF IInv
        <4> QED
          BY <1>2, <2>4, <4>3, <4>4, <4>5, <4>6, <4>7, <4>8 DEF IInv
      <3> QED
        BY <1>5, <2>6, <3>3, <3>4, <3>5 DEF Acquire, Reserve, Return
    <2> QED
      BY <2>5, <2>6
  <1> QED
    BY <1>4, <1>5

(* A waiter is woken: what the invariant says of users, channels and       *)
(* owners stays true when the connection it gets has no other place.       *)
LEMMA WakeKeeps ==
    ASSUME Fields, Locals, UserInv, WaitInv, NEW c \in 0 .. dials, wakeWaiterLocked(c)
    PROVE  /\ waiters' \in Seq(Users) /\ IsInjective(waiters') /\ Range(waiters') \subseteq Range(waiters)
           /\ waiters = << >> => waiters' = << >>
           /\ ch' \in [Users -> [kind : {"empty", "conn", "closed"}, conn : Conns \cup {None}]]
           /\ \A v \in Users : ch'[v] = ch[v] \/ (ch'[v] = Handoff(c) /\ pc[v] \in Waiting)
           /\ \A v \in Range(waiters') : ch'[v] = Empty /\ pc[v] \in Waiting
           /\ \A v, w \in Users : ch'[v] # ch[v] /\ ch'[w] # ch[w] => v = w
  <1>1. CASE waiters = << >> /\ ch' = ch /\ waiters' = waiters
    BY <1>1 DEF Fields, Locals, WaitInv
  <1>2. CASE waiters # << >> /\ \E v \in Users :
                /\ ch[v] = Empty /\ pc[v] \in Waiting /\ ch' = [ch EXCEPT ![v] = Handoff(c)]
                /\ waiters' \in Seq(Users) /\ IsInjective(waiters')
                /\ Range(waiters') = Range(waiters) \ {v}
    <2>1. PICK v \in Users :
                /\ ch[v] = Empty /\ pc[v] \in Waiting /\ ch' = [ch EXCEPT ![v] = Handoff(c)]
                /\ waiters' \in Seq(Users) /\ IsInjective(waiters')
                /\ Range(waiters') = Range(waiters) \ {v}
      BY <1>2
    <2>2. c \in Conns \cup {None}
      BY PoolAssumption, SMT DEF Fields, Conns, None
    <2>3. Handoff(c) \in [kind : {"empty", "conn", "closed"}, conn : Conns \cup {None}]
      BY <2>2 DEF Handoff
    <2>4. ch' \in [Users -> [kind : {"empty", "conn", "closed"}, conn : Conns \cup {None}]]
      BY <2>1, <2>3 DEF Locals
    <2>5. Range(waiters') \subseteq Users
      BY <2>1, SeqDomain, SMT DEF Range
    <2>6. \A w \in Users : w # v => ch'[w] = ch[w]
      BY <2>1 DEF Locals
    <2>7. ch'[v] = Handoff(c)
      BY <2>1 DEF Locals
    <2>8. \A w \in Range(waiters') : ch'[w] = Empty /\ pc[w] \in Waiting
      BY <2>1, <2>5, <2>6 DEF WaitInv
    <2> QED
      BY <1>2, <2>1, <2>4, <2>6, <2>7, <2>8
  <1> QED
    BY <1>1, <1>2, Wake

(* FinishDial keeps the invariant.                                         *)
LEMMA FinishDialKeeps ==
    ASSUME IInv, NEW u \in Users, FinishDial(u)
    PROVE  IInv'
  <1>1. /\ pc[u] = "dialing" /\ released[u] /\ ch[u] = Empty /\ u \notin Range(waiters)
        /\ pending' = pending - 1 /\ pc' = [pc EXCEPT ![u] = "done"]
        /\ UNCHANGED <<idle, closed, noWait, marked, sick, saved, calls, start, health, closer>>
    BY DEF FinishDial, Return, IInv, UserInv, WaitInv, Waiting
  <1>2. Loops'
    BY <1>1 DEF IInv, Loops, Conns
  <1>3. DialInv' /\ pending' \in Nat /\ pending \in Nat
    BY <1>1, DialingSet DEF IInv, DialInv, Fields
  <1>4. /\ \A v \in Users : v # u => pc'[v] = pc[v]
        /\ pc'[u] = "done"
        /\ pc' \in [Users -> {"idle", "acquire", "dialing", "waiting", "timedOut", "done"}]
    BY <1>1 DEF IInv, Locals
  <1>5. CASE DialFails /\ wakeWaiterLocked(None) /\ UNCHANGED <<conns, shut, held, released>>
    <2>1. /\ waiters' \in Seq(Users) /\ IsInjective(waiters') /\ Range(waiters') \subseteq Range(waiters)
          /\ waiters = << >> => waiters' = << >>
          /\ ch' \in [Users -> [kind : {"empty", "conn", "closed"}, conn : Conns \cup {None}]]
          /\ \A v \in Users : ch'[v] = ch[v] \/ (ch'[v] = Handoff(None) /\ pc[v] \in Waiting)
          /\ \A v \in Range(waiters') : ch'[v] = Empty /\ pc[v] \in Waiting
      <3>1. None \in 0 .. dials
        BY SMT DEF IInv, Fields, None
      <3> QED
        BY <1>5, <3>1, WakeKeeps DEF IInv
    <2>2. dials' = dials
      BY <1>5 DEF DialFails
    <2>3. Fields' /\ CloseInv'
      BY <1>1, <1>3, <1>5, <2>1, <2>2 DEF IInv, Fields, CloseInv, Conns
    <2>4. Locals'
      BY <1>1, <1>4, <1>5, <2>1 DEF IInv, Locals, Conns
    <2>5. UserInv'
      <3>1. Handoff(None) \in {Handoff(c) : c \in 0 .. dials}
        BY SMT DEF IInv, Fields, None
      <3> HIDE DEF None
      <3>2. \A v \in Users : ch'[v] \in {Empty, Shut} \cup {Handoff(c) : c \in 0 .. dials}
        BY <2>1, <3>1 DEF IInv, UserInv
      <3>3. \A v \in Users : ch'[v] # Empty => pc'[v] \in Waiting
        BY <1>1, <1>4, <2>1, SMT DEF IInv, UserInv, Empty, Handoff, Waiting
      <3> QED
        BY <1>4, <1>5, <2>2, <3>2, <3>3 DEF IInv, UserInv, Waiting
    <2>6. WaitInv'
      BY <1>1, <1>4, <2>1, SMT DEF IInv, WaitInv
    <2>7. OwnInv'
      <3>1. \A v \in Users : ch'[v].conn # None => ch'[v].conn = ch[v].conn
        BY <2>1, SMT DEF Handoff
      <3> QED
        BY <1>1, <1>5, <2>2, <3>1, SMT DEF IInv, OwnInv
    <2>8. SizeInv'
      BY <1>1, <1>3, <1>5, LeftTypes, ConnsFinite, SMT DEF IInv, SizeInv
    <2> QED
      BY <1>2, <1>3, <2>3, <2>4, <2>5, <2>6, <2>7, <2>8 DEF IInv
  <1>6. CASE DialSucceeds /\ closed /\ DiscardDialed /\ UNCHANGED <<conns, waiters, ch, held, released>>
    <2>1. dials' = dials + 1 /\ dials' \in 0 .. MaxDials /\ dials \in Nat /\ shut' = shut \cup {dials + 1}
      BY <1>6, PoolAssumption, SMT DEF DialSucceeds, DiscardDialed, IInv, Fields
    <2>2. 1 .. dials' = (1 .. dials) \cup {dials + 1}
      BY <2>1, SMT
    <2>3. Fields'
      BY <1>1, <1>3, <1>6, <2>1, <2>2 DEF IInv, Fields, Conns
    <2>4. CloseInv'
      BY <1>1, <1>6, <2>1, <2>2 DEF IInv, CloseInv
    <2>5. Locals' /\ WaitInv'
      BY <1>1, <1>4, <1>6, SMT DEF IInv, Locals, WaitInv, Conns
    <2>6. UserInv'
      BY <1>1, <1>4, <1>6, <2>1, SMT DEF IInv, UserInv, Waiting
    <2>7. OwnInv'
      BY <1>1, <1>6, <2>2 DEF IInv, OwnInv
    <2>8. SizeInv'
      BY <1>1, <1>3, <1>6, LeftTypes, ConnsFinite, SMT DEF IInv, SizeInv
    <2> QED
      BY <1>2, <1>3, <2>3, <2>4, <2>5, <2>6, <2>7, <2>8 DEF IInv
  <1>7. CASE /\ DialSucceeds /\ ~closed /\ conns' = conns \cup {dials + 1}
             /\ Handle(u, dials + 1) /\ UNCHANGED <<waiters, ch, shut>>
    <2> DEFINE c == dials + 1
    <2>1. dials' = c /\ dials' \in 0 .. MaxDials /\ dials \in Nat /\ c \in Conns
      BY <1>7, PoolAssumption, SMT DEF DialSucceeds, IInv, Fields, Conns
    <2>2. 1 .. dials' = (1 .. dials) \cup {c} /\ c \notin 1 .. dials
      BY <2>1, SMT
    <2>3. held' = [held EXCEPT ![u] = c] /\ released' = [released EXCEPT ![u] = FALSE]
      BY <1>7 DEF Handle
    <2>4. UserInv'
      BY <1>1, <1>4, <1>7, <2>1, <2>3, SMT DEF IInv, Locals, UserInv, Waiting
    <2>5. SizeInv'
      <3>1. Cardinality(conns') \in Nat /\ Cardinality(conns') <= Cardinality(conns) + 1
            /\ Cardinality(conns) \in Nat
        BY <1>7, ConnsFinite DEF IInv
      <3> QED
        BY <1>1, <1>3, <3>1, LeftTypes, SMT DEF IInv, SizeInv
    <2> HIDE DEF c
    <2>6. Fields'
      BY <1>1, <1>3, <1>7, <2>1, <2>2 DEF IInv, Fields, Conns, c
    <2>7. CloseInv'
      BY <1>1, <1>7, <2>1, <2>2 DEF IInv, CloseInv, c
    <2>8. Locals'
      BY <1>1, <1>4, <1>7, <2>1, <2>3 DEF IInv, Locals, Conns
    <2>9. WaitInv'
      BY <1>1, <1>4, <1>7, SMT DEF IInv, WaitInv
    <2>10. OwnInv'
      BY <1>1, <1>7, <2>2, <2>3, SMT DEF IInv, Locals, OwnInv
    <2> QED
      BY <1>2, <1>3, <2>4, <2>5, <2>6, <2>7, <2>8, <2>9, <2>10 DEF IInv
  <1> QED
    BY <1>5, <1>6, <1>7 DEF FinishDial

(* A connection that removeConnLocked takes out of the pool, and that is   *)
(* closed.                                                                 *)
LEMMA RemoveKeeps ==
    ASSUME Fields, Loops, OwnInv, CloseInv, SizeInv, NEW c \in 1 .. dials, removeConnLocked(c),
           shut' = shut \cup {c}, UNCHANGED <<closed, dials, pending, start, health, closer>>,
           closed => waiters' = << >>
    PROVE  /\ conns' \subseteq Conns /\ idle' \in Seq(Conns) /\ shut' \subseteq 1 .. dials
           /\ IsInjective(idle') /\ Range(idle') = Range(idle) \ {c}
           /\ CloseInv' /\ SizeInv'
  <1>1. conns' = conns \ {c} /\ idle' = RemoveFirst(idle, c)
    BY DEF removeConnLocked
  <1>2. idle' \in Seq(Conns) /\ IsInjective(idle') /\ Range(idle') = Range(idle) \ {c}
    BY <1>1, RemoveFirstFromList DEF Fields, OwnInv
  <1>3. conns' \in SUBSET conns /\ shut' \subseteq 1 .. dials
    BY <1>1 DEF Fields
  <1>4. SizeInv'
    BY <1>3, SizeKept
  <1>5. 1 .. dials' \subseteq shut' \cup conns' \cup closer'.conns
    BY <1>1 DEF CloseInv
  <1>6. CloseInv'
    BY <1>3, <1>5 DEF CloseInv
  <1> QED
    BY <1>2, <1>3, <1>4, <1>6 DEF Fields

(* WaitResult keeps the invariant.                                         *)
LEMMA WaitResultKeeps ==
    ASSUME IInv, NEW u \in Users, WaitResult(u)
    PROVE  IInv'
  <1> DEFINE c == ch[u].conn
  <1>1. /\ pc[u] = "waiting" /\ released[u] /\ ch[u] # Empty /\ u \notin Range(waiters)
        /\ ch' = [ch EXCEPT ![u] = Empty]
        /\ UNCHANGED <<waiters, closed, pending, noWait, dials, marked, sick, saved, calls,
                       start, health, closer>>
    BY DEF WaitResult, IInv, UserInv, WaitInv, Waiting
  <1>2. Loops'
    BY <1>1 DEF IInv, Loops, Conns
  <1>3. /\ \A v \in Users : v # u => ch'[v] = ch[v]
        /\ ch'[u] = Empty
        /\ ch' \in [Users -> [kind : {"empty", "conn", "closed"}, conn : Conns \cup {None}]]
    BY <1>1 DEF IInv, Locals, Empty
  <1>4. Range(waiters) \subseteq Users
    BY SeqDomain, SMT DEF IInv, Fields, Range
  <1>5. ASSUME NEW s \in {"acquire", "done"}, pc' = [pc EXCEPT ![u] = s]
        PROVE  /\ DialInv' /\ WaitInv'
               /\ \A v \in Users : v # u => pc'[v] = pc[v]
               /\ pc'[u] = s
               /\ pc' \in [Users -> {"idle", "acquire", "dialing", "waiting", "timedOut", "done"}]
    <2>1. DialInv'
      BY <1>1, <1>5, DialKept DEF IInv
    <2>2. /\ \A v \in Users : v # u => pc'[v] = pc[v]
          /\ pc'[u] = s
          /\ pc' \in [Users -> {"idle", "acquire", "dialing", "waiting", "timedOut", "done"}]
      BY <1>5 DEF IInv, Locals
    <2>3. WaitInv'
      BY <1>1, <1>3, <1>4, <2>2 DEF IInv, WaitInv
    <2> QED
      BY <2>1, <2>2, <2>3
  <1>6. CASE \E s \in {"acquire", "done"} :
                pc' = [pc EXCEPT ![u] = s] /\ UNCHANGED <<conns, idle, shut, held, released>>
    <2>1. PICK s \in {"acquire", "done"} :
                pc' = [pc EXCEPT ![u] = s] /\ UNCHANGED <<conns, idle, shut, held, released>>
      BY <1>6
    <2>2. Fields' /\ CloseInv' /\ SizeInv'
      BY <1>1, <2>1 DEF IInv, Fields, CloseInv, SizeInv, Conns
    <2>3. Locals'
      BY <1>1, <1>3, <1>5, <2>1 DEF IInv, Locals, Conns
    <2>4. UserInv'
      BY <1>1, <1>3, <1>5, <2>1 DEF IInv, UserInv, Waiting
    <2>5. OwnInv'
      BY <1>1, <1>3, <2>1, SMT DEF IInv, OwnInv, Empty
    <2> QED
      BY <1>2, <1>5, <2>1, <2>2, <2>3, <2>4, <2>5 DEF IInv
  <1>7. CASE /\ c # None /\ removeConnLocked(c) /\ shut' = shut \cup {c}
             /\ pc' = [pc EXCEPT ![u] = "acquire"] /\ UNCHANGED <<held, released>>
    <2>1. c \in 1 .. dials
      BY <1>7 DEF IInv, OwnInv
    <2> HIDE DEF c
    <2>2. /\ conns' \subseteq Conns /\ idle' \in Seq(Conns) /\ shut' \subseteq 1 .. dials
          /\ IsInjective(idle') /\ Range(idle') = Range(idle) \ {c}
          /\ CloseInv' /\ SizeInv'
      <3>1. closed => waiters' = << >>
        BY <1>1 DEF IInv, CloseInv
      <3> QED
        BY <1>1, <1>7, <2>1, <3>1, RemoveKeeps DEF IInv
    <2>3. Fields'
      BY <1>1, <2>2 DEF IInv, Fields, Conns
    <2>4. Locals'
      BY <1>1, <1>3, <1>5, <1>7 DEF IInv, Locals, Conns
    <2>5. UserInv'
      BY <1>1, <1>3, <1>5, <1>7 DEF IInv, UserInv, Waiting
    <2>6. OwnInv'
      BY <1>1, <1>3, <1>7, <2>2, SMT DEF IInv, OwnInv, Empty
    <2> QED
      BY <1>2, <1>5, <1>7, <2>2, <2>3, <2>4, <2>5, <2>6 DEF IInv
  <1>8. CASE /\ c # None /\ Handle(u, c)
             /\ pc' = [pc EXCEPT ![u] = "done"] /\ UNCHANGED <<conns, idle, shut>>
    <2>1. c \in 1 .. dials /\ c \in Conns
      <3>1. c \in 1 .. dials
        BY <1>8 DEF IInv, OwnInv
      <3> HIDE DEF c
      <3> QED
        BY <3>1, PoolAssumption, SMT DEF IInv, Fields, Conns
    <2>2. held' = [held EXCEPT ![u] = c] /\ released' = [released EXCEPT ![u] = FALSE]
      BY <1>8 DEF Handle
    <2>3. Fields' /\ CloseInv' /\ SizeInv'
      BY <1>1, <1>8 DEF IInv, Fields, CloseInv, SizeInv, Conns
    <2>4. /\ \A v \in Users : v # u => held'[v] = held[v] /\ released'[v] = released[v]
          /\ held'[u] = c /\ released'[u] = FALSE
      BY <2>2 DEF IInv, Locals
    <2>5. OwnInv'
      <3>1. /\ c \in (1 .. dials) \ Range(idle)
            /\ \A v \in Users : v # u => ch[v].conn # c
            /\ \A v \in Users : ~released[v] => held[v] # c
        BY <1>8 DEF IInv, OwnInv
      <3>2. \A v \in Users : ch'[v].conn # None => v # u /\ ch'[v] = ch[v]
        BY <1>3, SMT DEF Empty
      <3>3. OwnInv /\ UNCHANGED <<idle, dials>>
        BY <1>1, <1>8 DEF IInv
      <3> HIDE DEF c
      <3>4. /\ IsInjective(idle') /\ Range(idle') \subseteq 1 .. dials'
            /\ \A v \in Users : ~released'[v] => held'[v] \in (1 .. dials') \ Range(idle')
            /\ \A v \in Users : ch'[v].conn # None => ch'[v].conn \in (1 .. dials') \ Range(idle')
        BY <2>4, <3>1, <3>2, <3>3 DEF OwnInv
      <3>5. \A v, w \in Users : ~released'[v] /\ ~released'[w] /\ held'[v] = held'[w] => v = w
        BY <2>4, <3>1, <3>3, SMT DEF OwnInv
      <3>6. \A v, w \in Users : ch'[v].conn # None /\ ch'[v].conn = ch'[w].conn => v = w
        BY <3>2, <3>3 DEF OwnInv
      <3>7. \A v, w \in Users : ~released'[v] /\ ch'[w].conn # None => held'[v] # ch'[w].conn
        BY <2>4, <3>1, <3>2, <3>3, SMT DEF OwnInv
      <3> QED
        BY <3>4, <3>5, <3>6, <3>7 DEF OwnInv
    <2>6. UserInv'
      BY <1>1, <1>3, <1>5, <1>8, <2>4, SMT DEF IInv, UserInv, Waiting
    <2> HIDE DEF c
    <2>7. Locals'
      BY <1>1, <1>3, <1>5, <1>8, <2>1, <2>2 DEF IInv, Locals, Conns
    <2> QED
      BY <1>2, <1>5, <1>8, <2>3, <2>5, <2>6, <2>7 DEF IInv
  <1> QED
    BY <1>6, <1>7, <1>8 DEF WaitResult, Return

(* WaitTimeout keeps the invariant.                                        *)
LEMMA WaitTimeoutKeeps ==
    ASSUME IInv, NEW u \in Users, WaitTimeout(u)
    PROVE  IInv'
  <1>1. /\ pc[u] = "waiting" /\ pc' = [pc EXCEPT ![u] = "timedOut"]
        /\ UNCHANGED <<conns, idle, waiters, closed, pending, noWait, dials, shut, marked, sick,
                       held, released, ch, saved, calls, start, health, closer>>
    BY DEF WaitTimeout, lists, tunnels
  <1>2. Fields' /\ Loops' /\ OwnInv' /\ CloseInv' /\ SizeInv'
    BY <1>1 DEF IInv, Fields, Loops, OwnInv, CloseInv, SizeInv, Conns
  <1>3. Locals' /\ UserInv' /\ WaitInv'
    BY <1>1, SMT DEF IInv, Locals, UserInv, WaitInv, Waiting, Conns
  <1>4. DialInv'
    BY <1>1, DialKept DEF IInv
  <1> QED
    BY <1>2, <1>3, <1>4 DEF IInv

(* handleWaitTimeout keeps the invariant.                                  *)
LEMMA handleWaitTimeoutKeeps ==
    ASSUME IInv, NEW u \in Users, handleWaitTimeout(u)
    PROVE  IInv'
  <1>1. /\ pc[u] = "timedOut" /\ pc' = [pc EXCEPT ![u] = "done"]
        /\ waiters' = RemoveFirst(waiters, u) /\ ch' = [ch EXCEPT ![u] = Empty]
        /\ UNCHANGED <<conns, idle, closed, pending, noWait, dials, shut, marked, sick,
                       held, released, saved, calls, start, health, closer>>
    BY DEF handleWaitTimeout, Return, tunnels
  <1>2. /\ waiters' \in Seq(Users) /\ IsInjective(waiters') /\ Range(waiters') = Range(waiters) \ {u}
    BY <1>1, RemoveFirstFromList DEF IInv, Fields, WaitInv
  <1>3. Range(waiters) \subseteq Users
    BY SeqDomain, SMT DEF IInv, Fields, Range
  <1>4. /\ \A v \in Users : v # u => ch'[v] = ch[v] /\ pc'[v] = pc[v]
        /\ ch'[u] = Empty /\ pc'[u] = "done"
    BY <1>1 DEF IInv, Locals
  <1>5. Fields' /\ Loops' /\ SizeInv'
    BY <1>1, <1>2 DEF IInv, Fields, Loops, SizeInv, Conns
  <1>6. CloseInv'
    <2>1. waiters = << >> => waiters' = << >>
      BY <1>1, SMT DEF RemoveFirst
    <2> QED
      BY <1>1, <2>1 DEF IInv, CloseInv
  <1>7. Locals'
    BY <1>1 DEF IInv, Locals, Empty, Conns
  <1>8. UserInv'
    BY <1>1, <1>4 DEF IInv, UserInv, Waiting
  <1>9. WaitInv'
    BY <1>2, <1>3, <1>4 DEF IInv, WaitInv
  <1>10. OwnInv'
    BY <1>1, <1>4, SMT DEF IInv, OwnInv, Empty
  <1>11. DialInv'
    BY <1>1, DialKept DEF IInv
  <1> QED
    BY <1>5, <1>6, <1>7, <1>8, <1>9, <1>10, <1>11 DEF IInv

(* EndAcquire keeps the invariant.                                         *)
LEMMA EndAcquireKeeps ==
    ASSUME IInv, NEW u \in Users, EndAcquire(u)
    PROVE  IInv'
  <1>1. /\ pc[u] = "done" /\ pc' = [pc EXCEPT ![u] = "idle"]
        /\ noWait' = (IF saved[u] = "none" THEN noWait ELSE saved[u] = "zero")
        /\ saved' = [saved EXCEPT ![u] = "none"]
        /\ UNCHANGED <<conns, idle, waiters, closed, pending, dials, shut, marked, sick,
                       held, released, ch, calls, start, health, closer>>
    BY DEF EndAcquire, lists, tunnels
  <1>2. Fields' /\ Loops' /\ OwnInv' /\ CloseInv' /\ SizeInv'
    BY <1>1 DEF IInv, Fields, Loops, OwnInv, CloseInv, SizeInv, Conns
  <1>3. noWait' \in BOOLEAN
    BY <1>1 DEF IInv, Locals
  <1>4. Locals' /\ UserInv' /\ WaitInv'
    BY <1>1, <1>3, SMT DEF IInv, Locals, UserInv, WaitInv, Waiting, Conns
  <1>5. DialInv'
    BY <1>1, DialKept DEF IInv
  <1> QED
    BY <1>2, <1>4, <1>5 DEF IInv
=============================================================================
