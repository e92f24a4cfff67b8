---------------------------- MODULE Reassembler -----------------------------
(***************************************************************************)
(* The reassembly of handshake and rekey messages from datagrams           *)
(* (pkg/tunnel/reassembly.go) and their fragmentation                      *)
(* (pkg/tunnel/dgram_handshake.go).  The network delivers the fragments of *)
(* the messages that the peers send in any order, any number of times, or  *)
(* not at all.                                                             *)
(*                                                                         *)
(* A message is its source, its key (sender index and message type), its   *)
(* total length and an identity; the unit of length stands for a run of    *)
(* bytes that no fragment boundary splits.  A buffer keeps, for each unit, *)
(* the message that wrote it, and its age in place of its creation time.   *)
(***************************************************************************)
EXTENDS Naturals, Sequences, FiniteSets, SequencesExt, Functions, TLC

CONSTANTS None,
          Messages,         \* what peers send: [src, key, total, id]
          FragmentSizes,    \* room for a fragment, without and with a cookie
          MaxSources,       \* sources reassembling at once (maxHalfOpen)
          MaxConcurrent,    \* messages in progress per source (4)
          MaxMessageSize,   \* (4096 bytes)
          Timeout           \* age past which a buffer is evicted (10 s)

ASSUME ReassemblerAssumption ==
    /\ FragmentSizes \subseteq Nat \ {0}
    /\ \A m \in Messages : m.total \in Nat \ {0}
    /\ {MaxSources, MaxConcurrent, MaxMessageSize, Timeout} \subseteq Nat \ {0}

VARIABLES bySource,    \* a source's buffers, by key
          out          \* what the last Add returned: a message, or None

vars == <<bySource, out>>

-----------------------------------------------------------------------------
(* Sending *)

\* The fragments of a message, each with the first and the last unit it carries.
fragmentHandshake(m, maxFrag) ==
    [i \in 1 .. (m.total + maxFrag - 1) \div maxFrag |->
       [msg |-> m, first |-> (i - 1) * maxFrag + 1,
        last |-> IF i * maxFrag < m.total THEN i * maxFrag ELSE m.total]]

Fragments == UNION {ToSet(fragmentHandshake(m, n)) : m \in Messages, n \in FragmentSizes}

-----------------------------------------------------------------------------
(* Receiving: the state is passed so that a series of calls can be followed *)

Keep(bufs, keys) == Restrict(bufs, keys)

evictExpiredLocked(st) ==
    LET live(s) == {k \in DOMAIN st[s] : st[s][k].age <= Timeout}
    IN [s \in {s \in DOMAIN st : live(s) # {}} |-> Keep(st[s], live(s))]

\* The map's order decides between buffers created at the same time.
Oldest(bufs) == {k \in DOMAIN bufs : \A j \in DOMAIN bufs : bufs[j].age <= bufs[k].age}

evictOldestLocked(bufs, victim) == Keep(bufs, DOMAIN bufs \ {victim})

NewBuffer(total) ==
    [total |-> total, buf |-> [i \in 1 .. total |-> None],
     covered |-> {}, coveredN |-> 0, age |-> 0]

(* As if a unit were counted each time it arrives. *)
CountAgain(fb, f) ==
    [fb EXCEPT !.buf = [i \in DOMAIN @ |-> IF i \in f.first .. f.last THEN f.msg.id ELSE @[i]],
               !.covered = @ \cup f.first .. f.last,
               !.coveredN = @ + Cardinality(f.first .. f.last)]

(* As if a fragment that overlaps what has arrived were a repeat. *)
DropOverlap(fb, f) ==
    IF fb.covered \cap f.first .. f.last # {} THEN fb
    ELSE [fb EXCEPT !.buf = [i \in DOMAIN @ |-> IF i \in f.first .. f.last THEN f.msg.id ELSE @[i]],
                    !.covered = @ \cup f.first .. f.last,
                    !.coveredN = @ + Cardinality(f.first .. f.last)]

\* The copy overwrites; a unit counts once.
fill(fb, f) ==
    [fb EXCEPT !.buf = [i \in DOMAIN @ |-> IF i \in f.first .. f.last THEN f.msg.id ELSE @[i]],
               !.covered = @ \cup f.first .. f.last,
               !.coveredN = @ + Cardinality((f.first .. f.last) \ fb.covered)]

Result(st, ret) == [st |-> st, ret |-> ret]

\* The fragment goes into the buffers of its source, which is admitted.
AddTo(st, bufs, f, victim) ==
    LET m == f.msg
        room == IF m.key \notin DOMAIN bufs /\ Cardinality(DOMAIN bufs) >= MaxConcurrent
                THEN evictOldestLocked(bufs, victim) ELSE bufs
        fb == fill(IF m.key \in DOMAIN bufs THEN bufs[m.key] ELSE NewBuffer(m.total), f)
        rest == Keep(room, DOMAIN room \ {m.key})
        left == IF rest = << >> THEN Keep(st, DOMAIN st \ {m.src}) ELSE (m.src :> rest) @@ st
    IN IF m.key \in DOMAIN bufs /\ bufs[m.key].total # m.total THEN Result(st, None)
       ELSE IF fb.coveredN < fb.total THEN Result((m.src :> (m.key :> fb @@ rest)) @@ st, None)
       ELSE Result(left, [src |-> m.src, key |-> m.key, total |-> m.total, buf |-> fb.buf])

\* victim: the buffer evicted if one has to be
Add(st, f, victim) ==
    LET live == evictExpiredLocked(st)
        known == f.msg.src \in DOMAIN live
    IN IF f.msg.total > MaxMessageSize THEN Result(st, None)
       ELSE IF ~known /\ Cardinality(DOMAIN live) >= MaxSources THEN Result(live, None)
       ELSE AddTo(live, IF known THEN live[f.msg.src] ELSE << >>, f, victim)

Victims(st, s) ==
    LET live == evictExpiredLocked(st)
    IN IF s \in DOMAIN live THEN Oldest(live[s]) ELSE {None}

-----------------------------------------------------------------------------

Init == bySource = << >> /\ out = None

Receive(f) ==
    \E victim \in Victims(bySource, f.msg.src) :
       LET r == Add(bySource, f, victim)
       IN bySource' = r.st /\ out' = r.ret

\* Ages past the timeout are alike.
Tick ==
    /\ \E s \in DOMAIN bySource : \E k \in DOMAIN bySource[s] : bySource[s][k].age <= Timeout
    /\ bySource' = [s \in DOMAIN bySource |->
                      [k \in DOMAIN bySource[s] |->
                         [bySource[s][k] EXCEPT !.age = IF @ <= Timeout THEN @ + 1 ELSE @]]]
    /\ out' = None

Next == Tick \/ \E f \in Fragments : Receive(f)

Spec == Init /\ [][Next]_vars

-----------------------------------------------------------------------------
(* Properties *)

(* What reassembly keeps before a peer is authenticated is bounded: the    *)
(* sources, the messages of each, and no source or buffer that is empty or *)
(* complete is kept; a buffer counts the units it has.                     *)
Bounded ==
    /\ Cardinality(DOMAIN bySource) <= MaxSources
    /\ \A s \in DOMAIN bySource :
          /\ Cardinality(DOMAIN bySource[s]) \in 1 .. MaxConcurrent
          /\ \A k \in DOMAIN bySource[s] :
                LET fb == bySource[s][k]
                IN /\ fb.total \in 1 .. MaxMessageSize /\ fb.covered \subseteq 1 .. fb.total
                   /\ fb.covered # {} /\ fb.covered # 1 .. fb.total

(* A message that is delivered has no hole: each of its units was written  *)
(* by a message of the same source, key and length, however the fragments  *)
(* overlapped (a resent hello with a cookie is cut at other places).       *)
NoHoles ==
    out # None =>
       \A i \in 1 .. out.total :
          \E m \in Messages : /\ m.id = out.buf[i] /\ m.src = out.src
                              /\ m.key = out.key /\ m.total = out.total

Intact(r, m) ==
    r # None /\ r.src = m.src /\ r.key = m.key /\ \A i \in 1 .. m.total : r.buf[i] = m.id

\* The sender's flight of m is received, in the order seq, and delivers m or not.
Pass(acc, seq, victim) ==
    FoldLeft(LAMBDA a, f : LET r == Add(a.st, f, victim)
                           IN [st |-> r.st, ok |-> a.ok \/ Intact(r.ret, f.msg)],
             acc, seq)

Orders(m, n) == SetToSeqs(ToSet(fragmentHandshake(m, n)))

Fitting == {m \in Messages : m.total <= MaxMessageSize}

Admitted(m) == m.src \in DOMAIN bySource \/ Cardinality(DOMAIN bySource) < MaxSources

SameLength(m) ==
    (m.src \in DOMAIN bySource /\ m.key \in DOMAIN bySource[m.src])
    => bySource[m.src][m.key].total = m.total

(* A message gets through by being sent again: whatever is left over in    *)
(* the reassembler from older messages and other sources, two flights of a *)
(* message from an admitted source deliver it whole, in whatever orders    *)
(* their fragments arrive, unless a message of another length is in        *)
(* progress under the same key.                                            *)
TwoFlightsDeliver ==
    \A m \in Fitting, n \in FragmentSizes :
       (Admitted(m) /\ SameLength(m)) =>
          \A v \in Victims(bySource, m.src), s1, s2 \in Orders(m, n) :
             Pass(Pass([st |-> bySource, ok |-> FALSE], s1, v), s2, v).ok

(* Nothing blocks a message for longer than the timeout: once all buffers  *)
(* are older, one flight delivers it whole, also when the sources were     *)
(* at their limit or another length was in progress.                       *)
TimeoutFrees ==
    (\A s \in DOMAIN bySource : \A k \in DOMAIN bySource[s] : bySource[s][k].age > Timeout) =>
       \A m \in Fitting, n \in FragmentSizes :
          \A s1 \in Orders(m, n) : Pass([st |-> bySource, ok |-> FALSE], s1, None).ok

(* A stalled message cannot wedge a legitimate retry: two flights of a     *)
(* message from an admitted source always deliver it.                      *)
RetryNotWedged ==
    \A m \in Fitting, n \in FragmentSizes :
       Admitted(m) =>
          \A v \in Victims(bySource, m.src), s1, s2 \in Orders(m, n) :
             Pass(Pass([st |-> bySource, ok |-> FALSE], s1, v), s2, v).ok
=============================================================================
