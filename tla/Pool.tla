-------------------------------- MODULE Pool --------------------------------
(***************************************************************************)
(* The connection pool (pkg/tunnel/pool.go, pool_conn.go): Acquire,        *)
(* TryAcquire, Release and Close by concurrent users, waiters with their   *)
(* channels and timers, Start, the health checker and Pool.Close.  Every   *)
(* region under Pool.mu is one step.                                       *)
(*                                                                         *)
(* A connection is the number of the dial that made it.  Start is called   *)
(* at most once; Close may come before, while or after it runs.            *)
(***************************************************************************)
EXTENDS Integers, Lists, Functions

CONSTANTS Users,      \* goroutines that use the pool
          Triers,     \* those of them that also call TryAcquire
          MinConns, MaxConns,
          MaxCalls,   \* bound: acquisitions
          MaxDials    \* bound: dials that succeed

ASSUME PoolAssumption ==
    /\ Triers \subseteq Users
    /\ MinConns \in Nat \ {0} /\ MaxConns \in Nat
    /\ MaxConns = 0 \/ MinConns <= MaxConns   \* 0: no limit
    /\ MaxCalls \in Nat /\ MaxDials \in Nat

VARIABLES
    conns, idle, waiters, closed, pending,   \* the fields of Pool
    noWait,        \* config.WaitTimeout is zero
    dials,         \* dials that succeeded: the connections are 1 .. dials
    shut,          \* connections whose tunnel was closed, or given to a goroutine that closes it
    marked,        \* pooledConn.unhealthy
    sick,          \* too old, idle for too long, or with a session that is gone
    pc, held,      \* a user's position and the connection of its last handle
    released,      \* PoolConn.released of that handle
    ch,            \* the content of a user's wait channel
    saved,         \* TryAcquire's origTimeout, or None outside of TryAcquire
    calls,
    start, health, \* Start and the health checker: position, dials to go, healthCancel
    closer         \* Pool.Close: position, connections to close; history: Start was dialing

lists == <<conns, idle, waiters, closed, pending>>
tunnels == <<dials, shut, marked, sick>>
users == <<pc, held, released, ch, saved, calls>>
vars == <<conns, idle, waiters, closed, pending, noWait, dials, shut, marked, sick,
          pc, held, released, ch, saved, calls, start, health, closer>>

None == 0
Empty == [kind |-> "empty", conn |-> None]
Handoff(c) == [kind |-> "conn", conn |-> c]   \* c is None for "try again"
Shut == [kind |-> "closed", conn |-> None]

NewPool ==
    /\ conns = {} /\ idle = << >> /\ waiters = << >> /\ closed = FALSE /\ pending = 0
    /\ noWait = FALSE
    /\ dials = 0 /\ shut = {} /\ marked = {} /\ sick = {}

Init ==
    /\ NewPool
    /\ pc = [u \in Users |-> "idle"]
    /\ held = [u \in Users |-> None]
    /\ released = [u \in Users |-> TRUE]
    /\ ch = [u \in Users |-> Empty]
    /\ saved = [u \in Users |-> "none"]
    /\ calls = 0
    /\ start = [pc |-> "new", left |-> 0]
    /\ health = [pc |-> "off", left |-> 0, cancel |-> "nil"]
    /\ closer = [pc |-> "open", conns |-> {}, duringStart |-> FALSE]
-----------------------------------------------------------------------------
isHealthy(c) == c \notin marked \cup sick \cup shut

\* A healthy connection stops being one.
Sicken(c) ==
    /\ c \in 1 .. dials /\ c \notin sick \cup shut
    /\ sick' = sick \cup {c}
    /\ UNCHANGED <<lists, noWait, dials, shut, marked, users, start, health, closer>>

\* tryGetIdleLocked pops from the end until it finds a healthy connection: the
\* position of that one, or 0 when all are discarded.
LastHealthy ==
    LET healthy == {i \in 1 .. Len(idle) : isHealthy(idle[i])} IN
    IF healthy = {} THEN 0 ELSE Max(healthy)

Discarded == {idle[i] : i \in (LastHealthy + 1) .. Len(idle)}

removeConnLocked(c) == conns' = conns \ {c} /\ idle' = RemoveFirst(idle, c)

\* newPoolConn: a handle of u on c.
Handle(u, c) ==
    /\ held' = [held EXCEPT ![u] = c]
    /\ released' = [released EXCEPT ![u] = FALSE]

\* Where an acquisition returns to: TryAcquire still has to restore the timeout.
Return(u, to) == pc' = [pc EXCEPT ![u] = to]

BeginAcquire(u) ==
    /\ pc[u] = "idle" /\ released[u] /\ calls < MaxCalls
    /\ calls' = calls + 1
    /\ \/ /\ UNCHANGED <<noWait, saved>>
       \/ /\ u \in Triers
          /\ saved' = [saved EXCEPT ![u] = IF noWait THEN "zero" ELSE "set"]
          /\ noWait' = TRUE
    /\ pc' = [pc EXCEPT ![u] = "acquire"]
    /\ UNCHANGED <<lists, tunnels, held, released, ch, start, health, closer>>

Reserve == pending' = pending + 1

\* Faulty variant of HasSlot: dials in flight do not count.
HasSlotNow(n) == MaxConns = 0 \/ n < MaxConns

\* A pool of n connections has room for one more.
HasSlot(n) == MaxConns = 0 \/ n + pending < MaxConns

\* Acquire's critical section.
Acquire(u) ==
    /\ pc[u] = "acquire"
    /\ LET k == LastHealthy
           left == conns \ Discarded
       IN
       \/ /\ closed
          /\ Return(u, "done")
          /\ UNCHANGED <<conns, idle, waiters, pending, shut, held, released, ch>>
       \/ /\ ~closed /\ k # 0
          /\ conns' = left /\ shut' = shut \cup Discarded
          /\ idle' = SubSeq(idle, 1, k - 1)
          /\ Handle(u, idle[k])
          /\ Return(u, "done")
          /\ UNCHANGED <<waiters, pending, ch>>
       \/ /\ ~closed /\ k = 0
          /\ conns' = left /\ shut' = shut \cup Discarded
          /\ idle' = << >>
          /\ \/ /\ HasSlot(Cardinality(left))
                /\ Reserve
                /\ Return(u, "dialing")
                /\ UNCHANGED <<waiters, ch>>
             \/ /\ ~HasSlot(Cardinality(left)) /\ noWait
                /\ Return(u, "done")
                /\ UNCHANGED <<waiters, pending, ch>>
             \/ /\ ~HasSlot(Cardinality(left)) /\ ~noWait
                /\ waiters' = Append(waiters, u)
                /\ ch' = [ch EXCEPT ![u] = Empty]
                /\ Return(u, "waiting")
                /\ UNCHANGED pending
          /\ UNCHANGED <<held, released>>
    /\ UNCHANGED <<closed, noWait, dials, marked, sick, saved, calls, start, health, closer>>

\* Faulty variant of wakeWaiterLocked: the waiter stays in the list.
wakeWaiterTwice(c) ==
    /\ ch' = IF waiters = << >> THEN ch ELSE [ch EXCEPT ![Head(waiters)] = Handoff(c)]
    /\ UNCHANGED waiters

\* The oldest waiter is taken off the list and gets c, or None to try again.
wakeWaiterLocked(c) ==
    /\ ch' = IF waiters = << >> THEN ch ELSE [ch EXCEPT ![Head(waiters)] = Handoff(c)]
    /\ waiters' = IF waiters = << >> THEN waiters ELSE Tail(waiters)

\* createConn succeeds with a new connection, or it fails.
DialSucceeds == dials < MaxDials /\ dials' = dials + 1
DialFails == UNCHANGED dials

\* Faulty variant of DiscardDialed: the new tunnel of a closed pool stays open.
DiscardDialedNot == UNCHANGED shut

DiscardDialed == shut' = shut \cup {dials + 1}

\* createAndAcquire.  TryAcquire's context has expired before it dials.
FinishDial(u) ==
    /\ pc[u] = "dialing"
    /\ pending' = pending - 1
    /\ Return(u, "done")
    /\ \/ /\ DialFails
          /\ wakeWaiterLocked(None)
          /\ UNCHANGED <<conns, shut, held, released>>
       \/ /\ saved[u] = "none" /\ DialSucceeds /\ closed
          /\ DiscardDialed
          /\ UNCHANGED <<conns, waiters, ch, held, released>>
       \/ /\ saved[u] = "none" /\ DialSucceeds /\ ~closed
          /\ conns' = conns \cup {dials + 1}
          /\ Handle(u, dials + 1)
          /\ UNCHANGED <<waiters, ch, shut>>
    /\ UNCHANGED <<idle, closed, noWait, marked, sick, saved, calls, start, health, closer>>

\* waitForConnection's channel is ready; handleWaitResult.
WaitResult(u) ==
    LET c == ch[u].conn IN
    /\ pc[u] = "waiting" /\ ch[u] # Empty
    /\ ch' = [ch EXCEPT ![u] = Empty]
    /\ \/ /\ ch[u] = Shut
          /\ Return(u, "done")
          /\ UNCHANGED <<conns, idle, shut, held, released>>
       \/ /\ ch[u] = Handoff(None)
          /\ Return(u, "acquire")
          /\ UNCHANGED <<conns, idle, shut, held, released>>
       \/ /\ c # None /\ ~isHealthy(c)
          /\ removeConnLocked(c)
          /\ shut' = shut \cup {c}
          /\ Return(u, "acquire")
          /\ UNCHANGED <<held, released>>
       \/ /\ c # None /\ isHealthy(c)
          /\ Handle(u, c)
          /\ Return(u, "done")
          /\ UNCHANGED <<conns, idle, shut>>
    /\ UNCHANGED <<waiters, closed, pending, noWait, dials, marked, sick, saved, calls,
                   start, health, closer>>

\* The timer or the context ends the wait, even when the channel is ready as well.
WaitTimeout(u) ==
    /\ pc[u] = "waiting"
    /\ pc' = [pc EXCEPT ![u] = "timedOut"]
    /\ UNCHANGED <<lists, noWait, tunnels, held, released, ch, saved, calls, start, health, closer>>

\* handleWaitTimeout; nobody reads the channel any more.
handleWaitTimeout(u) ==
    /\ pc[u] = "timedOut"
    /\ waiters' = RemoveFirst(waiters, u)
    /\ ch' = [ch EXCEPT ![u] = Empty]
    /\ Return(u, "done")
    /\ UNCHANGED <<conns, idle, closed, pending, noWait, tunnels, held, released, saved, calls,
                   start, health, closer>>

\* The call returns; TryAcquire puts the timeout back that it found.
EndAcquire(u) ==
    /\ pc[u] = "done"
    /\ noWait' = IF saved[u] = "none" THEN noWait ELSE saved[u] = "zero"
    /\ saved' = [saved EXCEPT ![u] = "none"]
    /\ pc' = [pc EXCEPT ![u] = "idle"]
    /\ UNCHANGED <<lists, tunnels, held, released, ch, calls, start, health, closer>>
-----------------------------------------------------------------------------
\* Faulty variant of Releasable: a handle can be released again.
ReleasableAgain(u) == held[u] # None

\* The compare-and-swap on PoolConn.released.
Releasable(u) == ~released[u]

\* PoolConn.Release, or PoolConn.Close, which marks the connection; Pool.release.
Release(u, mark) ==
    LET c == held[u] IN
    /\ pc[u] = "idle" /\ Releasable(u)
    /\ released' = [released EXCEPT ![u] = TRUE]
    /\ marked' = IF mark THEN marked \cup {c} ELSE marked
    /\ \/ /\ closed
          /\ shut' = shut \cup {c}
          /\ UNCHANGED <<conns, idle, waiters, ch>>
       \/ /\ ~closed /\ c \in marked'
          /\ removeConnLocked(c)
          /\ shut' = shut \cup {c}
          /\ wakeWaiterLocked(None)
       \/ /\ ~closed /\ c \notin marked' /\ waiters # << >>
          /\ wakeWaiterLocked(c)
          /\ UNCHANGED <<conns, idle, shut>>
       \/ /\ ~closed /\ c \notin marked' /\ waiters = << >>
          /\ idle' = Append(idle, c)
          /\ UNCHANGED <<conns, waiters, ch, shut>>
    /\ UNCHANGED <<closed, pending, noWait, dials, sick, pc, held, saved, calls, start, health, closer>>
-----------------------------------------------------------------------------
\* A new connection goes to the idle list, without a look at MaxConns.
AddIdle ==
    /\ conns' = conns \cup {dials + 1}
    /\ idle' = Append(idle, dials + 1)

Start ==
    /\ start.pc = "new"
    /\ start' = IF closed THEN [pc |-> "done", left |-> 0] ELSE [pc |-> "dialing", left |-> MinConns]
    /\ UNCHANGED <<lists, noWait, tunnels, users, health, closer>>

StartDial ==
    /\ start.pc = "dialing" /\ start.left > 0
    /\ start' = [start EXCEPT !.left = @ - 1]
    /\ \/ DialSucceeds /\ AddIdle
       \/ DialFails /\ UNCHANGED <<conns, idle>>
    /\ UNCHANGED <<waiters, closed, pending, noWait, shut, marked, sick, users, health, closer>>

\* healthCancel is assigned without the lock, and without another look at closed.
SetHealthCancel ==
    /\ start.pc = "dialing" /\ start.left = 0
    /\ start' = [start EXCEPT !.pc = "starting"]
    /\ health' = [health EXCEPT !.cancel = "set"]
    /\ UNCHANGED <<lists, noWait, tunnels, users, closer>>

\* healthWg.Add and the goroutine.
StartHealthChecker ==
    /\ start.pc = "starting"
    /\ start' = [start EXCEPT !.pc = "done"]
    /\ health' = [health EXCEPT !.pc = "tick"]
    /\ UNCHANGED <<lists, noWait, tunnels, users, closer>>

\* runHealthCheck's first critical section, and the closing of what it removed.  On a
\* closed pool it returns at once.
CheckIdle ==
    LET bad == {c \in Range(idle) : ~isHealthy(c)} IN
    /\ health.pc = "tick" /\ ~closed
    /\ idle' = ElementsAt(idle, {i \in DOMAIN idle : isHealthy(idle[i])})
    /\ conns' = conns \ bad
    /\ shut' = shut \cup bad
    /\ health' = [health EXCEPT !.pc = "deficit"]
    /\ UNCHANGED <<waiters, closed, pending, noWait, dials, marked, sick, users, start, closer>>

Deficit ==
    /\ health.pc = "deficit"
    /\ health' = IF Cardinality(conns) < MinConns
                 THEN [health EXCEPT !.pc = "dialing", !.left = MinConns - Cardinality(conns)]
                 ELSE [health EXCEPT !.pc = "tick"]
    /\ UNCHANGED <<lists, noWait, tunnels, users, start, closer>>

HealthDial ==
    /\ health.pc = "dialing"
    /\ \/ /\ DialFails
          /\ health' = [health EXCEPT !.pc = "tick", !.left = 0]
          /\ UNCHANGED <<conns, idle, shut>>
       \/ /\ DialSucceeds /\ closed
          /\ DiscardDialed
          /\ health' = [health EXCEPT !.pc = "tick", !.left = 0]
          /\ UNCHANGED <<conns, idle>>
       \/ /\ DialSucceeds /\ ~closed
          /\ AddIdle
          /\ health' = [health EXCEPT !.pc = IF health.left = 1 THEN "tick" ELSE "dialing",
                                      !.left = @ - 1]
          /\ UNCHANGED shut
    /\ UNCHANGED <<waiters, closed, pending, noWait, marked, sick, users, start, closer>>

\* Pool.Close has cancelled healthCtx.
StopHealthChecker ==
    /\ health.pc = "tick" /\ health.cancel = "called"
    /\ health' = [health EXCEPT !.pc = "stopped"]
    /\ UNCHANGED <<lists, noWait, tunnels, users, start, closer>>

\* Pool.Close's critical section.  A healthCancel that Start assigns later is never called.
Close ==
    /\ closer.pc = "open"
    /\ closed' = TRUE
    /\ ch' = [u \in Users |-> IF u \in Range(waiters) THEN Shut ELSE ch[u]]
    /\ waiters' = << >> /\ conns' = {} /\ idle' = << >>
    /\ health' = [health EXCEPT !.cancel = IF @ = "set" THEN "called" ELSE @]
    /\ closer' = [pc |-> "waiting", conns |-> conns, duringStart |-> start.pc = "dialing"]
    /\ UNCHANGED <<pending, noWait, tunnels, pc, held, released, saved, calls, start>>

\* Faulty variant of HealthCheckerStopped: Close waits for one that was never started.
HealthCheckerStoppedOnly == health.pc = "stopped"

HealthCheckerStopped == health.pc \in {"off", "stopped"}

\* healthWg.Wait, then the connections.
CloseConns ==
    /\ closer.pc = "waiting" /\ HealthCheckerStopped
    /\ shut' = shut \cup closer.conns
    /\ closer' = [closer EXCEPT !.pc = "returned", !.conns = {}]
    /\ UNCHANGED <<lists, noWait, dials, marked, sick, users, start, health>>
-----------------------------------------------------------------------------
UserStep(u) ==
    \/ Acquire(u) \/ WaitResult(u) \/ WaitTimeout(u) \/ handleWaitTimeout(u) \/ EndAcquire(u)
UserCall(u) == BeginAcquire(u) \/ \E mark \in BOOLEAN : Release(u, mark)
StartStep  == SetHealthCancel \/ StartHealthChecker
HealthStep == CheckIdle \/ Deficit \/ StopHealthChecker
DialEnds   == StartDial \/ HealthDial \/ \E u \in Users : FinishDial(u)

Next ==
    \/ \E u \in Users : UserCall(u) \/ UserStep(u)
    \/ \E c \in 1 .. MaxDials : Sicken(c)
    \/ DialEnds \/ Start \/ StartStep \/ HealthStep \/ Close \/ CloseConns

Spec == Init /\ [][Next]_vars

\* Start, the health checker and Close run.  Users may stop anywhere, and no dial has to
\* end: DialTimeout bounds the TCP connect, nothing bounds the handshake after it.
Fairness == WF_vars(StartStep) /\ WF_vars(HealthStep) /\ WF_vars(CloseConns)

FairSpec == Spec /\ Fairness
-----------------------------------------------------------------------------
Conns == 1 .. MaxDials

\* The pool's fields and the goroutines' locals keep their types.
TypeOK ==
    /\ conns \subseteq Conns /\ idle \in Seq(Conns) /\ waiters \in Seq(Users)
    /\ closed \in BOOLEAN /\ pending \in Nat /\ noWait \in BOOLEAN
    /\ dials \in 0 .. MaxDials /\ shut \subseteq 1 .. dials
    /\ marked \subseteq 1 .. dials /\ sick \subseteq 1 .. dials
    /\ pc \in [Users -> {"idle", "acquire", "dialing", "waiting", "timedOut", "done"}]
    /\ held \in [Users -> Conns \cup {None}] /\ released \in [Users -> BOOLEAN]
    /\ ch \in [Users -> [kind : {"empty", "conn", "closed"}, conn : Conns \cup {None}]]
    /\ saved \in [Users -> {"none", "set", "zero"}] /\ calls \in 0 .. MaxCalls
    /\ start \in [pc : {"new", "dialing", "starting", "done"}, left : 0 .. MinConns]
    /\ health \in [pc : {"off", "tick", "deficit", "dialing", "stopped"}, left : 0 .. MinConns,
                  cancel : {"nil", "set", "called"}]
    /\ closer \in [pc : {"open", "waiting", "returned"}, conns : SUBSET Conns, duringStart : BOOLEAN]

\* The places where c is: positions of the idle list, unreleased handles, channels.
Places(c) == {<<"idle", i>> : i \in {i \in 1 .. Len(idle) : idle[i] = c}}
        \cup {<<"held", u>> : u \in {u \in Users : held[u] = c /\ ~released[u]}}
        \cup {<<"handoff", u>> : u \in {u \in Users : ch[u] = Handoff(c)}}

\* A connection is never in two places at once: two users never share one, and none
\* that is idle or on its way to a waiter is still in use (Pool.release, the released
\* flag of PoolConn, tryGetIdleLocked).
OneOwner == \A c \in 1 .. dials : Cardinality(Places(c)) <= 1

\* A channel in the waiters list is empty, open and its waiter has not taken its name
\* off: the sends of release and wakeWaiterLocked never block while they hold the
\* lock, and Close never closes a channel twice.
HandoffNeverBlocks ==
    /\ \A i \in 1 .. Len(waiters) : ch[waiters[i]] = Empty /\ pc[waiters[i]] \in {"waiting", "timedOut"}
    /\ \A i, j \in 1 .. Len(waiters) : waiters[i] = waiters[j] => i = j

\* The connections and the dials of Acquire exceed MaxConns by no more than the MinConns
\* connections that Start or the health checker add without looking at the limit.  This
\* is weaker than what PoolConfig says of MaxConns: see MaxConnsKept.
SizeBounded == MaxConns # 0 => Cardinality(conns) + pending <= MaxConns + MinConns

\* PoolConfig.MaxConns' comment: the maximum number of connections allowed.
MaxConnsKept == MaxConns # 0 => Cardinality(conns) <= MaxConns

\* Once Close has returned, every tunnel the pool ever made has been closed or given to
\* closeConnAsync, also those in use and those on their way to a waiter, and a dial that
\* ends later closes its own.  The only ones left are those that Start adds to the pool
\* behind the back of a Close that came while it was dialing.
CloseClosesAll ==
    closer.pc = "returned" =>
        /\ 1 .. dials \subseteq shut \cup conns
        /\ conns # {} => closer.duringStart

\* Pool.Close's comment: it closes all connections in the pool.
NothingLeftOpen == closer.pc = "returned" => shut = 1 .. dials

\* A Pool.Close that did not come while Start was dialing returns, unless a dial of the
\* health checker it waits for never ends: the checker sees its context cancelled.
CloseReturns ==
    \/ closer.pc = "waiting" /\ ~closer.duringStart ~> closer.pc = "returned"
    \/ <>[](health.pc = "dialing")

\* Pool.Close returns, whenever it is called and whatever the server does.
CloseAlwaysReturns == closer.pc = "waiting" ~> closer.pc = "returned"

\* Pool.conns' comment: every connection of the pool is idle or in use.
IdleOrInUse == \A c \in conns : Places(c) # {}
=============================================================================
