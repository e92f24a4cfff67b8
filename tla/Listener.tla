------------------------------ MODULE Listener ------------------------------
(***************************************************************************)
(* The stream listener (pkg/tunnel/transport.go) and its limiters          *)
(* (pkg/tunnel/limiter.go): the accept loop, one handshake goroutine per   *)
(* connection, the callers of Accept, Close, and the application that      *)
(* closes the tunnels it got.  A step is one channel operation, one        *)
(* critical section or one call that can fail.  SetConfig is called before *)
(* the first Accept, which fixes the limiters.                             *)
(***************************************************************************)
EXTENDS Naturals, Sequences, FiniteSets

CONSTANTS Conns,        \* connections that peers open
          IPs, IPOf,    \* the address of each
          Callers,      \* goroutines that call Accept
          MaxPerIP,     \* connections per address, 0: no limiter
          RateLimited,  \* HandshakeRateLimit > 0: handshakes are limited
          Burst,        \* size of the token bucket
          Limit,        \* connections mid-handshake at once (1024)
          ResultsCap,   \* finished handshakes that wait for Accept (64)
          MaxCalls      \* bound: calls of Accept per caller

ASSUME ListenerAssumption ==
    /\ IsFiniteSet(Conns) /\ IPOf \in [Conns -> IPs]
    /\ RateLimited \in BOOLEAN
    /\ {MaxPerIP, Burst, MaxCalls} \subseteq Nat /\ {Limit, ResultsCap} \subseteq Nat \ {0}

VARIABLES
    stage,         \* how far the connection's goroutine is
    open,          \* connections not closed
    connections,   \* IPRateLimiter: slots taken per address
    slot,          \* connections that carry a slot to release (rateLimitedConn)
    tokens,        \* HandshakeLimiter: whole tokens in the bucket
    pending,       \* slots of the pending channel taken
    results,       \* finished handshakes: [conn, ok]
    owned,         \* tunnels that Accept returned and the application has not closed
    notified,      \* tunnels whose peer sent a close notification
    caller,        \* "idle", or "waiting" in Accept
    calls,         \* calls of Accept made
    started,       \* the accept loop was started
    stopped,       \* it has ended
    closing        \* Close was called

sockets == <<open, connections, slot>>
application == <<owned, notified, caller, calls>>
phase == <<started, stopped, closing>>

vars == <<stage, sockets, tokens, pending, results, application, phase>>

Init ==
    /\ stage = [c \in Conns |-> "new"] /\ open = Conns
    /\ connections = [i \in IPs |-> 0] /\ slot = {} /\ tokens = Burst
    /\ pending = 0 /\ results = << >> /\ owned = {} /\ notified = {}
    /\ caller = [a \in Callers |-> "idle"] /\ calls = [a \in Callers |-> 0]
    /\ started = FALSE /\ stopped = FALSE /\ closing = FALSE

-----------------------------------------------------------------------------
(* The limiters *)

ReleaseConnection(i) == [connections EXCEPT ![i] = IF @ > 0 THEN @ - 1 ELSE 0]

(* As if the slot were released by each Close. *)
ReleaseEachTime(c) ==
    /\ open' = open \ {c}
    /\ connections' = ReleaseConnection(IPOf[c])
    /\ slot' = slot

\* Close of a connection; the slot it carries is released once.
closeConn(c) ==
    /\ open' = open \ {c} /\ slot' = slot \ {c}
    /\ connections' = IF c \in slot THEN ReleaseConnection(IPOf[c]) ELSE connections

AllowConnection(c) == connections[IPOf[c]] < MaxPerIP
AllowHandshake == ~RateLimited \/ tokens >= 1

\* Time passes and the bucket fills, up to its size.
Refill ==
    /\ tokens < Burst /\ tokens' = tokens + 1
    /\ UNCHANGED <<stage, sockets, pending, results, application, phase>>

-----------------------------------------------------------------------------
(* The accept loop *)

\* A connection arrives, perhaps just before Close reaches the socket; one too many is
\* closed at once.
acceptLoop(c) ==
    /\ started /\ ~stopped /\ stage[c] = "new"
    /\ IF pending < Limit
       THEN /\ pending' = pending + 1 /\ stage' = [stage EXCEPT ![c] = "checkIP"]
            /\ UNCHANGED sockets
       ELSE /\ closeConn(c) /\ stage' = [stage EXCEPT ![c] = "shed"]
            /\ UNCHANGED pending
    /\ UNCHANGED <<tokens, results, application, phase>>

\* The underlying listener fails, or was closed.
acceptFails ==
    /\ started /\ ~stopped /\ stopped' = TRUE
    /\ UNCHANGED <<stage, sockets, tokens, pending, results, application, started, closing>>

-----------------------------------------------------------------------------
(* The goroutine of a connection: handshakeConn, deliver *)

Goes(c, s) == stage' = [stage EXCEPT ![c] = s]

\* A step that fails closes the connection; the error is a result like any other.
Fails(c) == closeConn(c) /\ Goes(c, "deliverError")

checkIPRateLimit(c) ==
    /\ stage[c] = "checkIP"
    /\ IF MaxPerIP = 0 \/ AllowConnection(c)
       THEN /\ connections' = IF MaxPerIP = 0 THEN connections
                              ELSE [connections EXCEPT ![IPOf[c]] = @ + 1]
            /\ slot' = IF MaxPerIP = 0 THEN slot ELSE slot \cup {c}
            /\ Goes(c, "createSession") /\ UNCHANGED open
       ELSE Fails(c)
    /\ UNCHANGED <<tokens, pending, results, application, phase>>

(* As if a session that cannot be created left the connection open. *)
LeaveOpen(c) ==
    /\ stage[c] = "createSession"
    /\ Goes(c, "performHandshake") \/ Goes(c, "deliverError")
    /\ UNCHANGED <<sockets, tokens, pending, results, application, phase>>

createSession(c) ==
    /\ stage[c] = "createSession"
    /\ \/ Goes(c, "performHandshake") /\ UNCHANGED sockets
       \/ Fails(c)
    /\ UNCHANGED <<tokens, pending, results, application, phase>>

performHandshake(c) ==
    /\ stage[c] = "performHandshake"
    /\ IF AllowHandshake
       THEN /\ tokens' = IF RateLimited THEN tokens - 1 ELSE tokens
            /\ Goes(c, "handshake") /\ UNCHANGED sockets
       ELSE Fails(c) /\ UNCHANGED tokens
    /\ UNCHANGED <<pending, results, application, phase>>

\* ResponderHandshake, which HandshakeTimeout bounds, and NewTransport: each can fail.
handshake(c) ==
    /\ stage[c] \in {"handshake", "newTransport"}
    /\ \/ /\ Goes(c, IF stage[c] = "handshake" THEN "newTransport" ELSE "deliver")
          /\ UNCHANGED sockets
       \/ Fails(c)
    /\ UNCHANGED <<tokens, pending, results, application, phase>>

(* As if a result could only be delivered. *)
OnlyDeliver(c) ==
    /\ stage[c] \in {"deliver", "deliverError"} /\ Len(results) < ResultsCap
    /\ results' = Append(results, [conn |-> c, ok |-> stage[c] = "deliver"])
    /\ Goes(c, "release")
    /\ UNCHANGED <<sockets, tokens, pending, application, phase>>

\* When there is room and the listener is closing, either may be chosen.
deliver(c) ==
    /\ stage[c] \in {"deliver", "deliverError"}
    /\ \/ /\ Len(results) < ResultsCap
          /\ results' = Append(results, [conn |-> c, ok |-> stage[c] = "deliver"])
          /\ UNCHANGED sockets
       \/ /\ closing
          /\ IF stage[c] = "deliver" THEN closeConn(c) ELSE UNCHANGED sockets
          /\ UNCHANGED results
    /\ Goes(c, "release")
    /\ UNCHANGED <<tokens, pending, application, phase>>

release(c) ==
    /\ stage[c] = "release"
    /\ pending' = pending - 1 /\ Goes(c, "gone")
    /\ UNCHANGED <<sockets, tokens, results, application, phase>>

-----------------------------------------------------------------------------
(* Accept and Close *)

CallAccept(a) ==
    /\ caller[a] = "idle" /\ calls[a] < MaxCalls
    /\ caller' = [caller EXCEPT ![a] = "waiting"] /\ calls' = [calls EXCEPT ![a] = @ + 1]
    /\ started' = TRUE
    /\ UNCHANGED <<stage, sockets, tokens, pending, results, owned, notified, stopped, closing>>

\* A result, also when the loop has ended; the loop's error when there is none.
Accept(a) ==
    /\ caller[a] = "waiting" /\ caller' = [caller EXCEPT ![a] = "idle"]
    /\ \/ /\ results # << >> /\ results' = Tail(results)
          /\ owned' = IF Head(results).ok THEN owned \cup {Head(results).conn} ELSE owned
       \/ results = << >> /\ stopped /\ UNCHANGED <<results, owned>>
    /\ UNCHANGED <<stage, sockets, tokens, pending, notified, calls, phase>>

\* It starts the loop if nothing has, so that closing exists.
Close ==
    /\ ~closing /\ closing' = TRUE /\ started' = TRUE
    /\ UNCHANGED <<stage, sockets, tokens, pending, results, application, stopped>>

\* The tunnel receives the peer's close notification and marks itself closed.
PeerCloses(c) ==
    /\ c \in owned /\ c \notin notified /\ notified' = notified \cup {c}
    /\ UNCHANGED <<stage, sockets, tokens, pending, results, owned, caller, calls, phase>>

\* The application closes a tunnel it got.  Transport.Close of one that is marked closed
\* returns at once.
CloseTunnel(c) ==
    /\ c \in owned /\ owned' = owned \ {c}
    /\ IF c \in notified THEN UNCHANGED sockets ELSE closeConn(c)
    /\ UNCHANGED <<stage, tokens, pending, results, notified, caller, calls, phase>>

-----------------------------------------------------------------------------

Goroutine(c) ==
    \/ checkIPRateLimit(c) \/ createSession(c) \/ performHandshake(c) \/ handshake(c)
    \/ deliver(c) \/ release(c)

Next ==
    \/ \E c \in Conns : acceptLoop(c) \/ Goroutine(c) \/ PeerCloses(c) \/ CloseTunnel(c)
    \/ \E a \in Callers : CallAccept(a) \/ Accept(a)
    \/ acceptFails \/ Close \/ Refill

Spec == Init /\ [][Next]_vars

\* Goroutines run, a handshake ends at its deadline (HandshakeTimeout > 0), a closed socket
\* fails its Accept, and a caller that waits takes what there is.  Nobody has to call Accept
\* or Close.
Fairness ==
    /\ \A c \in Conns : WF_vars(Goroutine(c))
    /\ \A a \in Callers : WF_vars(Accept(a))
    /\ WF_vars(closing /\ acceptFails)

FairSpec == Spec /\ Fairness

-----------------------------------------------------------------------------
(* Properties *)

InProgress(c) == stage[c] \in {"checkIP", "createSession", "performHandshake", "handshake",
                               "newTransport", "deliver", "deliverError", "release"}

Waiting(c) == \E i \in DOMAIN results : results[i].conn = c /\ results[i].ok

(* The limiters stay within their bounds, and the pending channel counts   *)
(* the goroutines that run.                                                *)
TypeOK ==
    /\ connections \in [IPs -> 0 .. MaxPerIP] /\ tokens \in 0 .. Burst
    /\ pending \in 0 .. Limit /\ pending = Cardinality({c \in Conns : InProgress(c)})
    /\ Len(results) <= ResultsCap

(* An address has as many slots taken as it has open connections beyond    *)
(* the check, on every path out of a handshake: none leaks and none is     *)
(* given back twice or by a connection that never had one.                 *)
SlotsExact ==
    MaxPerIP > 0 => \A i \in IPs :
       connections[i] = Cardinality({c \in Conns : /\ IPOf[c] = i /\ c \in open
                                                   /\ stage[c] \notin {"new", "checkIP"}})

(* A connection that is open belongs to somebody: to its goroutine, to the *)
(* queue of Accept, or to the application.  The exception is a tunnel that *)
(* heard its peer's close first, whose connection Transport.Close leaves   *)
(* open: StreamTunnel's CloseReleases is about that.                       *)
NoOrphans ==
    \A c \in open \ notified : \/ stage[c] = "new" \/ c \in owned \/ Waiting(c)
                               \/ InProgress(c) /\ stage[c] \notin {"deliverError", "release"}

(* The first handshake is never refused for the rate: transport.go:142     *)
(* says of HandshakeBurst "If 0, defaults to 1 when HandshakeRateLimit is  *)
(* set."                                                                   *)
FirstAllowed ==
    (\A c \in Conns : stage[c] \in {"new", "checkIP", "createSession", "performHandshake"})
    => AllowHandshake

(* Accept returns once the listener is closed.                             *)
AcceptReturns ==
    \A a \in Callers : (closing /\ caller[a] = "waiting") ~> (caller[a] = "idle")

(* After Close the handshake goroutines come to an end, also when nobody   *)
(* calls Accept and its queue is full, given a HandshakeTimeout: without   *)
(* one a silent peer holds its goroutine in ResponderHandshake.            *)
CloseDrains == closing ~> (pending = 0)
=============================================================================
