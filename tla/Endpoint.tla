------------------------------ MODULE Endpoint ------------------------------
(***************************************************************************)
(* The bootstrap of responder sessions in a datagram endpoint              *)
(* (pkg/tunnel/datagram.go, dgram_handshake_wire.go): several receive      *)
(* goroutines (one per SO_REUSEPORT socket) and the goroutines of the      *)
(* responders share the connection registry, and every step below is one   *)
(* critical section or one channel operation of theirs.  The handshake     *)
(* itself is DatagramHandshake's; here a responder answers its first hello *)
(* or rejects it, and once it has answered it completes or fails.          *)
(*                                                                         *)
(* A hello is the address it comes from and the number of the dial there:  *)
(* byte-identical copies are equal.                                        *)
(***************************************************************************)
EXTENDS Naturals, Sequences, FiniteSets, Functions

CONSTANTS Sources,       \* addresses that dial this endpoint
          Receivers,     \* receive goroutines
          None,
          MaxHalfOpen,   \* hard ceiling on half-open sessions
          InboxCap,      \* handshake messages a session buffers (8)
          EarlyCap,      \* datagrams held before a session is keyed (4)
          MaxHellos,     \* bound: dials per source
          MaxArrivals,   \* bound: hellos received
          MaxData,       \* bound: data datagrams per session
          Talking,       \* bound: sessions whose peer sends data
          MaxSessions    \* bound: responders built

ASSUME EndpointAssumption ==
    /\ {MaxHalfOpen, InboxCap, EarlyCap} \subseteq Nat \ {0}
    /\ {MaxHellos, MaxArrivals, MaxData, MaxSessions} \subseteq Nat

VARIABLES
    bySource,       \* the responder in progress for a source, 0 if none
    byIndex,        \* the registered sessions
    halfOpen,       \* half-open slots held for a source
    halfOpenTotal,
    recent,         \* recentHellos: the first hellos of finished handshakes (none expires:
                    \* every copy arrives within recentHelloTTL)
    sess,           \* the sessions built so far
    call,           \* what a goroutine is in the middle of, None if nothing
    done,           \* the endpoint is closed
    arrivals,       \* hellos received so far
    served          \* hellos that a responder took, or that were dropped on purpose

registry == <<bySource, byIndex, halfOpen, halfOpenTotal, recent>>
vars == <<registry, sess, call, done, arrivals, served>>

Sessions == 1 .. MaxSessions
Goroutines == Receivers \cup Sessions    \* a session stands for its own goroutine too
Hellos == [src : Sources, dial : 1 .. MaxHellos]
ClientFinished == [src |-> None, dial |-> 0]

Init ==
    /\ bySource = [s \in Sources |-> 0] /\ byIndex = {}
    /\ halfOpen = [s \in Sources |-> 0] /\ halfOpenTotal = 0 /\ recent = {}
    /\ sess = << >> /\ call = [g \in Goroutines |-> None]
    /\ done = FALSE /\ arrivals = 0 /\ served = {}

-----------------------------------------------------------------------------
(* The registry: each is one critical section of its lock *)

removeSource(s) == bySource' = [bySource EXCEPT ![s] = 0]

releaseHalfOpen(s) ==
    /\ halfOpen' = [halfOpen EXCEPT ![s] = IF @ = 0 THEN 0 ELSE @ - 1]
    /\ halfOpenTotal' = IF halfOpen[s] = 0 THEN halfOpenTotal ELSE halfOpenTotal - 1

\* The not-yet-keyed session built for a source, and its goroutine's state.
NewSession(h) ==
    [src |-> h.src, first |-> h, inbox |-> << >>, at |-> "setup", answered |-> FALSE,
     todo |-> << >>, keyed |-> FALSE, early |-> {}, earlyDone |-> FALSE,
     arrived |-> {}, recv |-> {}, overflow |-> {}]

install(s, k) == bySource' = [bySource EXCEPT ![s] = k]

\* An existing responder, or a new one and a half-open slot, or nothing at the ceiling.
reserveSource(g) ==
    LET h == call[g].msg
        k == Len(sess) + 1
    IN /\ call[g] # None /\ call[g].at = "reserve"
       /\ CASE bySource[h.src] # 0 ->
                 /\ call' = [call EXCEPT ![g] = [@ EXCEPT !.at = "send", !.ds = bySource[h.src]]]
                 /\ UNCHANGED <<registry, sess, served>>
            [] bySource[h.src] = 0 /\ (halfOpenTotal >= MaxHalfOpen \/ k > MaxSessions) ->
                 /\ call' = [call EXCEPT ![g] = None] /\ served' = served \cup {h}
                 /\ UNCHANGED <<registry, sess>>
            [] OTHER ->
                 /\ halfOpen' = [halfOpen EXCEPT ![h.src] = @ + 1]
                 /\ halfOpenTotal' = halfOpenTotal + 1
                 /\ install(h.src, k)
                 /\ sess' = Append(sess, NewSession(h))
                 /\ call' = [call EXCEPT ![g] = [@ EXCEPT !.at = "start", !.ds = k]]
                 /\ UNCHANGED <<byIndex, recent, served>>
       /\ UNCHANGED <<done, arrivals>>

-----------------------------------------------------------------------------
(* deliverHandshake, run by a receiver or by redeliverHellos *)

\* A goroutine has h in its hands.
Held(h) ==
    \E g \in Goroutines : /\ call[g] # None /\ call[g].at \notin {"stash", "reread"}
                         /\ call[g].msg = h

Dispatch(h) == [at |-> "wasEstablished", msg |-> h, ds |-> 0]

\* A full inbox drops.
trySend(k, m) == [sess EXCEPT ![k].inbox = IF Len(@) < InboxCap THEN Append(@, m) ELSE @]
Dropped(k, m) == IF Len(sess[k].inbox) < InboxCap THEN {} ELSE {m}

wasEstablished(g) ==
    LET h == call[g].msg
    IN /\ call[g] # None /\ call[g].at = "wasEstablished"
       /\ call' = [call EXCEPT ![g] = IF h \in recent THEN None ELSE [@ EXCEPT !.at = "reserve"]]
       /\ served' = IF h \in recent THEN served \cup {h} ELSE served
       /\ UNCHANGED <<registry, sess, done, arrivals>>

routeToOwner(g) ==
    LET c == call[g]
    IN /\ c # None /\ c.at = "send"
       /\ sess' = trySend(c.ds, c.msg)
       /\ served' = served \cup Dropped(c.ds, c.msg)
       /\ call' = [call EXCEPT ![g] = [@ EXCEPT !.at = "recheck"]]
       /\ UNCHANGED <<registry, done, arrivals>>

(* As if the owner were not looked up again after the send. *)
NoRecheck(g) ==
    /\ call[g] # None /\ call[g].at = "recheck"
    /\ call' = [call EXCEPT ![g] = None]
    /\ UNCHANGED <<registry, sess, done, arrivals, served>>

(* As if the hello were dispatched again whoever owns the source. *)
AlwaysAgain(g) ==
    /\ call[g] # None /\ call[g].at = "recheck"
    /\ call' = [call EXCEPT ![g] = Dispatch(call[g].msg)]
    /\ UNCHANGED <<registry, sess, done, arrivals, served>>

sourceOwner(g) ==
    LET c == call[g]
    IN /\ c # None /\ c.at = "recheck"
       /\ call' = [call EXCEPT ![g] = IF bySource[c.msg.src] = c.ds THEN None ELSE Dispatch(c.msg)]
       /\ UNCHANGED <<registry, sess, done, arrivals, served>>

\* The session is keyed and registered, and its goroutine starts.
startResponder(g) ==
    LET c == call[g]
    IN /\ c # None /\ c.at = "start"
       /\ byIndex' = byIndex \cup {c.ds}
       /\ sess' = [trySend(c.ds, c.msg) EXCEPT ![c.ds].at = "run"]
       /\ served' = served \cup Dropped(c.ds, c.msg)
       /\ call' = [call EXCEPT ![g] = None]
       /\ UNCHANGED <<bySource, halfOpen, halfOpenTotal, recent, done, arrivals>>

\* NewSession or the index allocation fails: the hello is dropped and the reservation
\* undone in two steps.  Nobody drains the inbox.
setupFails(g) ==
    LET c == call[g]
    IN /\ c # None /\ c.at = "start"
       /\ removeSource(c.msg.src)
       /\ sess' = [sess EXCEPT ![c.ds].at = "aborted"]
       /\ served' = served \cup {c.msg}
       /\ call' = [call EXCEPT ![g] = [@ EXCEPT !.at = "unwind"]]
       /\ UNCHANGED <<byIndex, halfOpen, halfOpenTotal, recent, done, arrivals>>

unwind(g) ==
    LET c == call[g]
    IN /\ c # None /\ c.at = "unwind"
       /\ releaseHalfOpen(c.msg.src)
       /\ call' = [call EXCEPT ![g] = None]
       /\ UNCHANGED <<bySource, byIndex, recent, sess, done, arrivals, served>>

-----------------------------------------------------------------------------
(* The receive goroutines: routeDatagram *)

\* Dials are numbered in the order in which their hellos first arrive.
Seen(h) ==
    \/ h \in served \/ Held(h)
    \/ \E k \in DOMAIN sess : h = sess[k].first \/ h \in Range(sess[k].inbox)

HelloArrives(r, h) ==
    /\ h.dial > 1 => Seen([h EXCEPT !.dial = @ - 1])
    /\ ~done /\ call[r] = None /\ arrivals < MaxArrivals
    /\ arrivals' = arrivals + 1
    /\ call' = [call EXCEPT ![r] = Dispatch(h)]
    /\ UNCHANGED <<registry, sess, done, served>>

\* The peer of a responder that answered sends its ClientFinished, by index.
FinishedArrives(r, k) ==
    /\ ~done /\ call[r] = None /\ k \in byIndex
    /\ sess[k].at = "run" /\ sess[k].answered /\ ClientFinished \notin Range(sess[k].inbox)
    /\ sess' = trySend(k, ClientFinished)
    /\ UNCHANGED <<registry, call, done, arrivals, served>>

\* So does its first data; before the session is keyed it is stashed.
DataArrives(r, k) ==
    LET d == Cardinality(sess[k].arrived) + 1
    IN /\ ~done /\ call[r] = None /\ k \in byIndex
       /\ sess[k].answered /\ k \in Talking /\ d <= MaxData
       /\ sess' = [sess EXCEPT ![k].arrived = @ \cup {d},
                               ![k].recv = IF sess[k].keyed THEN @ \cup {d} ELSE @]
       /\ call' = IF sess[k].keyed THEN call
                  ELSE [call EXCEPT ![r] = [at |-> "stash", ds |-> k, data |-> d]]
       /\ UNCHANGED <<registry, done, arrivals, served>>

stashEarly(r) ==
    LET c == call[r]
        k == c.ds
    IN /\ c # None /\ c.at = "stash"
       /\ IF sess[k].earlyDone
          THEN call' = [call EXCEPT ![r] = [@ EXCEPT !.at = "reread"]] /\ UNCHANGED sess
          ELSE /\ call' = [call EXCEPT ![r] = None]
               /\ sess' = IF Cardinality(sess[k].early) < EarlyCap
                          THEN [sess EXCEPT ![k].early = @ \cup {c.data}]
                          ELSE [sess EXCEPT ![k].overflow = @ \cup {c.data}]
       /\ UNCHANGED <<registry, done, arrivals, served>>

\* The buffer was flushed, so the session is keyed by now.
getSession(r) ==
    LET c == call[r]
    IN /\ c # None /\ c.at = "reread"
       /\ call' = [call EXCEPT ![r] = None]
       /\ sess' = IF sess[c.ds].keyed THEN [sess EXCEPT ![c.ds].recv = @ \cup {c.data}] ELSE sess
       /\ UNCHANGED <<registry, done, arrivals, served>>

\* A verified CLOSE, the idle reaper, or the application's Close.
teardown(k) ==
    /\ k \in byIndex /\ sess[k].keyed
    /\ byIndex' = byIndex \ {k}
    /\ UNCHANGED <<bySource, halfOpen, halfOpenTotal, recent,
                   sess, call, done, arrivals, served>>

-----------------------------------------------------------------------------
(* The goroutine of a responder: handshakeLoop.loop, then redeliverHellos *)

\* What is left to do when the handshake is established (maybeSurface), or has failed.
FlushFirst == <<"removeSource", "releaseHalfOpen", "flushEarly", "setSession", "established">>

maybeSurface == <<"setSession", "removeSource", "releaseHalfOpen", "flushEarly", "established">>

(* As if a session that failed kept its slot. *)
KeepsSlot == <<"removeSource", "remove">>

abandon == <<"removeSource", "releaseHalfOpen", "remove">>

Running(k) == k \in DOMAIN sess /\ sess[k].at = "run"
Received(k) == [sess EXCEPT ![k].inbox = Tail(@)]

\* The first hello is answered or rejected; another one is taken for its repeat.
TakesHello(k) ==
    /\ Running(k) /\ sess[k].inbox # << >> /\ Head(sess[k].inbox) # ClientFinished
    /\ \E ok \in {sess[k].answered, TRUE} : sess' = [Received(k) EXCEPT ![k].answered = ok]
    /\ served' = served \cup {Head(sess[k].inbox)}
    /\ UNCHANGED <<registry, call, done, arrivals>>

TakesFinished(k) ==
    /\ Running(k) /\ sess[k].inbox # << >> /\ Head(sess[k].inbox) = ClientFinished
    /\ sess' = [Received(k) EXCEPT ![k].at = "finish", ![k].todo = maybeSurface]
    /\ UNCHANGED <<registry, call, done, arrivals, served>>

\* The retry ceiling: only a responder that answered has a timer.
GivesUp(k) ==
    /\ Running(k) /\ sess[k].answered
    /\ sess' = [sess EXCEPT ![k].at = "finish", ![k].todo = abandon]
    /\ UNCHANGED <<registry, call, done, arrivals, served>>

\* The endpoint was closed: the loop returns and cleans up nothing.
Stops(k) ==
    /\ Running(k) /\ done
    /\ sess' = [sess EXCEPT ![k].at = "drain"]
    /\ UNCHANGED <<registry, call, done, arrivals, served>>

\* One step of what is left to do.
Finishes(k) ==
    /\ k \in DOMAIN sess /\ sess[k].at = "finish"
    /\ LET s == sess[k].src
           step == Head(sess[k].todo)
           rest == Tail(sess[k].todo)
           went == [sess EXCEPT ![k].todo = rest, ![k].at = IF rest = << >> THEN "drain" ELSE @]
       IN /\ IF step = "removeSource" THEN removeSource(s) ELSE UNCHANGED bySource
          /\ IF step = "releaseHalfOpen" THEN releaseHalfOpen(s)
             ELSE UNCHANGED <<halfOpen, halfOpenTotal>>
          /\ byIndex' = IF step = "remove" THEN byIndex \ {k} ELSE byIndex
          /\ recent' = IF step = "established" THEN recent \cup {sess[k].first} ELSE recent
          /\ sess' = CASE step = "setSession" -> [went EXCEPT ![k].keyed = TRUE]
                       [] step = "flushEarly" ->
                            [went EXCEPT ![k].early = {}, ![k].earlyDone = TRUE,
                                         ![k].recv = IF k \in byIndex /\ sess[k].keyed
                                                     THEN @ \cup sess[k].early ELSE @]
                       [] OTHER -> went
    /\ UNCHANGED <<call, done, arrivals, served>>

redeliverHellos(k) ==
    /\ k \in DOMAIN sess /\ sess[k].at = "drain" /\ call[k] = None
    /\ IF sess[k].inbox = << >>
       THEN sess' = [sess EXCEPT ![k].at = "ended"] /\ UNCHANGED call
       ELSE /\ sess' = Received(k)
            /\ call' = IF Head(sess[k].inbox) = ClientFinished THEN call
                       ELSE [call EXCEPT ![k] = Dispatch(Head(sess[k].inbox))]
    /\ UNCHANGED <<registry, done, arrivals, served>>

Close ==
    /\ ~done /\ done' = TRUE
    /\ UNCHANGED <<registry, sess, call, arrivals, served>>

-----------------------------------------------------------------------------

Deliver(g) ==
    \/ wasEstablished(g) \/ reserveSource(g) \/ routeToOwner(g) \/ sourceOwner(g)
    \/ startResponder(g) \/ setupFails(g) \/ unwind(g)

Loop(k) == TakesHello(k) \/ TakesFinished(k) \/ Finishes(k) \/ Stops(k) \/ redeliverHellos(k)

Next ==
    \/ \E g \in Goroutines : Deliver(g)
    \/ \E r \in Receivers : stashEarly(r) \/ getSession(r)
    \/ \E r \in Receivers, h \in Hellos : HelloArrives(r, h)
    \/ \E r \in Receivers, k \in DOMAIN sess :
          FinishedArrives(r, k) \/ DataArrives(r, k)
    \/ \E k \in DOMAIN sess : Loop(k) \/ GivesUp(k) \/ teardown(k)
    \/ Close

Spec == Init /\ [][Next]_vars

\* Goroutines run; nothing is assumed of the network, the timers and the application.
Fairness ==
    /\ \A g \in Goroutines : WF_vars(Deliver(g))
    /\ \A k \in Sessions : WF_vars(Loop(k))

FairSpec == Spec /\ Fairness

-----------------------------------------------------------------------------
(* Properties *)

(* The registry refers to sessions that exist, the owner of a source is    *)
(* one in progress for it, and the buffers keep their bounds.              *)
TypeOK ==
    /\ bySource \in [Sources -> 0 .. Len(sess)] /\ byIndex \subseteq DOMAIN sess
    /\ halfOpen \in [Sources -> 0 .. MaxHalfOpen] /\ halfOpenTotal \in 0 .. MaxHalfOpen
    /\ recent \subseteq Hellos /\ served \subseteq Hellos
    /\ \A s \in Sources : bySource[s] # 0 => sess[bySource[s]].src = s
    /\ \A k \in DOMAIN sess :
          /\ sess[k].at \in {"setup", "run", "finish", "drain", "ended", "aborted"}
          /\ Len(sess[k].inbox) <= InboxCap /\ Cardinality(sess[k].early) <= EarlyCap

HoldsSlot(k) ==
    \/ sess[k].at \in {"setup", "run"}
    \/ \E i \in DOMAIN sess[k].todo : sess[k].todo[i] = "releaseHalfOpen"
    \/ /\ sess[k].at = "aborted"
       /\ \E g \in Goroutines : call[g] # None /\ call[g].at = "unwind" /\ call[g].ds = k

(* Half-open slots are given back exactly once: while the endpoint is open *)
(* a source holds one slot for each responder that has not yet released    *)
(* its own, whatever the handshakes' ends and the hellos of redials        *)
(* interleave to, and the total counts all of them.  The endpoint dials    *)
(* none of its sources: the dial's own maybeSurface or failure would give  *)
(* back the slot of a responder for the same address                       *)
(* (dgram_handshake_wire.go:314, :360).                                    *)
HalfOpenExact ==
    ~done => /\ \A s \in Sources :
                   halfOpen[s] = Cardinality({k \in DOMAIN sess : sess[k].src = s /\ HoldsSlot(k)})
             /\ halfOpenTotal = Cardinality({k \in DOMAIN sess : HoldsSlot(k)})

(* Two receive goroutines never run two handshakes for one source.         *)
OneResponder ==
    \A j, k \in DOMAIN sess :
       (/\ sess[j].src = sess[k].src
        /\ {sess[j].at, sess[k].at} \subseteq {"setup", "run"}) => j = k

(* No hello is stranded by a handshake that ends: one left in the inbox of *)
(* a responder whose goroutine has ended was taken by some responder, was  *)
(* dropped on purpose, or is being dispatched again.  One that was routed  *)
(* to a responder whose setup then fails may be lost with its inbox.       *)
NoHelloStranded ==
    ~done => \A k \in DOMAIN sess : sess[k].at = "ended" =>
                \A h \in Range(sess[k].inbox) :
                   \/ h \in served \/ Held(h)
                   \/ \E j \in DOMAIN sess : sess[j].at # "ended" /\ h \in Range(sess[j].inbox)

(* No early data is lost but for a full buffer: once a session that is     *)
(* still registered has flushed its buffer, all that arrived for it has    *)
(* been delivered or is in a receiver's hands.                             *)
EarlyNeverLost ==
    \A k \in byIndex :
       sess[k].earlyDone =>
          \A d \in sess[k].arrived \ (sess[k].recv \cup sess[k].overflow) :
             \E r \in Receivers : call[r] # None /\ call[r].ds = k
                                  /\ call[r].at \in {"stash", "reread"} /\ call[r].data = d

(* A finished responder's goroutine ends, however many hellos it has to    *)
(* dispatch again, unless the endpoint is closed meanwhile.                *)
DrainEnds ==
    \A k \in Sessions :
       (k \in DOMAIN sess /\ sess[k].at = "drain")
       ~> (done \/ (k \in DOMAIN sess /\ sess[k].at = "ended"))

(* Closing the endpoint ends the goroutines of its handshakes.             *)
CloseEnds ==
    \A k \in Sessions :
       (done /\ k \in DOMAIN sess /\ sess[k].at \in {"run", "drain"})
       ~> (k \in DOMAIN sess /\ sess[k].at = "ended")
=============================================================================
