------------------------- MODULE DatagramHandshake --------------------------
(***************************************************************************)
(* The datagram handshake: the engine of Handshake driven over a network   *)
(* that loses, duplicates, delays and reorders messages                    *)
(* (pkg/tunnel/dgram_handshake_fsm.go, dgram_handshake_driver.go and the   *)
(* loop of dgram_handshake_wire.go), for the DialDatagram calls made one   *)
(* after the other from one address, and the responders that the listening *)
(* endpoint starts for it.                                                 *)
(*                                                                         *)
(* A driver is the record of dgramDriver, dgramHandshake and handshakeLoop.*)
(* wake counts the ticks until its armed timer fires (retransmitAt while   *)
(* running, lingerAt while an initiator lingers; None: no timer).  A tick  *)
(* is shorter than any timeout and longer than a round of deliveries: the  *)
(* clock moves when no message is under way.  Copies that the network      *)
(* keeps (late) arrive at any later time.                                  *)
(***************************************************************************)
EXTENDS Handshake, FiniteSets, FiniteSetsExt, Bags

CONSTANTS InitiatorConfigs, ResponderConfigs,
          MaxRetries,      \* retransmissions before a handshake fails (8)
          RtoInitial,      \* first retransmission timeout, in ticks (500 ms)
          RtoMax,          \* its cap (8 s)
          LingerReplays,   \* answers a lingering initiator gives (16)
          MaxHonored,      \* RETRYs an initiator acts on (3)
          CookieLifetime,  \* ticks a cookie stays valid (10 s)
          MaxDials,        \* bound: DialDatagram calls
          MaxLost,         \* bound: messages lost
          MaxLate,         \* bound: copies kept by the network
          MaxResponders    \* bound: responders started for the address

ASSUME DatagramHandshakeAssumption ==
    /\ \A c \in InitiatorConfigs : Supports(c.suites, c.kemSuite)
    /\ \A c \in ResponderConfigs : /\ c.requireStatic => c.staticKey # None
                                   /\ c.requirePSK => c.psk # None
    /\ {MaxRetries, RtoInitial, LingerReplays, MaxHonored, CookieLifetime} \subseteq Nat \ {0}
    /\ RtoMax \in Nat /\ RtoMax > RtoInitial
    /\ {MaxDials, MaxLost, MaxLate, MaxResponders} \subseteq Nat

VARIABLES
    dialer,   \* the configuration of the dialing endpoint
    ini,      \* the drivers of the dials; the index of each is its position
    listen,   \* the configuration of the listening endpoint
    res,      \* the responders started so far; the index of each is its position
    owner,    \* bySource: the responder in progress for the dialer's address, 0 if none
    recent,   \* recentHellos: the first hello of a finished handshake and its time left
    net,      \* the bag of messages under way
    late,     \* copies that the network delivers later
    lost,     \* messages lost so far
    copied    \* copies made so far

vars == <<dialer, ini, listen, res, owner, recent, net, late, lost, copied>>

TTL == MaxRetries * RtoMax         \* recentHelloTTL, and the linger time

-----------------------------------------------------------------------------
(* The state machine: dgramHandshake.  A step gives the new driver, the    *)
(* messages to send and whether the handshake is complete.                 *)

Step(d, out, complete) == [d |-> d, out |-> out, complete |-> complete]
Nothing(d) == Step(d, << >>, FALSE)

\* A builder failed: the message is dropped, the engine keeps what it changed.
Dropped(d, h) == Nothing([d EXCEPT !.h = [h EXCEPT !.err = FALSE]])

commit(d, h, processed, out, next) ==
    [d EXCEPT !.h = h, !.prev = processed, !.cached = out, !.expecting = next]

LastN(s, n) == SubSeq(s, Len(s) - n + 1, Len(s))

onServerFinished(d, m) ==
    LET h == ProcessServerFinished(d.h, m)
        out == <<Finished(h, "ClientFinished")>>
    IN IF h.err THEN Dropped(d, h)
       ELSE Step(commit(d, CreateClientFinished(h), "ServerFinished", out, None), out, TRUE)

\* The cached flight stays the ClientHello; a ServerFinished that came first is used now.
onServerHello(d, m) ==
    LET h == ProcessServerHello(d.h, m)
        e == [d EXCEPT !.h = h, !.prev = "ServerHello", !.expecting = "ServerFinished",
                       !.early = None]
    IN IF h.err THEN Dropped(d, h)
       ELSE IF d.early = None THEN Nothing(e) ELSE onServerFinished(e, d.early)

onHelloRetryRequest(d, m) ==
    LET h == ProcessHelloRetryRequest(d.h, m)
        again == CreateClientHello(h)
        out == <<Last(again.transcript)>>
    IN IF h.err THEN Dropped(d, h)
       ELSE Step(commit(d, again, "HelloRetryRequest", out, "ServerHello"), out, FALSE)

\* A hello that is not a repeat; alone, as if a repeat of the first were the retried one.
AnswerClientHello(d, m) ==
    LET h == ProcessClientHello(d.h, m, None)
        hrr == CreateHelloRetryRequest(h)
        flight == CreateServerFinished(CreateServerHello(h))
        Reply(e, out, next) == Step(commit(d, e, "ClientHello", out, next), out, FALSE)
    IN IF h.err THEN Dropped(d, h)
       ELSE IF h.sendHRR THEN Reply(hrr, LastN(hrr.transcript, 1), "ClientHello")
       ELSE Reply(flight, LastN(flight.transcript, 2), "ClientFinished")

\* After a HelloRetryRequest the hello that caused it is a retransmission.
onClientHello(d, m) ==
    IF d.h.hrrDone /\ Len(d.cached) = 1 /\ m = d.h.firstHello
    THEN Step(d, d.cached, FALSE)
    ELSE AnswerClientHello(d, m)

onClientFinished(d, m) ==
    LET h == ProcessClientFinished(d.h, m)
    IN IF h.err THEN Dropped(d, h)
       ELSE Step([d EXCEPT !.h = h, !.prev = "ClientFinished", !.expecting = None], << >>, TRUE)

advance(d, m) ==
    CASE m.type = "ServerHello" -> onServerHello(d, m)
      [] m.type = "ServerFinished" -> onServerFinished(d, m)
      [] m.type = "HelloRetryRequest" -> onHelloRetryRequest(d, m)
      [] m.type = "ClientHello" -> onClientHello(d, m)
      [] m.type = "ClientFinished" -> onClientFinished(d, m)

onMessage(d, m) ==
    LET awaitsHello == d.role = "I" /\ d.expecting = "ServerHello"
    IN IF \/ m.type = d.expecting
          \/ awaitsHello /\ m.type = "HelloRetryRequest" /\ ~d.h.hrrDone
       THEN advance(d, m)
       ELSE IF awaitsHello /\ m.type = "ServerFinished" THEN Nothing([d EXCEPT !.early = m])
       ELSE IF m.type = d.prev /\ m.type # "ServerHello" THEN Step(d, d.cached, FALSE)
       ELSE Nothing(d)

-----------------------------------------------------------------------------
(* The driver: dgramDriver *)

\* first: the hello a responder was started for
newDriver(role, h, peer, first) ==
    [role |-> role, h |-> h, expecting |-> IF role = "R" THEN "ClientHello" ELSE None,
     prev |-> None, cached |-> << >>, early |-> None,
     status |-> "running", retries |-> 0, rto |-> RtoInitial, wake |-> None, replays |-> 0,
     peer |-> peer, cookie |-> None, honored |-> 0,
     first |-> first, session |-> None]

armRetransmit(d) == [d EXCEPT !.wake = d.rto]

lingering(d) == d.role = "I" /\ d.status = "established" /\ d.wake # None
done(d) == d.status = "failed" \/ (d.status = "established" /\ ~lingering(d))

start(d) ==
    LET h == CreateClientHello(d.h)
    IN armRetransmit([d EXCEPT !.h = h, !.cached = LastN(h.transcript, 1),
                               !.expecting = "ServerHello"])

(* As if the initiator lingered for one timeout. *)
LingerOnce(d) ==
    [d EXCEPT !.status = "established",
              !.wake = IF d.role = "I" THEN RtoMax ELSE None,
              !.replays = IF d.role = "I" THEN LingerReplays ELSE 0]

onComplete(d) ==
    [d EXCEPT !.status = "established",
              !.wake = IF d.role = "I" THEN TTL ELSE None,
              !.replays = IF d.role = "I" THEN LingerReplays ELSE 0]

\* The new driver and what to send, for a step of the engine.  An answer that leaves the
\* engine's state as it was is a replay (a HelloRetryRequest and its answer too): no timer
\* is touched.
AfterStep(d, s) ==
    CASE s.complete -> [d |-> onComplete(s.d), out |-> s.out]
      [] ~s.complete /\ s.d.h.state # d.h.state ->
           [d |-> armRetransmit([s.d EXCEPT !.rto = RtoInitial, !.retries = 0]), out |-> s.out]
      [] ~s.complete /\ s.d.h.state = d.h.state /\ s.out # << >> /\ lingering(d) ->
           IF d.replays = 0 THEN [d |-> s.d, out |-> << >>]
           ELSE [d |-> [s.d EXCEPT !.replays = @ - 1], out |-> s.out]
      [] OTHER -> [d |-> s.d, out |-> s.out]

onInbound(d, m) == AfterStep(d, onMessage(d, m))

(* As if retransmissions were not counted. *)
NoCeiling(d) ==
    LET rto == Min({2 * d.rto, RtoMax})
    IN IF lingering(d) THEN [d |-> [d EXCEPT !.wake = None], out |-> << >>]
       ELSE [d |-> armRetransmit([d EXCEPT !.rto = rto]), out |-> d.cached]

onTimeout(d) ==
    LET rto == Min({2 * d.rto, RtoMax})
    IN CASE lingering(d) -> [d |-> [d EXCEPT !.wake = None], out |-> << >>]
         [] ~lingering(d) /\ d.retries >= MaxRetries ->
              [d |-> [d EXCEPT !.status = "failed", !.wake = None], out |-> << >>]
         [] OTHER -> [d |-> armRetransmit([d EXCEPT !.retries = @ + 1, !.rto = rto]),
                      out |-> d.cached]

-----------------------------------------------------------------------------
(* The loop: handshakeLoop.  A frame carries the receiver's index (0 while *)
(* it is unknown), the sender's, and with a ClientHello the cookie: the    *)
(* ticks it stays valid.  A RETRY carries a cookie and no message.         *)

Frames(to, d, index, out) ==
    {[to |-> to, recv |-> d.peer, sender |-> index, msg |-> m,
      cookie |-> IF m.type = "ClientHello" THEN d.cookie ELSE None] : m \in ToSet(out)}

Retry(f) == [to |-> "I", recv |-> f.sender, sender |-> 0, msg |-> [type |-> "Retry"],
             cookie |-> CookieLifetime]

\* f arrives, under way or a late copy; the frames of out are sent.
Arrives(f, out) ==
    \/ BagIn(f, net) /\ net' = (net (-) SetToBag({f})) (+) SetToBag(out) /\ UNCHANGED late
    \/ f \in late /\ late' = late \ {f} /\ net' = net (+) SetToBag(out)

LearnPeer(d, f) == IF f.sender # 0 THEN [d EXCEPT !.peer = f.sender] ELSE d

maybeSurface(d) ==
    IF d.session = None /\ d.status = "established" THEN [d EXCEPT !.session = d.peer] ELSE d

\* One turn of the loop on a received message.
Turn(d, f) == [onInbound(LearnPeer(d, f), f.msg) EXCEPT !.d = maybeSurface(@)]

-----------------------------------------------------------------------------
(* The dialing side *)

Init ==
    /\ dialer \in InitiatorConfigs /\ listen \in ResponderConfigs
    /\ ini = << >> /\ res = << >> /\ owner = 0 /\ recent = None
    /\ net = EmptyBag /\ late = {} /\ lost = 0 /\ copied = 0

Returned(d) == d.status # "running"

\* The caller dials again once the last call has returned; its driver may linger.
MayDial == Len(ini) < MaxDials /\ \A n \in DOMAIN ini : Returned(ini[n])

DialDatagram ==
    /\ MayDial
    /\ LET n == Len(ini) + 1
           h == NewHandshake(dialer, <<"I", n>>, dialer.kemSuite, None, None)
           d == start(newDriver("I", h, 0, None))
       IN ini' = Append(ini, d) /\ net' = net (+) SetToBag(Frames("R", d, n, d.cached))
    /\ UNCHANGED <<dialer, listen, res, owner, recent, late, lost, copied>>

\* The dial that a frame names, if it is still registered.
Dials(f) == {n \in DOMAIN ini : n = f.recv /\ ~done(ini[n])}

InitiatorReceives(f) ==
    /\ f.to = "I" /\ f.msg.type # "Retry"
    /\ \E n \in Dials(f) : \E r \in {Turn(ini[n], f)} :
          /\ ini' = [ini EXCEPT ![n] = r.d]
          /\ Arrives(f, Frames("R", r.d, n, r.out))
    /\ UNCHANGED <<dialer, listen, res, owner, recent, lost, copied>>

\* Only while the cached flight is a ClientHello, and MaxHonored times.
onRetry(f) ==
    /\ f.to = "I" /\ f.msg.type = "Retry"
    /\ \E n \in Dials(f) :
          LET d == ini[n]
              again == [d EXCEPT !.honored = @ + 1, !.cookie = f.cookie]
          IN IF Head(d.cached).type = "ClientHello" /\ d.honored < MaxHonored
             THEN /\ ini' = [ini EXCEPT ![n] = again]
                  /\ Arrives(f, Frames("R", again, n, d.cached))
             ELSE Arrives(f, {}) /\ UNCHANGED ini
    /\ UNCHANGED <<dialer, listen, res, owner, recent, lost, copied>>

\* A frame for a dial that is over.
NoDial(f) ==
    /\ f.to = "I" /\ Dials(f) = {}
    /\ Arrives(f, {})
    /\ UNCHANGED <<dialer, ini, listen, res, owner, recent, lost, copied>>

InitiatorTimeout(n) ==
    /\ ini[n].wake = 0
    /\ LET r == onTimeout(ini[n])
       IN /\ ini' = [ini EXCEPT ![n] = r.d]
          /\ net' = net (+) SetToBag(Frames("R", r.d, n, r.out))
    /\ UNCHANGED <<dialer, listen, res, owner, recent, late, lost, copied>>

-----------------------------------------------------------------------------
(* The listening side: cookieGateRejects, deliverHandshake *)

Registered(k) == k \in DOMAIN res /\ res[k].status # "failed"

\* Whether the endpoint is under pressure depends on its other sources.
GateRejects(f, pressure) ==
    pressure /\ ~Registered(f.recv) /\ owner = 0 /\ f.cookie = None

Challenge(f) ==
    /\ f.to = "R" /\ GateRejects(f, TRUE)
    /\ Arrives(f, IF f.msg.type = "ClientHello" THEN {Retry(f)} ELSE {})
    /\ UNCHANGED <<dialer, ini, listen, res, owner, recent, lost, copied>>

Bootstraps(f) == f.recv = 0 /\ f.msg.type = "ClientHello"
wasEstablished(f) == recent # None /\ recent.hello = f.msg

\* The responder that gets f: a registered one, the owner of the source, or none.
Target(f) ==
    CASE f.recv # 0 /\ Registered(f.recv) -> f.recv
      [] Bootstraps(f) /\ ~wasEstablished(f) -> owner
      [] OTHER -> 0

\* Responder k is now d: it gives up its source once it is established or failed.
Responder(k, d) ==
    /\ owner' = IF d.status = "running" THEN k ELSE IF owner = k THEN 0 ELSE owner
    /\ recent' = IF d.status = "established" /\ (k \notin DOMAIN res \/ res[k].status = "running")
                 THEN [hello |-> d.first, left |-> TTL] ELSE recent

ResponderReceives(f) ==
    /\ f.to = "R" /\ Target(f) # 0
    /\ \E k \in {Target(f)} :
       \E r \in {IF done(res[k]) THEN [d |-> res[k], out |-> << >>] ELSE Turn(res[k], f)} :
          /\ res' = [res EXCEPT ![k] = r.d] /\ Responder(k, r.d)
          /\ Arrives(f, Frames("I", r.d, k, r.out))
    /\ UNCHANGED <<dialer, ini, listen, lost, copied>>

startResponder(f) ==
    /\ f.to = "R" /\ Bootstraps(f) /\ ~wasEstablished(f) /\ owner = 0
    /\ Len(res) < MaxResponders
    /\ LET k == Len(res) + 1
           h == NewHandshake(listen, <<"R", k>>, None, None, None)
       IN \E r \in {Turn(newDriver("R", h, f.sender, f.msg), f)} :
          /\ res' = Append(res, r.d) /\ Responder(k, r.d)
          /\ Arrives(f, Frames("I", r.d, k, r.out))
    /\ UNCHANGED <<dialer, ini, listen, lost, copied>>

\* An unknown index, a repeat of a hello already served, a stray message, or no room.
NoTaker(f) ==
    /\ f.to = "R" /\ Target(f) = 0
    /\ Bootstraps(f) => wasEstablished(f) \/ Len(res) = MaxResponders
    /\ Arrives(f, {})
    /\ UNCHANGED <<dialer, ini, listen, res, owner, recent, lost, copied>>

ResponderTimeout(k) ==
    /\ res[k].wake = 0
    /\ LET r == onTimeout(res[k])
       IN /\ res' = [res EXCEPT ![k] = r.d] /\ Responder(k, r.d)
          /\ net' = net (+) SetToBag(Frames("I", r.d, k, r.out))
    /\ UNCHANGED <<dialer, ini, listen, late, lost, copied>>

-----------------------------------------------------------------------------
(* The network and the clock *)

Lose(f) ==
    /\ BagIn(f, net) /\ lost < MaxLost
    /\ net' = net (-) SetToBag({f}) /\ lost' = lost + 1
    /\ UNCHANGED <<dialer, ini, listen, res, owner, recent, late, copied>>

Copy(f) ==
    /\ BagIn(f, net) /\ copied < MaxLate
    /\ late' = late \cup {f} /\ copied' = copied + 1
    /\ UNCHANGED <<dialer, ini, listen, res, owner, recent, net, lost>>

Older(t) == IF t = None \/ t = 0 THEN None ELSE t - 1
Closer(d) == [d EXCEPT !.wake = IF @ = None THEN None ELSE @ - 1, !.cookie = Older(@)]

Drivers == ToSet(ini) \cup ToSet(res)

Tick ==
    /\ net = EmptyBag
    /\ \A d \in Drivers : d.wake # 0
    /\ recent # None \/ \E d \in Drivers : d.wake # None
    /\ ini' = [n \in DOMAIN ini |-> Closer(ini[n])] /\ res' = [k \in DOMAIN res |-> Closer(res[k])]
    /\ recent' = IF recent = None \/ recent.left = 0 THEN None
                 ELSE [recent EXCEPT !.left = @ - 1]
    /\ late' = {[f EXCEPT !.cookie = Older(@)] : f \in late}
    /\ UNCHANGED <<dialer, listen, owner, net, lost, copied>>

Next ==
    \/ DialDatagram \/ Tick
    \/ \E n \in DOMAIN ini : InitiatorTimeout(n)
    \/ \E k \in DOMAIN res : ResponderTimeout(k)
    \/ \E f \in BagToSet(net) \cup late :
          \/ InitiatorReceives(f) \/ onRetry(f) \/ NoDial(f)
          \/ Challenge(f) \/ ResponderReceives(f) \/ startResponder(f) \/ NoTaker(f)
          \/ Lose(f) \/ Copy(f)

Spec == Init /\ [][Next]_vars

\* The endpoints run, timers fire and what is under way arrives or is lost: weak fairness
\* of every step but Lose and Copy, with the condition that enables one written out.
Busy == net # EmptyBag \/ MayDial \/ \E d \in Drivers : d.wake # None

Fairness == []<>(~Busy) \/ []<><<UNCHANGED <<lost, copied>> >>_vars

FairSpec == Spec /\ Fairness

-----------------------------------------------------------------------------
(* Properties *)

(* The drivers have their types, and a driver's status agrees with its     *)
(* engine: established exactly when the engine is complete and keyed; the  *)
(* owner of the source is a responder in progress.                         *)
TypeOK ==
    /\ \A d \in Drivers :
          /\ d.status \in {"running", "established", "failed"}
          /\ d.retries \in 0 .. MaxRetries /\ d.rto \in RtoInitial .. RtoMax
          /\ d.replays \in 0 .. LingerReplays /\ d.honored \in 0 .. MaxHonored
          /\ d.wake \in 0 .. TTL \/ d.wake = None
          /\ (d.status = "established") <=> (d.h.master # None)
          /\ (d.status = "established") <=> (d.session # None)
    /\ owner \in 0 .. Len(res)
    /\ owner # 0 => res[owner].status = "running"
    /\ lost \in 0 .. MaxLost /\ copied \in 0 .. MaxLate

(* Whoever establishes a session shares its keys with the peer it names:   *)
(* the index that an initiator keeps for its data is that of a responder   *)
(* holding the same secret, also when late copies had the endpoint start   *)
(* several responders, and a responder is established only with a dial     *)
(* that is.                                                                *)
AgreeOnKeys ==
    /\ \A n \in DOMAIN ini : ini[n].status = "established" =>
          ini[n].h.master \in {res[ini[n].session].h.secret, res[ini[n].session].h.master}
    /\ \A k \in DOMAIN res : res[k].status = "established" =>
          LET d == ini[res[k].session]
          IN d.status = "established" /\ d.session = k /\ res[k].h.master = d.h.master

(* A handshake completes on either side only between compatible endpoints. *)
OnlyCompatibleComplete ==
    (\E d \in Drivers : d.status = "established") => Compatible(dialer, listen)

\* Dial n has not failed, and if it returned a session, the responder it names has not either.
NotGivenUp(n) ==
    /\ ini[n].status # "failed"
    /\ ini[n].status = "established" => res[ini[n].session].status # "failed"

(* The first dial from an address survives as many lost messages as there  *)
(* are retransmissions, whichever they are, and cookie challenges besides, *)
(* though cookies expire before the last retransmission: the RETRYs it     *)
(* acts on are enough for that.  A late copy of its hello can use one of   *)
(* them up; then the dial survives as long as one is left.                 *)
LossTolerated ==
    (/\ Compatible(dialer, listen) /\ lost <= MaxRetries
     /\ ini # << >> /\ (copied = 0 \/ ini[1].honored < MaxHonored))
    => NotGivenUp(1)

(* As above, for every dial from the address and whatever copies are late. *)
EveryDialTolerates ==
    (Compatible(dialer, listen) /\ lost <= MaxRetries) => \A n \in DOMAIN ini : NotGivenUp(n)

(* While the responder of an established dial may still resend its flight, *)
(* the initiator lingers to answer it: a lost ClientFinished is repaired   *)
(* by the next retransmission.                                             *)
LingerCovers ==
    \A n \in DOMAIN ini :
       (/\ ini[n].status = "established"
        /\ res[ini[n].session].status = "running" /\ res[ini[n].session].retries < MaxRetries)
       => lingering(ini[n])

(* DialDatagram returns: with a session, or after the last retransmission. *)
DialReturns ==
    \A n \in 1 .. MaxDials :
       (n \in DOMAIN ini /\ ~Returned(ini[n])) ~> (n \in DOMAIN ini /\ Returned(ini[n]))

(* The retry ceiling bounds the lifetime of a handshake that is not        *)
(* established: a responder comes to an end.                               *)
ResponderEnds ==
    \A k \in 1 .. MaxResponders :
       (k \in DOMAIN res /\ res[k].status = "running")
       ~> (k \in DOMAIN res /\ res[k].status # "running")
=============================================================================
