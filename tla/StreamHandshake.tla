-------------------------- MODULE StreamHandshake ---------------------------
(***************************************************************************)
(* The stream handshake (pkg/tunnel/handshake.go, the high-level API): an  *)
(* initiator and a responder run the engine of Handshake over one byte     *)
(* stream, connection after connection, with a ticket from an earlier      *)
(* connection when there is one and a ticket manager whose key is rotated  *)
(* at any time.                                                            *)
(*                                                                         *)
(* Each wire is the sequence of encoded messages not yet read.  A side      *)
(* that fails closes its end, as DialWithConfig and the listener do, and   *)
(* the responder's deadline (HandshakeTimeout) may expire at any time.  A  *)
(* lost connection delivers nothing more.                                  *)
(***************************************************************************)
EXTENDS Codec, FiniteSets

CONSTANTS InitiatorConfigs, ResponderConfigs,
          MaxConns,       \* bound: connections
          MaxRotations    \* bound: key rotations

ASSUME ConfigAssumption ==
    /\ \A c \in InitiatorConfigs : Supports(c.suites, c.kemSuite)
    /\ \A c \in ResponderConfigs : /\ c.requireStatic => c.staticKey # None
                                   /\ c.requirePSK => c.psk # None
    /\ MaxConns \in Nat /\ MaxRotations \in Nat

VARIABLES
    ini, res,          \* the Handshake and Session of each side
    pcI, pcR,          \* where each driver is
    toI, toR,          \* the stream, one sequence per direction
    openI, openR, up,  \* each side's end is open; the network carries data
    expired,           \* the responder's deadline expired
    tm,                \* the responder's TicketManager
    wallet,            \* what the initiator's application keeps for resumption
    conn,              \* number of the current connection
    past               \* master secrets of earlier connections

stream == <<toI, toR, openI, openR, up, expired>>
memory == <<tm, wallet, conn, past>>
vars == <<ini, res, pcI, pcR, toI, toR, openI, openR, up, expired,
          tm, wallet, conn, past>>

Over == {"done", "failed"}
NoTicket == [ticket |-> None, secret |-> None]

\* NewSession for both sides; the session keeps its configuration across connections.
Sessions(n, icfg, rcfg, held) ==
    [i |-> NewHandshake(icfg, <<"I", n>>, icfg.kemSuite, held.ticket, held.secret),
     r |-> NewHandshake(rcfg, <<"R", n>>, None, None, None)]

Init ==
    /\ \E icfg \in InitiatorConfigs, rcfg \in ResponderConfigs :
          /\ ini = Sessions(1, icfg, rcfg, NoTicket).i
          /\ res = Sessions(1, icfg, rcfg, NoTicket).r
    /\ pcI = "start" /\ pcR = "hello"
    /\ toI = << >> /\ toR = << >>
    /\ openI = TRUE /\ openR = TRUE /\ up = TRUE /\ expired = FALSE
    /\ tm = NewTicketManager /\ wallet = NoTicket /\ conn = 1 /\ past = {}

-----------------------------------------------------------------------------
(* Reading and writing.  A write on a lost connection, or to a peer that   *)
(* closed its end, fails or vanishes.  A read fails when nothing is left   *)
(* and nothing more can come.                                              *)

Broken(peerOpen) == ~up \/ ~peerOpen

EncodeAll(msgs) == [n \in DOMAIN msgs |-> Encode(msgs[n])]

WriteI(msgs) == toR' = IF Broken(openR) THEN toR ELSE toR \o EncodeAll(msgs)
WriteR(msgs) == toI' = IF Broken(openI) THEN toI ELSE toI \o EncodeAll(msgs)

(* As if the listener left a failed connection open. *)
FailRKeepsOpen(h) == /\ res' = h /\ pcR' = "failed" /\ UNCHANGED openR

FailI(h) == /\ ini' = h /\ pcI' = "failed" /\ openI' = FALSE
FailR(h) == /\ res' = h /\ pcR' = "failed" /\ openR' = FALSE

(* sendHandshakeAlert, then the caller closes the connection. *)
RefuseI(h) == FailI(h) /\ WriteI(<<Alert>>)
RefuseR(h) == FailR(h) /\ WriteR(<<Alert>>)

SendI(h, pc, msgs) ==
    \/ ini' = h /\ pcI' = pc /\ WriteI(msgs) /\ UNCHANGED openI
    \/ Broken(openR) /\ FailI(h) /\ UNCHANGED toR

SendR(h, pc, msgs) ==
    \/ res' = h /\ pcR' = pc /\ WriteR(msgs) /\ UNCHANGED openR
    \/ Broken(openI) /\ FailR(h) /\ UNCHANGED toI

EofI == toI = << >> /\ Broken(openR) /\ FailI(ini) /\ UNCHANGED <<toI, toR>>
EofR == toR = << >> /\ Broken(openI) /\ FailR(res) /\ UNCHANGED <<toI, toR>>

-----------------------------------------------------------------------------
(* Initiator: initiatorExchangeHellos, initiatorFinish *)

SendClientHello(pc, h) == SendI(h, pc, <<Last(h.transcript)>>)

Dial ==
    /\ pcI = "start"
    /\ SendClientHello("hello", CreateClientHello(ini))
    /\ UNCHANGED <<res, pcR, toI, openR, up, expired, memory>>

\* The first answer may be a HelloRetryRequest; the answer to the retry may not.
OnHelloRetryRequest ==
    /\ pcI = "hello" /\ toI # << >> /\ GetMessageType(Head(toI)) = "HelloRetryRequest"
    /\ toI' = Tail(toI)
    /\ \E m \in {Decode(Head(toI))} : \E h \in {ProcessHelloRetryRequest(ini, m)} :
          IF h.err THEN RefuseI(h) ELSE SendClientHello("retry", CreateClientHello(h))
    /\ UNCHANGED <<res, pcR, openR, up, expired, memory>>

OnServerHello ==
    /\ pcI \in {"hello", "retry"} /\ toI # << >>
    /\ pcI = "hello" => GetMessageType(Head(toI)) # "HelloRetryRequest"
    /\ toI' = Tail(toI)
    /\ \E m \in {Decode(Head(toI))} : \E h \in {ProcessServerHello(ini, m)} :
          IF h.err THEN RefuseI(h)
          ELSE ini' = h /\ pcI' = "finish" /\ UNCHANGED <<openI, toR>>
    /\ UNCHANGED <<res, pcR, openR, up, expired, memory>>

OnServerFinished ==
    /\ pcI = "finish" /\ toI # << >>
    /\ toI' = Tail(toI)
    /\ \E m \in {Decode(Head(toI))} : \E h \in {ProcessServerFinished(ini, m)} :
          IF h.err THEN RefuseI(h)
          ELSE SendI(CreateClientFinished(h), "done", <<Finished(h, "ClientFinished")>>)
    /\ UNCHANGED <<res, pcR, openR, up, expired, memory>>

InitiatorEof ==
    /\ pcI \in {"hello", "retry", "finish"} /\ EofI
    /\ UNCHANGED <<res, pcR, openR, up, expired, memory>>

-----------------------------------------------------------------------------
(* Responder: responderExchangeHellos, responderFinish *)

\* CreateServerHello and CreateServerFinished, written together.
ServerFlight(h) ==
    LET s == CreateServerFinished(CreateServerHello(h))
    IN SendR(s, "finish", SubSeq(s.transcript, Len(s.transcript) - 1, Len(s.transcript)))

RetryRequest(h) ==
    LET s == CreateHelloRetryRequest(h) IN SendR(s, "retry", <<Last(s.transcript)>>)

\* tickets: the caller passed its TicketManager (ResponderResumptionHandshake)
OnClientHello ==
    /\ pcR \in {"hello", "retry"} /\ toR # << >>
    /\ toR' = Tail(toR)
    /\ \E m \in {Decode(Head(toR))} :
       \E h \in {ProcessClientHello(res, m, IF res.cfg.tickets THEN tm ELSE None)} :
          CASE h.err -> RefuseR(h)
            [] ~h.err /\ h.sendHRR -> RetryRequest(h)
            [] OTHER -> ServerFlight(h)
    /\ UNCHANGED <<ini, pcI, openI, up, expired, memory>>

\* readEncryptedRecord rejects an alert (its type byte makes the length too large)
\* and the responder sends none in return.
OnClientFinished ==
    /\ pcR = "finish" /\ toR # << >>
    /\ toR' = Tail(toR)
    /\ \E m \in {Decode(Head(toR))} : \E h \in {ProcessClientFinished(res, m)} :
          CASE GetMessageType(Head(toR)) = "Alert" -> FailR(res) /\ UNCHANGED toI
            [] GetMessageType(Head(toR)) # "Alert" /\ h.err -> RefuseR(h)
            [] OTHER -> res' = h /\ pcR' = "done" /\ UNCHANGED <<openR, toI>>
    /\ UNCHANGED <<ini, pcI, openI, up, expired, memory>>

ResponderEof ==
    /\ pcR \in {"hello", "retry", "finish"} /\ EofR
    /\ UNCHANGED <<ini, pcI, openI, up, expired, memory>>

\* conn.SetDeadline(HandshakeTimeout): the pending read returns an error
ResponderDeadline ==
    /\ pcR \in {"hello", "retry", "finish"}
    /\ FailR(res) /\ expired' = TRUE
    /\ UNCHANGED <<ini, pcI, toI, toR, openI, up, memory>>

-----------------------------------------------------------------------------
(* The network, the tickets and the next connection *)

LoseConnection ==
    /\ up /\ (pcI \notin Over \/ pcR \notin Over)
    /\ up' = FALSE /\ toI' = << >> /\ toR' = << >>
    /\ UNCHANGED <<ini, res, pcI, pcR, openI, openR, expired, memory>>

\* Session.ExportTicket on the responder; the application gives the ticket to the
\* initiator's, which keeps it with its own master secret.
ExportTicket ==
    /\ pcI = "done" /\ pcR = "done" /\ res.cfg.tickets
    /\ wallet' = [ticket |-> EncryptTicket(tm, res.master, conn), secret |-> ini.master]
    /\ UNCHANGED <<ini, res, pcI, pcR, stream, tm, conn, past>>

Rotate ==
    /\ tm.current <= MaxRotations
    /\ tm' = RotateKey(tm)
    /\ UNCHANGED <<ini, res, pcI, pcR, stream, wallet, conn, past>>

\* The lifetime of the ticket held has passed.
TicketExpires ==
    /\ wallet # NoTicket /\ wallet.ticket.created > tm.horizon
    /\ tm' = [tm EXCEPT !.horizon = wallet.ticket.created]
    /\ UNCHANGED <<ini, res, pcI, pcR, stream, wallet, conn, past>>

Redial ==
    /\ pcI \in Over /\ pcR \in Over /\ conn < MaxConns
    /\ conn' = conn + 1
    /\ past' = past \cup ({ini.master, res.master} \ {None})
    /\ \E held \in {wallet, NoTicket} :
          LET s == Sessions(conn + 1, ini.cfg, res.cfg, held) IN ini' = s.i /\ res' = s.r
    /\ pcI' = "start" /\ pcR' = "hello"
    /\ toI' = << >> /\ toR' = << >>
    /\ openI' = TRUE /\ openR' = TRUE /\ up' = TRUE /\ expired' = FALSE
    /\ UNCHANGED <<tm, wallet>>

Initiator == Dial \/ OnHelloRetryRequest \/ OnServerHello \/ OnServerFinished \/ InitiatorEof
Responder == OnClientHello \/ OnClientFinished \/ ResponderEof

Next ==
    \/ Dial \/ OnHelloRetryRequest \/ OnServerHello \/ OnServerFinished \/ InitiatorEof
    \/ OnClientHello \/ OnClientFinished \/ ResponderEof \/ ResponderDeadline
    \/ LoseConnection \/ ExportTicket \/ Rotate \/ TicketExpires \/ Redial

Spec == Init /\ [][Next]_vars

\* Each side's goroutine runs; nothing is assumed of deadlines, faults or users.
FairSpec == Spec /\ WF_vars(Initiator) /\ WF_vars(Responder)

-----------------------------------------------------------------------------
(* Properties *)

(* The records and positions have their types; the engine's state is the   *)
(* one its driver's position implies, and traffic keys exist exactly once  *)
(* the engine is complete.                                                 *)
TypeOK ==
    /\ ini.cfg \in InitiatorConfigs /\ res.cfg \in ResponderConfigs
    /\ pcI \in {"start", "hello", "retry", "finish", "done", "failed"}
    /\ pcR \in {"hello", "retry", "finish", "done", "failed"}
    /\ {openI, openR, up, expired} \subseteq BOOLEAN
    /\ conn \in 1 .. MaxConns /\ tm.current \in 1 .. MaxRotations + 1
    /\ pcI \in {"hello", "retry"} => ini.state = "ClientHelloSent"
    /\ pcR \in {"hello", "retry"} => res.state = "Initial"
    /\ pcI = "finish" => ini.state = "ServerHelloReceived"
    /\ pcR = "finish" => res.state = "ServerFinishedSent"
    /\ \A h \in {ini, res} : (h.state = "Complete") <=> (h.master # None)

(* Whoever finishes shares the keys with the peer: when the initiator is   *)
(* done the responder holds, or has installed, the same secret, and when   *)
(* the responder is done so is the initiator, with the same suites and the *)
(* same view of whether the session was resumed (also across a retry).     *)
AgreeOnKeys ==
    /\ pcI = "done" => ini.master \in {res.secret, res.master}
    /\ pcR = "done" => /\ pcI = "done" /\ ini.master = res.master
                       /\ <<ini.kemSuite, ini.cipher>> = <<res.kemSuite, res.cipher>>
                       /\ ini.resumed = res.resumed

(* A handshake completes on either side only between compatible peers: an  *)
(* initiator that pinned a key talks to its holder, a responder that       *)
(* requires a static ciphertext or a pre-shared key got it, whether the    *)
(* session is new or resumed.                                              *)
OnlyCompatibleComplete ==
    pcI = "done" \/ pcR = "done" => Compatible(ini.cfg, res.cfg)

(* Compatible peers succeed: unless the connection was lost or the         *)
(* responder's deadline expired, neither side fails, whatever suite the    *)
(* initiator tried first and however stale the ticket it offered.          *)
CompatibleSucceed ==
    (Compatible(ini.cfg, res.cfg) /\ up /\ ~expired) => pcI # "failed" /\ pcR # "failed"

(* No two connections share a master secret, resumed or not: a resumed     *)
(* session mixes a fresh KEM secret into the ticket's.                     *)
FreshKeys ==
    /\ pcI = "done" => ini.master \notin past
    /\ pcR = "done" => res.master \notin past

(* A ticket outlives one rotation of the key: while it has not expired and *)
(* the key has been rotated at most once since, the responder resumes.     *)
TicketHonoured ==
    (/\ pcR = "done" /\ res.cfg.tickets /\ ini.ticket # None
     /\ ini.ticket.created > tm.horizon /\ tm.current - ini.ticket.key <= 1)
    => res.resumed

(* Both calls return: neither side waits forever for a message that the    *)
(* other will not send, in any configuration and whatever is lost.         *)
HandshakesReturn ==
    /\ pcI \notin Over ~> pcI \in Over
    /\ pcR \notin Over ~> pcR \in Over
=============================================================================
