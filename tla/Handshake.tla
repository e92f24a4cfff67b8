----------------------------- MODULE Handshake ------------------------------
(***************************************************************************)
(* The CH-KEM handshake engine (pkg/tunnel/handshake.go): one operator for *)
(* each Create and Process function, on a record that holds the fields of  *)
(* Handshake and of the Session it keys.  The drivers (a byte stream, the  *)
(* datagram state machines) decide when they are called.                   *)
(*                                                                         *)
(* A function that returns an error sets err and keeps the changes made so *)
(* far.  A random value is <<id, n>>: the n-th value this handshake drew.  *)
(* A ciphertext is the key it is for and the secret it carries; opening it *)
(* with another key gives Rejected (ML-KEM's implicit rejection).  The     *)
(* secret sharedSecret is the record of what was mixed into it, in the one *)
(* order both peers use.                                                   *)
(***************************************************************************)
EXTENDS Tickets, Sequences, SequencesExt

Rejected == << >>
Dummy == "random"   \* the random key folded in when no key matches

Supports(list, x) == x \in ToSet(list)

(* cfg: version, suites, ciphers and psk on both sides; kemSuite and pin   *)
(* of an initiator; staticKey, requireStatic and requirePSK of a responder *)
NewHandshake(cfg, id, kemSuite, ticket, ticketSecret) ==
    [cfg |-> cfg, id |-> id, draws |-> 0, state |-> "Initial", err |-> FALSE,
     kemSuite |-> kemSuite, keyPair |-> <<id, 0>>, remote |-> None,
     sessionID |-> None, cipher |-> None,
     staticSecret |-> None, pskKey |-> None,
     secret |-> None, transcript |-> << >>,
     firstHello |-> None, sendHRR |-> FALSE, hrrSuite |-> None, hrrDone |-> FALSE,
     ticket |-> ticket, ticketSecret |-> ticketSecret, resumed |-> FALSE,
     master |-> None]

Fail(h) == [h EXCEPT !.err = TRUE]
Draw(h) == <<h.id, h.draws + 1>>
Drawn(h) == [h EXCEPT !.draws = @ + 1]

Encapsulate(key, secret) == [key |-> key, secret |-> secret]
Decapsulate(ct, key) == IF ct.key = key THEN ct.secret ELSE Rejected

FirstIn(list, other) ==
    LET both == SelectSeq(list, LAMBDA x : Supports(other, x))
    IN IF both = << >> THEN None ELSE Head(both)

selectCipherSuite(h, offered) == FirstIn(offered, h.cfg.ciphers)
selectMutualKEMSuite(h, offered) == FirstIn(h.cfg.suites, offered)

-----------------------------------------------------------------------------
(* Messages.  A finished message is sealed under the handshake keys, which *)
(* come from the secret and the cipher suite.                              *)

ClientHello(h, static) ==
    [type |-> "ClientHello", version |-> h.cfg.version, ticket |-> h.ticket,
     kemSuite |-> h.kemSuite, suites |-> h.cfg.suites, keyPair |-> h.keyPair,
     ciphers |-> h.cfg.ciphers, static |-> static,
     identity |-> IF h.cfg.psk = None THEN None ELSE h.cfg.psk.id]

HelloRetryRequest(h) ==
    [type |-> "HelloRetryRequest", version |-> h.cfg.version, kemSuite |-> h.hrrSuite]

ServerHello(h, ct) ==
    [type |-> "ServerHello", version |-> h.cfg.version, sessionID |-> h.sessionID,
     kemSuite |-> h.kemSuite, ct |-> ct, cipher |-> h.cipher]

Finished(h, type) ==
    [type |-> type, secret |-> h.secret, cipher |-> h.cipher, transcript |-> h.transcript]

Alert == [type |-> "Alert"]

(* As if verify_data covered the transcript and not the secret. *)
VerifiesTranscript(h, m, type) == m.type = type /\ m.transcript = h.transcript

\* The record opens under our handshake keys and its verify_data is the expected one.
Verifies(h, m, type) == m = Finished(h, type)

-----------------------------------------------------------------------------
(* Folds: the static and the pre-shared key after the fresh KEM secret and *)
(* the ticket's.                                                           *)

mixSecrets(h, fresh) ==
    [h EXCEPT !.secret = [kem |-> fresh,
                          ticket |-> IF h.resumed THEN h.ticketSecret ELSE None,
                          static |-> h.staticSecret,
                          psk |-> h.pskKey],
              !.staticSecret = None]

replaceFirstHelloWithHash(h, hrr) ==
    [h EXCEPT !.transcript = << [type |-> "hash", of |-> h.firstHello], hrr >>]

initializeSessionKeys(h) ==
    [h EXCEPT !.master = h.secret, !.state = "Complete",
              !.secret = None, !.transcript = << >>]

-----------------------------------------------------------------------------
(* Initiator *)

CreateClientHello(h) ==
    LET static == IF h.cfg.pin = None THEN None ELSE Encapsulate(h.cfg.pin, Draw(h))
        hello == ClientHello(h, static)
    IN IF h.state # "Initial" THEN Fail(h)
       ELSE [Drawn(h) EXCEPT
               !.staticSecret = IF static = None THEN @ ELSE static.secret,
               !.pskKey = IF h.cfg.psk = None THEN @ ELSE h.cfg.psk.key,
               !.transcript = Append(@, hello),
               !.firstHello = IF @ = None THEN hello ELSE @,
               !.state = "ClientHelloSent"]

(* As if the initiator kept its first hello in the transcript of a retry. *)
RetryKeepsTranscript(h, m) ==
    [Drawn(h) EXCEPT !.kemSuite = m.kemSuite, !.keyPair = Draw(h),
                     !.hrrDone = TRUE, !.state = "Initial"]

AdoptSuite(h, m) ==
    [replaceFirstHelloWithHash(Drawn(h), m) EXCEPT
        !.kemSuite = m.kemSuite, !.keyPair = Draw(h),
        !.hrrDone = TRUE, !.state = "Initial"]

ProcessHelloRetryRequest(h, m) ==
    IF /\ h.state = "ClientHelloSent" /\ ~h.hrrDone
       /\ m.type = "HelloRetryRequest" /\ m.version = h.cfg.version
       /\ Supports(h.cfg.suites, m.kemSuite)
    THEN AdoptSuite(h, m)
    ELSE Fail(h)

ProcessServerHello(h, m) ==
    IF /\ h.state = "ClientHelloSent"
       /\ m.type = "ServerHello" /\ m.version = h.cfg.version
       /\ m.kemSuite = h.kemSuite
    THEN LET seen == [h EXCEPT !.resumed = @ \/ (h.ticket # None /\ m.sessionID = h.ticket),
                               !.transcript = Append(@, m),
                               !.sessionID = m.sessionID,
                               !.cipher = m.cipher]
         IN [mixSecrets(seen, Decapsulate(m.ct, h.keyPair)) EXCEPT
                !.state = "ServerHelloReceived"]
    ELSE Fail(h)

ProcessServerFinished(h, m) ==
    IF h.state = "ServerHelloReceived" /\ Verifies(h, m, "ServerFinished")
    THEN [h EXCEPT !.transcript = Append(@, m), !.state = "ServerFinishedReceived"]
    ELSE Fail(h)

CreateClientFinished(h) ==
    IF h.state = "ServerFinishedReceived" THEN initializeSessionKeys(h) ELSE Fail(h)

-----------------------------------------------------------------------------
(* Responder *)

responderPSK(h, identity) ==
    IF identity # None /\ h.cfg.psk # None /\ identity = h.cfg.psk.id
    THEN h.cfg.psk.key ELSE None

(* As if a client without a matching key were let through unfolded. *)
FoldOnlyMatch(h, m) ==
    LET key == responderPSK(h, m.identity)
    IN IF key # None THEN key ELSE h.pskKey

FoldedPSK(h, m) ==
    LET key == responderPSK(h, m.identity)
    IN CASE key # None -> key
         [] key = None /\ h.cfg.requirePSK -> Dummy
         [] OTHER -> h.pskKey

Resumable(m, tm) == m.ticket # None /\ tm # None /\ DecryptTicket(tm, m.ticket)

\* What ProcessClientHello has stored when it turns to authentication.
TakenOver(h, m, tm) ==
    LET resume == Resumable(m, tm)
    IN [h EXCEPT !.kemSuite = m.kemSuite,
                 !.resumed = @ \/ resume,
                 !.ticketSecret = IF resume THEN m.ticket.secret ELSE @,
                 !.sessionID = IF resume THEN m.ticket ELSE @,
                 !.remote = m.keyPair]

Authenticated(h, m) ==
    [h EXCEPT !.staticSecret = IF h.cfg.staticKey # None /\ m.static # None
                               THEN Decapsulate(m.static, h.cfg.staticKey) ELSE @,
              !.pskKey = FoldedPSK(h, m),
              !.cipher = selectCipherSuite(h, m.ciphers)]

ProcessClientHello(h, m, tm) ==
    LET taken == TakenOver(h, m, tm)
        auth == Authenticated(taken, m)
        mutual == selectMutualKEMSuite(h, m.suites)
    IN CASE \/ h.state # "Initial" \/ m.type # "ClientHello"
            \/ m.version # h.cfg.version -> Fail(h)
         [] OTHER ->
            IF Supports(h.cfg.suites, m.kemSuite)
            THEN CASE h.cfg.requireStatic /\ m.static = None -> Fail(taken)
                   [] auth.cipher = None -> Fail(auth)
                   [] OTHER -> [auth EXCEPT !.transcript = Append(@, m)]
            ELSE IF h.hrrDone \/ mutual = None THEN Fail(h)
                 ELSE [h EXCEPT !.firstHello = m, !.hrrSuite = mutual, !.sendHRR = TRUE]

CreateHelloRetryRequest(h) ==
    IF h.sendHRR
    THEN [replaceFirstHelloWithHash(h, HelloRetryRequest(h)) EXCEPT
             !.sendHRR = FALSE, !.hrrDone = TRUE]
    ELSE Fail(h)

CreateServerHello(h) ==
    LET ct == Encapsulate(h.remote, Draw(h))
    IN IF h.remote = None THEN Fail(h)
       ELSE [mixSecrets(Drawn(h), Draw(h)) EXCEPT
               !.transcript = Append(@, ServerHello(h, ct)),
               !.state = "ServerHelloSent"]

CreateServerFinished(h) ==
    IF h.state = "ServerHelloSent"
    THEN [h EXCEPT !.transcript = Append(@, Finished(h, "ServerFinished")),
                   !.state = "ServerFinishedSent"]
    ELSE Fail(h)

ProcessClientFinished(h, m) ==
    IF h.state = "ServerFinishedSent" /\ Verifies(h, m, "ClientFinished")
    THEN initializeSessionKeys(h)
    ELSE Fail(h)

-----------------------------------------------------------------------------
\* What two configurations must have in common, stated without the protocol.
Compatible(i, r) ==
    /\ i.version = r.version
    /\ ToSet(i.ciphers) \cap ToSet(r.ciphers) # {}
    /\ ToSet(i.suites) \cap ToSet(r.suites) # {}
    /\ IF i.pin = None THEN ~r.requireStatic ELSE i.pin = r.staticKey
    /\ IF i.psk = None THEN ~r.requirePSK ELSE i.psk = r.psk
=============================================================================
