# Verification of Quantum-Go

TLA+ models of the stateful parts of Quantum-Go, TLC runs that check them on small
instances, and proofs that TLAPS checks for every instance. Paths such as
`session.go` are under `src/pkg/tunnel/` unless they say otherwise. `PROJECT.json`
maps every definition to the lines it models.

## The system

Quantum-Go sets up encrypted tunnels with a hybrid KEM (CH-KEM: ML-KEM and X25519)
over TCP ("stream") or UDP ("datagram").

| Part | State | Operations | Talks to |
|---|---|---|---|
| Replay window (`replay.go`) | bitmap of words, highest sequence | `Check`, `Admissible` | both receive paths |
| Stream session (`session.go`) | state, master secret, current and pending ciphers, sequence counters | `Encrypt`, `Decrypt`, the rekey steps, `Close` | transport |
| Stream transport (`transport.go`) | closed flag, write mutex, TCP connection | `Send`, `Receive`, `SendRekey`, `handleRekey`, `Close` | session, peer |
| Datagram session (`dgram_session*.go`, `dgram_conn.go`) | current and previous epoch, send counter | seal, open, advance, `Send`, `Close` | endpoint, rekey |
| Datagram rekey (`dgram_rekey.go`) | driver, inbox, cached response | `Rekey`, `handleRekey` | datagram session |
| Datagram handshake (`dgram_handshake*.go`, `dgram_cookie.go`) | state machine, flights, timers | `onInbound`, `onTimeout`, `surface` | endpoint, handshake |
| Datagram endpoint (`datagram.go`) | registry of sessions and half-open handshakes, early data | `routeDatagram`, reaping, roaming | everything datagram |
| Reassembler (`reassembly.go`) | bounded fragment buffers | add, evict, expire | endpoint |
| Connection pool (`pool*.go`) | connections, idle list, waiters, pending dials | `Acquire`, `TryAcquire`, `Release`, `Close`, health check | stream tunnels |
| Handshake (`handshake.go`) | transcript, suite, retry, resumption, PSK | one step per message | both transports |
| Listener and limiters (`transport.go`, `limiter.go`) | accept queue, per-address slots, token bucket | `Accept`, `handshakeConn`, `Close` | handshake |
| Tickets (`ticket.go`) | ticket keys | seal, open, rotate | handshake |
| CH-KEM and primitives (`src/pkg/chkem`, `src/pkg/crypto`) | keys | encapsulate, seal | sessions |
| Codec (`src/pkg/protocol/codec.go`) | none | encode, decode | handshake |
| Metrics, command line | none that the protocol reads | | |

What makes it hard, and what must hold in spite of it (the hazards of
`PROJECT.json` give the lines):

- Application senders, a receive loop and a caller of `Close` share a session. The
  receive loop switches keys under the senders. Every record must still open, no
  nonce may repeat, and the peers must agree on the keys.
- `Encrypt` and `DatagramConn.Send` draw a sequence number before they read the key.
  The number can be stale when it is used.
- Datagrams are lost, duplicated, delayed and reordered. A rekey is retransmitted, its
  answer cached, and a rekey that timed out is tried again. Equal epochs must mean
  equal keys.
- Peek, open and commit of the replay window are three steps. No number may be
  accepted twice.
- Retry, resumption, pinned key and pre-shared key combine freely in one handshake, and
  ticket keys rotate under it. Peers that can agree must, and no others may finish.
- A datagram handshake is retransmitted from both ends, its messages are fragmented, and
  a source may redial while the responder of its last dial is ending. Losses must be
  survived, no hello stranded, and what is held for peers that are not yet authenticated
  must be given back exactly once.
- Several receive goroutines and one goroutine per handshake share the endpoint's
  registry; data may arrive before its session is installed.
- The listener's handshakes fail at every stage, and nobody need call `Accept` again.
- Pool waiters time out while a connection is handed to them. The health checker
  dials while users do. `Close` runs at any moment.

## Modules

| Module | Models | Shape |
|---|---|---|
| `ReplaySpec` | what a replay filter promises | one action, `Call`; no bitmap |
| `ReplayWindow` | `replay.go` and its use in `routeDatagram` | goroutines `Peek`, `OpenFails`, `Commit` |
| `ReplayWindow_proofs` | | theorems about `ReplayWindow` |
| `Ratchet` | what a rekey promises on either transport | `Extend`, `Adopt` |
| `StreamTunnel` | `session.go` and `transport.go`, both peers | senders, receive loops and closers over two FIFO byte streams |
| `StreamSend_proofs`, `StreamRekey_proofs`, `StreamTunnel_proofs` | | the invariant of `StreamTunnel` and the steps of sending; the other steps; the theorems |
| `DatagramRekey` | `dgram_session*.go`, `dgram_conn.go`, `dgram_rekey.go`, the data, CLOSE and rekey arms of `routeDatagram` | senders, the `Rekey` driver and the receive loops over a set of datagrams that never shrinks |
| `DatagramRekey_proofs` | | theorems about `DatagramRekey` |
| `Pool` | `pool.go`, `pool_conn.go` | users, `Start`, health checker, closer |
| `PoolAcquire_proofs`, `Pool_proofs` | | lists without repetitions, the invariant of `Pool` and the steps of an acquisition; the other steps and the theorems |
| `Tickets` | `ticket.go` | operators on a manager record |
| `Handshake` | the engine of `handshake.go`, `CreateX` and `ProcessX` | operators on a handshake record; no variables |
| `StreamHandshake` | the drivers of `handshake.go`, `ExportTicket`, the dial and listen code around them | initiator and responder over one byte stream, connection after connection |
| `Codec` | the handshake messages of `src/pkg/protocol/codec.go` | operators, on the wire of `StreamHandshake` |
| `DatagramHandshake` | `dgram_handshake_fsm.go`, `_driver.go`, the loop of `_wire.go`, `dgram_cookie.go` | the dials of one address and the responders they meet, over a lossy network, with a clock |
| `Endpoint` | `datagram.go`, `dgram_handshake_wire.go` | receive goroutines and responders' goroutines over the registry, one step per critical section |
| `Reassembler` | `reassembly.go`, `dgram_handshake.go` | `Receive` of a fragment, `Tick` |
| `Listener` | the listener of `transport.go`, `limiter.go` | accept loop, a goroutine per connection, callers of `Accept`, `Close`, the application |
| `Listener_proofs` | | theorems about `Listener` |
| `MC*` | | constants for TLC |

### Abstractions shared by the tunnel modules

A master secret is the sequence of KEM secrets ratcheted into it and stands for the
traffic keys derived from it. The empty sequence is an erased secret. A frame carries
the key that sealed it and opens under exactly that key. A KEM ciphertext carries the
number of its secret and of the key pair it is for. Decapsulating with another key pair
gives an unrelated secret instead of an error (CH-KEM's implicit rejection). Payload
bytes are left out. Time is an event: a timer may fire whenever it is armed.

### ReplayWindow

`bitmap`, `highSeq` and `seen` are the fields of `DatagramReplayWindow`; a word is a set
of bit positions. `advance` is the multi-word shift with its carry. `Check` is the
decision and the update, `Admissible` the read-only peek. A goroutine peeks a frame and
then either drops it, fails to open it, or opens it and commits with `Check`.
`acceptCount` is history.

### StreamTunnel

`sess[p]` is the `Session` struct. Each goroutine has a position, and a critical
section or an atomic access is one step: draw the sequence number (`DrawSeq`), seal
under the session's lock (`Seal`), write under `writeMu` (`Write`). A data record is
sealed and written in one `writeMu` section, a rekey record is sealed before it takes
`writeMu`, as in `sealAndWrite` and `SendRekey`. `ReadMessage` opens a record under the
current receive cipher, otherwise under the pending one, and promotes that one in a
step of its own. `HandleRekey` is either half of the exchange. `Close`, `NotifyPeer`,
`CloseSession` and `CloseConn` are the steps of `Transport.Close`. The stream's replay
window is the filter `ReplaySpec!Fresh`, which `ReplayWindow` is shown to implement.

### DatagramRekey

`cur` and `prev` are the two epochs a session keeps; the epoch is a byte, modelled
modulo `EpochMod`. `DrawSeq`, `ReadEpoch` and `Seal` are the three reads of
`DatagramConn.Send`. The cap check subtracts modulo `Word`, as `uint64` does.
`BeginRekey`, `SendInit`, `OpenResponse`, `CompleteRekey` and `AbandonRekey` are the
`Rekey` call. `ReplayResponse`, `RespondToRekey` and `AnswerRekey` are
`handleRekeyInit`. `RetirePrev` is the expiry of the previous epoch. `net` keeps every
datagram, so each may arrive never, late, or many times. A control message stands for
all of its fragments. A fresh key pair or secret is the next number of `kem`. `disturbed`
is history: a `Rekey` call was given up, or a session closed.

### Pool

`conns`, `idle`, `waiters`, `closed` and `pending` are the fields of `Pool`; every
region under `Pool.mu` is one step. A connection is the number of the dial that made
it. `ch[u]` is the content of the channel user `u` waits on. `WaitTimeout` may be taken
although the channel is ready, as in the `select`; the waiter leaves the list in a
second step. `Sicken` is everything that makes `isHealthy` false: age, idleness, a
session that ended. `noWait` and `saved` are the `WaitTimeout` that `TryAcquire` sets and
restores. `shut` holds tunnels that are closed or given to `closeConnAsync`. `Close` may
come before, while or after `Start` runs: `Start` looks at `closed` once, dials, assigns
`healthCancel` without the lock (`SetHealthCancel`) and starts the health checker.
`closer.duringStart` remembers that `Close` came while `Start` was dialing. Assumed of
callers: `Start` is called at most once, and a user holds one handle at a time.

### Handshake, Tickets and StreamHandshake

`Handshake` has one operator for each function of the engine, from a handshake record to
the next. A function that returns an error sets `err` and keeps the fields it had already
changed. `sharedSecret` is the record of what was mixed into it (KEM secret, ticket, static
key, pre-shared key): both peers mix in one order, so the record loses nothing. The
transcript is the sequence of messages, with the first hello replaced by its hash after a
retry. A random value is the handshake's identity and a count. A finished message verifies
when secret, cipher suite and transcript are the receiver's own.

`StreamHandshake` runs the engine: `Dial`, `OnHelloRetryRequest`, `OnServerHello` and
`OnServerFinished` are `initiatorExchangeHellos` and `initiatorFinish`; `OnClientHello` and
`OnClientFinished` the responder's functions, each step from one read to the next. A side
that fails closes its end, as `DialWithConfig` and `performHandshake` do; `ResponderDeadline`
is `HandshakeTimeout`. After both calls returned, `ExportTicket` gives the initiator a
ticket (the repository leaves the transport of tickets to the application) and `Redial`
starts the next connection, with or without it. `Rotate` and `TicketExpires` happen at any
time. The suites a build registers are part of a configuration: today's builds all
register the default suite, and a retry happens between builds that do not.

`Codec` stands between the two drivers: what a side writes is `Encode` of a message, the
sequence of its fields with the lengths, counts and presence flags between them, and what
the other side processes is `Decode` of that. The decoder sees nothing but the sequence, so
a field read at the wrong place reaches the engine. Only what the encoder produces is
decoded.

### DatagramHandshake

A driver is the record of `dgramDriver`, `dgramHandshake` and `handshakeLoop`: the engine
of `Handshake`, the message it expects, the flight it caches, retries, back-off, and what it
lingers for. `onMessage`, `advance` and `commit` are the state machine; `onInbound`,
`onTimeout` and `onComplete` the driver; `Turn` is one turn of the loop. `DialDatagram`,
`InitiatorReceives`, `InitiatorTimeout`, `ResponderReceives`, `ResponderTimeout`,
`startResponder` and `Challenge` are the actions; `NoDial` and `NoTaker` are messages nobody
waits for. `recent` is `recentHellos`. The network is a bag: a message arrives in any order,
is lost (`Lose`), or is copied to arrive at any later time (`Copy`). Timers count ticks. The
clock moves only when no message is under way, apart from late copies: a round trip is
shorter than the first timeout.

### Endpoint

The goroutines of `DatagramHandshake` at a finer grain: each critical section of the
registry's lock and each channel operation is a step. A receive goroutine that handles a
hello looks up the source, compares it with `recentHellos`, reserves the source, builds and
registers the session, starts its goroutine or delivers to an inbox, and checks that the
inbox still has an owner (`reserveSource`, `startResponder`, `unwind`, `routeToOwner`,
`sourceOwner`). A responder's goroutine takes messages, completes or fails, and runs the
steps of `maybeSurface` or `abandon` one after the other, then dispatches the hellos left in
its inbox (`redeliverHellos`). Data for a session without keys is stashed (`stashEarly`) and
flushed by `maybeSurface`. `teardown` is idle reaping.

### Reassembler

A source's buffers are a function from key (sender index and message type) to buffer. A
unit of length is a run of bytes that no fragment boundary splits; a buffer remembers which
message wrote each unit. `fragmentHandshake` cuts a message, at other places when a cookie
takes room. Map order, which picks the buffer evicted among those of one age, is a choice.

### Listener

`stage[c]` is how far the goroutine of connection `c` is; each call of `handshakeConn` that
can fail is a step with both outcomes. `slot` are connections wrapped in `rateLimitedConn`,
whose `Close` gives the address its slot back. `pending` and `results` are the channels.
`deliver` chooses when both of its cases are ready, as `select` does. A connection may
arrive after `Close` until the socket is closed. `PeerCloses` is a received close-notify,
after which `Transport.Close` does not close the connection. `SetConfig` is called before
the first `Accept`.

## Runs

| Run | Bounds | Result |
|---|---|---|
| `replay_window` | two words of three bits, sequence numbers 0 to 9, two goroutines | passes |
| `stream_rekey` | two senders and one peer sender, two sends each, high-water mark 2, cap 3 | passes |
| `stream_close` | one sender per side, both may close, one failed write, fair | passes |
| `datagram_rekey` | two sends, three rekeys, epochs modulo 3, cap 2, fair delivery | passes |
| `datagram_faults` | two rekeys that may time out, one peer sends and closes, cap 1 | passes |
| `pool` | three users, three acquisitions, three dials, `MinConns = MaxConns = 1`, fair | passes |
| `handshake` | 7 initiator and 23 responder configurations, two connections, two rotations, fair | passes |
| `datagram_handshake` | 4 dialers and 4 listeners, one dial, three losses, one late copy, two retransmissions, two responders, fair | passes |
| `endpoint` | two receive goroutines, one source that dials twice, two sessions, inbox and early buffer of one, two data datagrams, fair | passes |
| `reassembler` | eight messages of three sources, two fragment sizes, two sources and two messages each at once | passes |
| `listener` | three connections from two addresses, two callers of two calls, limits 1, 1, 2 and queue 1, fair | passes |
| `close_releases` | one sender, both may close | finding |

**replay_window.** `NeverTwice`: no number is accepted twice. `WindowInv`: the bitmap is
exactly the accepted numbers inside the window. `RejectionIsFinal`: what the peek
rejects no later `Check` would take, so peeking early loses nothing.
`ImplementsFilter`: the bitmap implements `ReplaySpec`. Two words are the fewest with a
carry, and ten numbers go past a window of six, so shifts inside a word, across words
and past the window all happen.

**stream_rekey.** `RecordsOpen`: every record that reaches a live receiver opens.
`NonceNeverReused`: a key seals no number twice. `KeyWearBounded`: a key seals at most one
record more than the cap, which is one more than the repository says (`MCHardCap`, below).
`ImplementsRatchet`: the secrets follow one chain. With a mark of 2 the three senders start
up to two rekeys and run into the cap of 3.

**stream_close.** A failed write and closers: `CloseReturns`; `RekeyCompletes`, which is
claimed only while no write has failed and nobody closes. The cap of 8 is not reached
here.

**datagram_rekey.** `EpochKeysAgree`: until a `Rekey` call is given up or a session closed,
a live epoch number names the same key at both peers. `HeaderNamesKey`: the epoch in a header is the one of the key, although the epoch
is read twice. It holds because the number was drawn first: the wrapped subtraction of
the cap check then refuses the frame. `ImplementsRatchet`, `RekeyCompletes`. Three
rekeys wrap the epoch modulo 3. No call is given up here: what a timeout does to the keys is
what `MCDatagramRetry` shows.

**datagram_faults.** Timeouts, retries and CLOSE: `EpochsAdjacent`, `NonceNeverReused`
and `RekeyReturns`, which assumes nothing of the network.

**pool.** `OneOwner`: a connection is idle, held by one user, or on its way to one
waiter, never two of these. `HandoffNeverBlocks`: sends under the lock never block and
`Close` closes no channel twice. `SizeBounded`: the pool exceeds `MaxConns` by no more
than `MinConns`. `CloseClosesAll`: once `Close` has returned every tunnel is closed, but for
those that a `Start` which was dialing when `Close` came adds afterwards. `CloseReturns`:
any other `Close` returns, unless a dial of the health checker never ends. Three users are
one holder and two waiters; a limit of 1 makes every second user wait. `SizeBounded` is
tight: `Start` and the health checker dial without a slot. The three properties are as
strong as the code allows; what the text of the repository says beyond them is refuted by
`MCPoolMaxConns`, `MCPoolStartClose` and `MCPoolCloseHangs`, below.

**handshake.** `AgreeOnKeys`: whoever finishes shares secret, suites and the view of
resumption with the peer, also when the responder's deadline expires behind the
initiator's back. `OnlyCompatibleComplete` and `CompatibleSucceed` compare the outcome with
`Compatible`, which says what two configurations need in common without mentioning the
protocol: nobody else completes, and these never fail unless the connection is lost or the
deadline expires, so the codec gets every combination of optional fields across.
`TicketHonoured`: a ticket survives one rotation. `HandshakesReturn`: both calls return,
whatever the configurations and whatever is lost; deadlines are not needed for it. The
configurations differ in version, KEM suites (same, retry, none in common), cipher suites,
static keys (none, pinned, wrong, required) and pre-shared keys (none, same, wrong key,
other identity, required). Two connections are one to get a ticket and one to use it; two
rotations make a ticket stale.

**datagram_handshake.** `AgreeOnKeys`: the index a dial keeps names a responder with its
keys, also when a late hello had the endpoint start a second responder. `LossTolerated`: as
many lost messages as there are retransmissions, whichever they are, fail neither the first
dial of an address nor its responder. A cookie is valid for one tick of a schedule that
sends at ticks 0, 1 and 3, and two RETRYs are acted on; in the code it is 10 s of a schedule
of 39.5 s, and three. In both, that is just enough for a dial that is challenged each
time its cookie has expired, and one short after a late copy of its hello was challenged
too (`MCCookieExpired`). `LingerCovers`: while the responder of an established dial may resend its
flight, the initiator is there to answer. `DialReturns`. Two retransmissions are the fewest
with a back-off that meets its cap; the third loss exceeds them. The dialers and listeners
are plain, retried, keyed, pinned and incompatible.

**endpoint.** `HalfOpenExact`: a source holds as many half-open slots as it has responders
that have not released theirs; the endpoint itself dials none of its sources.
`NoHelloStranded`: a hello in the inbox of a goroutine that has ended was served, dropped on
purpose, or is being dispatched again; one that was routed to a responder whose setup then
fails is lost with its inbox, which nobody drains. `EarlyNeverLost`:
data that overtook its session is delivered unless the buffer was full. `DrainEnds`: a
finished goroutine ends. One source with two dials is what makes an old responder meet a
new hello; an inbox of one makes full inboxes common.

**reassembler.** `NoHoles`: a message that is delivered consists of units that messages of
that source, key and length wrote. `TwoFlightsDeliver`: from every reachable state, two
flights of a message deliver it whole, in any order of their fragments, unless a message of
another length is in progress under its key. The messages are a hello, the
longer one after a retry request, two rekeys under one key, and those of other sources, so
that both limits are hit.

**listener.** `SlotsExact`: an address has a slot for each of its open connections beyond the
check. `NoOrphans`: every open connection belongs to a goroutine, the queue or the
application; a result that is queued when the listener closes belongs to the queue, and
stays there unless somebody calls `Accept`. `CloseDrains`: after `Close` the handshake
goroutines end although nobody takes their results, given a `HandshakeTimeout`. Three connections exceed the limit on pending handshakes, two the limit of
their address.

Stated and checked outside the runs, by adding them to the run's configuration: `TypeOK` of
each module, `QuietAgreement` (with no rekey under way both peers can read each other),
`DataWearBounded` (proved, see below), `FreshKeys` (no two connections share a master secret), `OneResponder`
(one handshake per source), `Bounded` and `TimeoutFrees` of `Reassembler`, `AcceptReturns`.

### Disagreements between the code and its text

`close_releases` is a run. A received close-notify sets the flag that makes a later `Close`
return before it closes the session and the connection (`transport.go:410`). For an accepted
connection the slot of its address stays taken as well. The other configurations are run by
hand; TLC reports the property violated in each.

| Configuration | Property | What happens |
|---|---|---|
| `MCResponderCap` | `CapOnlyDuringRekey` | Only the initiator starts a rekey, from its own counters (`transport.go:572`). A responder that sends more runs into the cap with no rekey under way, where `session.go:378` says that a rekey "could not complete". |
| `MCClosedFinal` | `ClosedIsFinal` | `finalizeRekeyStateLocked` stores `Established` without looking at the state (`session.go:851`), so a rekey step after a concurrent `Close` revives the session. |
| `MCHardCap` | `HardCap` | A record numbered just before the switch to a key is sealed under it and passes the cap check (`session.go:383`), and `MaxPackets` more follow. `docs/PROTOCOL.md:234` says that a key "seals at most `MaxPacketsBeforeRekey` (2^28) records", `session.go:377` "Hard cap on how many records this epoch's key seals". The cap is exceeded by one. |
| `MCDatagramRetry` | `NeverDesync` | A rekey tried again after a timeout is answered from the cache with the response for the earlier key pair, because the cache is keyed by the epoch alone (`dgram_rekey.go:298`). Both peers are in one epoch with two keys. `dgram_rekey.go:10` and `docs/datagram-transport.md:91` give the cache as what keeps the peers from a secret that would "desync the epochs". |
| `MCPoolHandoff` | `IdleOrInUse` | A connection sent to a waiter whose timer fires is lost (`pool.go:246`). It stays in `conns`, neither idle nor in use, and its slot with it. |
| `MCPoolMaxConns` | `MaxConnsKept` | `Start` (`pool.go:63`) and the health checker (`pool.go:611`) add connections without a slot, while users dial up to the limit. `pool_config.go:15` says "MaxConns is the maximum number of connections allowed.", and `CHANGELOG.md:16` reports growth past it as fixed. |
| `MCPoolStartClose` | `NothingLeftOpen` | A `Close` while `Start` dials returns; `Start` then adds its connection to the closed pool (`pool.go:63`), where nobody closes it. `pool.go:87` says "Close closes all connections in the pool". |
| `MCPoolCloseHangs` | `CloseAlwaysReturns` | `Close` waits for the health checker (`pool.go:115`), whose dial ends its handshake only when the server answers: `DialTimeout` bounds the TCP connect alone (`pool.go:455`). A `Close` that came while `Start` dialed never calls the `healthCancel` assigned later, and waits for ever if the checker starts before it waits. |
| `MCEndpointClose` | `CloseEnds` | A responder whose inbox holds a hello when the endpoint is closed dispatches it to itself for ever (`dgram_handshake_wire.go:148`): its source is still registered. |
| `MCRedial` | `EveryDialTolerates` | A redial's hello that overtakes the previous dial's ClientFinished goes to the old responder, which takes it for a repeat (`dgram_handshake_fsm.go:105`). The redial fails with nothing lost. |
| `MCCookieExpired` | `EveryDialTolerates` | A late copy of the first hello draws a RETRY of its own. Under pressure and losses the dial's later hellos, with expired cookies, are challenged once more than the RETRYs it acts on (`dgram_handshake_wire.go:263`), and the dial fails with a retransmission that arrived. `docs/datagram-dos.md:82` says that honest clients "pay one extra round trip". |
| `MCHandshakeLifetime` | `ResponderEnds` | A responder that has answered nothing arms no timer and never ends, where `dgram_handshake_driver.go:3` says that a retry ceiling bounds its lifetime. |
| `MCRetryWedged` | `RetryNotWedged` | A leftover fragment of a hello blocks a retried hello of another length until the timeout (`reassembly.go:124`), where line 113 says that a stalled message "cannot wedge a legitimate retry". |
| `MCBurstZero` | `FirstAllowed` | With a rate and `HandshakeBurst` 0 the bucket never holds a token and every handshake is refused (`limiter.go:90`), where `transport.go:142` says "If 0, defaults to 1 when HandshakeRateLimit is set." |

Met while modelling, without a run: `Session.Close` leaves the pending secret and
ciphers of a rekey in memory; a failed `SendRekey` leaves `rekeyInProgress` set;
`Rekey` drains one stale response from an inbox of four; a `Send` whose number predates
an epoch change is refused as exhausted; two overlapping `TryAcquire` calls can leave
`WaitTimeout` at zero; the health checker wakes no waiter; `MaxLifetime` is documented
as closing connections "even if in use" and only idle ones are looked at; results
buffered when the listener closes stay open unless `Accept` is called again;
`maxPendingHandshakes` is documented as covering connections that wait for `Accept`, and
those in the queue no longer count; `SetConfig` writes the limiters that handshake
goroutines read without a lock.

### Fairness

Goroutines that can run do run (weak fairness per goroutine): the Go scheduler, and
mutexes that do not starve. Nothing is assumed about applications: sends, rekeys and
closes may never come. `DatagramRekey!DeliveryFairness` adds that some copy of a message
retransmitted for ever arrives (strong fairness on its delivery); only `RekeyCompletes`
needs it. In `StreamHandshake` each side's goroutine runs, and neither the deadline nor
the network owes anything. In `DatagramHandshake` steps other than losing and copying
happen while some can: what is under way arrives or is lost, and timers fire. In
`Endpoint` every goroutine runs; a responder that waits for a message need not get one. In
`Listener` goroutines run, a handshake ends at its deadline (`HandshakeTimeout > 0`), a
closed socket fails its `Accept`; nobody has to call `Accept` or `Close`. In `StreamTunnel`
a write that blocks ends at its deadline (`transport.go:233`, `:424`; `WriteTimeout > 0`).
In `Pool` the goroutines of `Start`, the health checker and `Close` run; users may stop
anywhere and a dial need not end.

### Bounds

`MaxSends`, `MaxRekeys`, `MaxWriteFailures`, `MaxCalls`, `MaxDials`, `MaxConns` (of
`StreamHandshake`), `MaxRotations`, `MaxLost`, `MaxLate`, `MaxResponders`, `MaxHellos`,
`MaxArrivals`, `MaxData`, `Talking` and `MaxSessions` bound how often the environment
acts. `MaxSeq` bounds how often a closed session that is still registered answers repeated
inits. Deadlock checking is off where the bounded environment simply stops. `RetryCeiling
= 0` makes the first timer the last one: more retransmissions add copies of a datagram
that `net` keeps anyway.

## Proofs

`ReplayWindow_proofs` proves, for every word size, number of words, set of sequence
numbers and set of goroutines (`ReplayAssumption`):

- `WindowIsHistory`: `Spec => [](TypeOK /\ NeverTwice /\ WindowInv)`, and with it
  `TypeCorrect` and `NeverAcceptedTwice`;
- `RejectionsAreFinal`: the action property of the peek;
- `Refinement`: `Spec => ImplementsFilter`.

`NeverTwice` is not inductive: a state with an empty bitmap and a non-zero count would
accept again. The strengthening is `WindowInv`: bit `p` is set exactly when `highSeq - p`
was accepted, `highSeq` is the highest accepted number, and a goroutine that is opening
holds a frame it was given. The work is in `AdvanceShifts`: the word-wise shift with
carry moves position `p` to `p + d` and drops the rest. It rests on the division lemmas
`DivMod`, `DivModUnique`, `WordGap` and `PositionInWord`. `CheckInv` then shows that `Check`
keeps the invariant in each of its branches. `AdmissibleIsFresh` says that under the
invariant the peek is `ReplaySpec!Fresh`, and the refinement follows in `StepIsCall`.

`Listener_proofs` proves, for any finite set of connections and any addresses, callers,
limits and queue bound (`ListenerAssumption`):

- `SlotsAreExact`: `Spec => []SlotsExact`;
- `EveryConnectionOwned`: `Spec => []NoOrphans`.

Neither is inductive. `FlowInv` adds the way of a connection: what the application or the
queue of `Accept` holds is past the address check (`Passed`), and nobody closes a
connection that waits for the check (`Untouched`). Without `Passed`, the application could
close a connection before it had a slot; without `Untouched`, a slot could be taken for a
connection that is already closed. `SlotInv` then says which connections carry a slot
(`Carried`) and that the counters count them (`Counted`), and `SlotStep` takes each action
through `TakeKeepsCount` (one more) and `CloseKeepsCount` (one fewer, once). `OwnerStep`
follows a connection from owner to owner: appending to the queue keeps
what it holds, and `Accept` makes the head the application's.

`Pool_proofs` proves, for any number of users, calls, dials and limits (`PoolAssumption`):

- `EveryConnectionHasOneOwner`: `Spec => []OneOwner`;
- `SendsNeverBlock`: `Spec => []HandoffNeverBlocks`;
- `PoolSizeBounded`: `Spec => []SizeBounded`;
- `NoTunnelForgotten`: `Spec => []CloseClosesAll`, whenever `Close` is called; and `PoolTypes`, `Spec => []TypeOK`.

They follow from one inductive invariant, `IInv`. `OwnInv` puts a connection in one place,
but keeps doing so only if a user who acquires has no handle and only a waiter has
something in its channel (`UserInv`), and if the list of waiters names each once and with an
empty channel (`WaitInv`). `DialInv` ties `pending` to the users who dial and says when
`Start` and the health checker may dial; without it the bound of `SizeInv` is lost at the
first dial that fails. `CloseInv` follows every tunnel from the pool into the hands of
`Close`. `PoolAcquire_proofs` begins with what `RemoveFirst`, `Append` and `Tail` do to a list
without repetitions, for every list; `RemoveFirst` is defined with the first position of an
element, so no induction is needed.

`StreamTunnel_proofs` proves, for any sets of senders and closers, any bounds and caps
(`StreamAssumption`), with writes that fail:

- `NoncesAreUnique`: `Spec => []NonceNeverReused`;
- `KeysWearOut`: `Spec => []KeyWearBounded`;
- `StreamTypeCorrect`: `Spec => []TypeOK`; and, when nobody closes (`Closers = {}`, as in
  the run: `Close` erases the secrets the chain is about),
- `RekeysFollowOneChain`: `Spec => ImplementsRatchet`;
- `QuietPeersAgree`: `Spec => []QuietAgreement`.

The invariant is `IInv` of `StreamSend_proofs`. `NonceInv`: a number that was drawn is held
by one goroutine and was not used. `KeyWearBounded` needs much more. A key may seal one
record numbered before the switch to it, and it is one because data records are numbered
and sealed inside `writeMu` (`Roles`), so that at most one goroutine of a peer is between
the two when the switch happens (`WearInv`); rekey records are numbered outside it, but
there is only one message of a rekey anywhere, with a goroutine or on the wire
(`TokenInv`), and it is not being sealed when its peer switches. A key must also be new
when it is switched to, or its count would start again: its last secret is later than that
of every key the peer used (`FreshInv`), which must be known of the secret in a response
while it travels. Each action keeps `IInv` by a lemma of its own. Most actions touch few
parts, and `QuietKeeps` deals with the rest. `WearCount` maps the uses of a key to
`MaxPackets + 1` slots and takes the count from the library's theorem on injections.

For the refinement, `ChainInv` says that a request under way finds the initiator at the end
of the chain and that a response brings it exactly the secret it lacks (`Told`), that the
responder's pending secret is its master secret with one more (`Pending`), and that each peer
opens what the other seals (`Listens`). `PrepareChain` shows that `PrepareRekeyResponse` is
`Ratchet!Extend`, `ProcessChain` and `ActivateChain` that the switches are `Ratchet!Adopt`,
and every other step leaves the chain alone.

`DatagramRekey_proofs` proves, for any numbers of sends, rekeys and retransmissions, any cap,
inbox and epoch modulus (`DatagramAssumption`), with datagrams that are lost, late and
repeated, rekeys that time out and are tried again, and closers:

- `EpochsStayAdjacent`: `Spec => []EpochsAdjacent`;
- `DatagramNoncesAreUnique`: `Spec => []NonceNeverReused`;
- `HeadersNameKeys`: `Spec => [](Fits => HeaderNamesKey)`;
- `DatagramKeysWearOut`: `Spec => [](Fits => DataWearBounded)`;
- `DatagramTypeCorrect`: `Spec => []TypeOK`;
- `EpochKeysStayEqual`: `Spec => []EpochKeysAgree`, for an epoch counter of more than two
  values: equal epochs have equal keys until the first `Rekey` call is given up or a session
  closed;
- `DatagramKeysFollowOneChain`: `Spec /\ []~disturbed => ImplementsRatchet`, that is, as long
  as neither happens.

`Fits` says that no send counter is within one cap of its width, `2^64` in the code. It is
needed: the frame that a rekey overtook is refused because `seq - startSeq` wraps to a number
above the cap, and close to the width it wraps to a small one. The last two are about
undisturbed sessions: a rekey that is retried after a timeout does end in one epoch with two
keys (`MCDatagramRetry`), and `Close` erases the secrets of the chain. With two
epoch numbers only, the responder's epoch would have the number of the one the initiator
retains.

The invariant is `DatagramInv`. `NonceInv` is as for the stream. `EpochInv` counts the secrets in
a key: `Turns` says that the responder leaves an epoch first, and only from the initiator's.
That an init or a response of long ago cannot move a peer again needs a bound on every
message there is, on the network (`Placed`), in the inbox (`Waiting`) and in the cache
(`RespLate`): an init was sealed under no later epoch than the initiator's, and a response
under one the responder has left. `NameInv` ties the number of an epoch to that count, and
`StaleInv` says that a frame whose header names an ended epoch drew its number before the
current one began, so `DatagramSealTo` refuses it. `WearInv` puts what one key
sealed into an interval of `MaxPackets` numbers, and keys that were left are never used again
(`Spent`); `WearCount` counts the interval. `CalmInv` is the invariant of the sessions
before the first disturbance (`CalmInvariant`; `DisturbedStays` says that there is no way
back): the responder's key is the initiator's or has one secret more
(`Joined`), and every message sealed under the initiator's epoch belongs to the `Rekey` call
under way and, if it is a response, carries the secret the responder has adopted
(`Exchange`). `AnswerExtends` and `CompleteAdopts` are then the two steps of the refinement.

### Only model-checked

All liveness, and whatever needs `ENABLED`: out of the prover's reach. `RecordsOpen` of
`StreamTunnel`, which is true of the run and not of all constants: a rekey record is
numbered before it takes `writeMu`, and if more than `WindowSize` data records overtake it,
the receiver's replay window refuses it. The handshakes, whose engine is a composition of
two dozen operators on a record that a proof would have to open at each step. `Endpoint`
and `Reassembler`: `TwoFlightsDeliver` folds over fragments, and `NoHoles` rests on what that
fold computes.

## Not modelled

The arithmetic of the primitives (`src/pkg/crypto`, `src/pkg/chkem`), the byte layouts of
frames other than handshake messages (`src/pkg/protocol`), metrics, and the command line: no
interleaving or protocol state. Batched and offloaded datagram I/O is system calls, whose
effect is the network of the datagram models. Of the modelled files: ping and pong, read
deadlines, the application's receive queue and the accept queue of datagram sessions, the
addresses that roaming rewrites, `SetConfig` while connections are accepted, dials that
cross between two endpoints, and the statistics and observer calls. Decoders are not given
malformed input.

## Running

In this directory, `tlc -config MCPool.cfg MCPool` checks a run and
`tlapm ReplayWindow_proofs.tla` the proofs of a module; a module with proofs does not check
again those of the modules it extends. The slowest run takes about three minutes, the proofs
of a module up to four.
