------------------------------- MODULE Codec --------------------------------
(***************************************************************************)
(* The encoding of handshake messages (pkg/protocol/codec.go).  An encoded *)
(* message is the sequence of its fields: a value (a version, a suite, a   *)
(* key, a ciphertext, a label) takes one place, and so do the counts,      *)
(* length prefixes and presence flags by which the decoder finds its way.  *)
(* The sizes in bytes and the header's length, which repeats the length of *)
(* the sequence, are left out; so is Random, which no decision depends on, *)
(* and the rejection of input that no encoder produces.                    *)
(***************************************************************************)
EXTENDS Handshake, Integers

\* A field that may be empty, after its length.
LengthPrefixed(x) == IF x = None THEN <<0>> ELSE <<1, x>>

\* A list after its count.
Counted(list) == <<Len(list)>> \o list

\* A presence flag, then the length and the value if there is one.
Optional(x) == IF x = None THEN <<0>> ELSE <<1, 1, x>>

EncodeClientHello(m) ==
    <<"ClientHello", m.version>> \o LengthPrefixed(m.ticket)
    \o <<m.kemSuite>> \o Counted(m.suites) \o LengthPrefixed(m.keyPair)
    \o Counted(m.ciphers) \o Optional(m.static) \o Optional(m.identity)

EncodeServerHello(m) ==
    <<"ServerHello", m.version>> \o LengthPrefixed(m.sessionID)
    \o <<m.kemSuite>> \o LengthPrefixed(m.ct) \o <<m.cipher>>

EncodeHelloRetryRequest(m) == <<"HelloRetryRequest", m.version, m.kemSuite>>

\* The type and the verify data; m also stands for the record that seals the two.
EncodeFinished(m) == <<m.type, m>>

EncodeAlert == <<"Alert">>

Encode(m) ==
    CASE m.type = "ClientHello" -> EncodeClientHello(m)
      [] m.type = "ServerHello" -> EncodeServerHello(m)
      [] m.type = "HelloRetryRequest" -> EncodeHelloRetryRequest(m)
      [] m.type \in {"ClientFinished", "ServerFinished"} -> EncodeFinished(m)
      [] m.type = "Alert" -> EncodeAlert

-----------------------------------------------------------------------------
(* Decoding: at is the place of the next field.  A reader gives the value  *)
(* and the place after it.                                                 *)

GetMessageType(data) == data[1]

readLenPrefixed(data, at) ==
    IF data[at] = 0 THEN [value |-> None, next |-> at + 1]
    ELSE [value |-> data[at + 1], next |-> at + 2]

readCounted(data, at) ==
    [value |-> SubSeq(data, at + 1, at + data[at]), next |-> at + 1 + data[at]]

(* As if an absent field took no place. *)
readOptionalUnflagged(data, at) ==
    IF at > Len(data) \/ data[at] # 1 THEN [value |-> None, next |-> at]
    ELSE readLenPrefixed(data, at + 1)

\* An older peer omits the flag: a field past the end is absent.
readOptional(data, at) ==
    IF at > Len(data) THEN [value |-> None, next |-> at]
    ELSE IF data[at] = 1 THEN readLenPrefixed(data, at + 1)
    ELSE [value |-> None, next |-> at + 1]

DecodeClientHello(data) ==
    LET ticket == readLenPrefixed(data, 3)
        suites == readCounted(data, ticket.next + 1)
        key == readLenPrefixed(data, suites.next)
        ciphers == readCounted(data, key.next)
        static == readOptional(data, ciphers.next)
        identity == readOptional(data, static.next)
    IN [type |-> "ClientHello", version |-> data[2], ticket |-> ticket.value,
        kemSuite |-> data[ticket.next], suites |-> suites.value, keyPair |-> key.value,
        ciphers |-> ciphers.value, static |-> static.value, identity |-> identity.value]

DecodeServerHello(data) ==
    LET id == readLenPrefixed(data, 3)
        ct == readLenPrefixed(data, id.next + 1)
    IN [type |-> "ServerHello", version |-> data[2], sessionID |-> id.value,
        kemSuite |-> data[id.next], ct |-> ct.value, cipher |-> data[ct.next]]

DecodeHelloRetryRequest(data) ==
    [type |-> "HelloRetryRequest", version |-> data[2], kemSuite |-> data[3]]

DecodeFinished(data) == data[2]

\* A message of a type that its reader does not expect.
Unexpected(data) == [type |-> GetMessageType(data)]

Decode(data) ==
    CASE GetMessageType(data) = "ClientHello" -> DecodeClientHello(data)
      [] GetMessageType(data) = "ServerHello" -> DecodeServerHello(data)
      [] GetMessageType(data) = "HelloRetryRequest" -> DecodeHelloRetryRequest(data)
      [] GetMessageType(data) \in {"ClientFinished", "ServerFinished"} -> DecodeFinished(data)
      [] OTHER -> Unexpected(data)
=============================================================================
