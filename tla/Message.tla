------------------------------ MODULE Message -------------------------------
(***************************************************************************)
(* The messages of the protocol between peers and their wire format, and   *)
(* the stream of bytes of one direction of a connection: the sender        *)
(* encodes messages one after the other, recv_message cuts the stream into *)
(* frames and decodes them.  A byte has Base values (256 in the code).     *)
(***************************************************************************)
EXTENDS Integers, Sequences

CONSTANTS
  Base,          \* number of values of a byte
  Messages,      \* the messages that are sent
  Frames,        \* frames [id, payload] that are not the encoding of one
  MaxMessages    \* bound: messages and frames sent

-----------------------------------------------------------------------------
(* encode_integer, decode_integer *)

Bytes == 0 .. Base - 1

\* The numbers that fit into four bytes; encode_integer throws at others.
Words == 0 .. Base * Base * Base * Base - 1

ShiftRight(n) == n \div Base

\* Fault: least significant byte first.
LittleEndian(n) ==
  <<n % Base,
    ShiftRight(n) % Base,
    ShiftRight(ShiftRight(n)) % Base,
    ShiftRight(ShiftRight(ShiftRight(n))) % Base>>

\* Four bytes, most significant first.
EncodeInteger(n) ==
  <<ShiftRight(ShiftRight(ShiftRight(n))) % Base,
    ShiftRight(ShiftRight(n)) % Base,
    ShiftRight(n) % Base,
    n % Base>>

DecodeInteger(b) == ((b[1] * Base + b[2]) * Base + b[3]) * Base + b[4]

-----------------------------------------------------------------------------
(* Message::encode *)

MessageId(m) ==
  CASE m.kind = "Choke" -> 0
    [] m.kind = "Unchoke" -> 1
    [] m.kind = "Interested" -> 2
    [] m.kind = "NotInterested" -> 3
    [] m.kind = "Have" -> 4
    [] m.kind = "Bitfield" -> 5
    [] m.kind = "Request" -> 6
    [] m.kind = "Piece" -> 7

EncodePayload(m) ==
  CASE m.kind = "Have" -> EncodeInteger(m.index)
    [] m.kind = "Bitfield" -> m.storage
    [] m.kind = "Request" ->
         EncodeInteger(m.index) \o EncodeInteger(m.begin) \o EncodeInteger(m.length)
    [] m.kind = "Piece" -> EncodeInteger(m.index) \o EncodeInteger(m.begin) \o m.block
    [] OTHER -> <<>>

\* Fault: the length does not count the identifier.
FrameWithoutId(id, payload) == EncodeInteger(Len(payload)) \o <<id>> \o payload

Frame(id, payload) == EncodeInteger(1 + Len(payload)) \o <<id>> \o payload

KeepAlive == <<0, 0, 0, 0>>

Encode(m) ==
  IF m.kind = "KeepAlive" THEN KeepAlive ELSE Frame(MessageId(m), EncodePayload(m))

-----------------------------------------------------------------------------
(* Message::decode *)

Ok(m) == [valid |-> TRUE, message |-> m]

Error(e) == [valid |-> FALSE, error |-> e]

Word(payload, k) == DecodeInteger([i \in 1 .. 4 |-> payload[4 * (k - 1) + i]])

\* The payload of a message without payload is not looked at: the error
\* UnexpectedPayload is made, but not returned.
DecodeSimple(id, payload) ==
  Ok([kind |-> <<"Choke", "Unchoke", "Interested", "NotInterested">>[id + 1]])

DecodeHave(payload) ==
  IF Len(payload) # 4 THEN Error("InvalidPayloadLength")
                      ELSE Ok([kind |-> "Have", index |-> Word(payload, 1)])

DecodeBitfield(payload) == Ok([kind |-> "Bitfield", storage |-> payload])

DecodeRequest(payload) ==
  IF Len(payload) # 12
    THEN Error("InvalidPayloadLength")
    ELSE Ok([kind |-> "Request", index |-> Word(payload, 1), begin |-> Word(payload, 2),
             length |-> Word(payload, 3)])

DecodePiece(payload) ==
  IF Len(payload) < 8
    THEN Error("InvalidPayloadLength")
    ELSE Ok([kind |-> "Piece", index |-> Word(payload, 1), begin |-> Word(payload, 2),
             block |-> SubSeq(payload, 9, Len(payload))])

DecodeBody(id, payload) ==
  CASE id < 4 -> DecodeSimple(id, payload)
    [] id = 4 -> DecodeHave(payload)
    [] id = 5 -> DecodeBitfield(payload)
    [] id = 6 -> DecodeRequest(payload)
    [] id = 7 -> DecodePiece(payload)
    [] OTHER -> Error("UnknownMessageID")

Decode(buf) ==
  CASE buf = KeepAlive -> Ok([kind |-> "KeepAlive"])
    [] buf # KeepAlive /\ Len(buf) < 5 -> Error("InvalidHeader")
    [] OTHER -> DecodeBody(buf[5], SubSeq(buf, 6, Len(buf)))

-----------------------------------------------------------------------------
(* What is sent *)

WellFormed ==
  [kind : {"KeepAlive", "Choke", "Unchoke", "Interested", "NotInterested"}]
    \union [kind : {"Have"}, index : Words]
    \union [kind : {"Bitfield"}, storage : Seq(Bytes)]
    \union [kind : {"Request"}, index : Words, begin : Words, length : Words]
    \union [kind : {"Piece"}, index : Words, begin : Words, block : Seq(Bytes)]

\* The identifiers fit into a byte, and what encode_integer is given fits into
\* four.
ASSUME MessageAssumption ==
  /\ Base \in Nat
  /\ Base > 7
  /\ MaxMessages \in Nat
  /\ Messages \subseteq WellFormed
  /\ \A m \in Messages : 1 + Len(EncodePayload(m)) \in Words
  /\ Frames \subseteq [id : Bytes, payload : Seq(Bytes)]
  /\ \A f \in Frames : 1 + Len(f.payload) \in Words

-----------------------------------------------------------------------------
(* The stream *)

VARIABLES
  sent,       \* what was sent: messages, and frames that are none
  stream,     \* the bytes under way
  header,     \* the four bytes recv_message has read, or <<>>
  received,   \* the results of recv_message
  connected   \* recv_message destroys the socket on an error

vars == <<sent, stream, header, received, connected>>

Init ==
  /\ sent = <<>>
  /\ stream = <<>>
  /\ header = <<>>
  /\ received = <<>>
  /\ connected = TRUE

Send(m) ==
  /\ connected
  /\ Len(sent) < MaxMessages
  /\ sent' = Append(sent, m)
  /\ stream' = stream \o Encode(m)
  /\ UNCHANGED <<header, received, connected>>

SendFrame(f) ==
  /\ connected
  /\ Len(sent) < MaxMessages
  /\ sent' = Append(sent, [kind |-> "Frame", id |-> f.id, payload |-> f.payload])
  /\ stream' = stream \o Frame(f.id, f.payload)
  /\ UNCHANGED <<header, received, connected>>

\* recv_message reads the length.
ReadLength ==
  /\ connected
  /\ header = <<>>
  /\ Len(stream) >= 4
  /\ header' = SubSeq(stream, 1, 4)
  /\ stream' = SubSeq(stream, 5, Len(stream))
  /\ UNCHANGED <<sent, received, connected>>

\* recv_message reads the rest of the frame and decodes it.
ReadRest ==
  LET n == DecodeInteger(header)
      r == Decode(header \o SubSeq(stream, 1, n))
  IN
  /\ connected
  /\ header # <<>>
  /\ Len(stream) >= n
  /\ received' = Append(received, r)
  /\ connected' = r.valid
  /\ stream' = IF r.valid THEN SubSeq(stream, n + 1, Len(stream)) ELSE <<>>
  /\ header' = <<>>
  /\ UNCHANGED sent

Next ==
  \/ \E m \in Messages : Send(m)
  \/ \E f \in Frames : SendFrame(f)
  \/ ReadLength
  \/ ReadRest

Spec == Init /\ [][Next]_vars

FairSpec == Spec /\ WF_vars(ReadLength \/ ReadRest)

-----------------------------------------------------------------------------
(* Properties *)

\* recv_message delivers exactly the messages that were sent, in order and
\* with every field: the frames are cut where they were joined, and decode
\* inverts encode.  It refuses no message, and delivers nothing behind a
\* frame that it refuses.
StreamFaithful ==
  \A k \in DOMAIN received :
    IF received[k].valid
      THEN sent[k].kind # "Frame" => received[k].message = sent[k]
      ELSE sent[k].kind = "Frame" /\ k = Len(received)

\* Everything that was sent is delivered, unless a frame was refused: no
\* length makes recv_message wait for bytes that do not come.
AllDelivered == [](Len(sent) > 0 => <>(~connected \/ Len(received) = Len(sent)))
=============================================================================
