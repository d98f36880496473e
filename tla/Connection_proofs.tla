------------------------- MODULE Connection_proofs --------------------------
(***************************************************************************)
(* A connection to a peer.  recv_message delivers what was sent, for       *)
(* messages of any kind and length, bytes of any number of values and any  *)
(* number of messages under way.  The methods of Socket keep their         *)
(* promises for operations of any number of parts, whenever the time is up *)
(* and whatever the system answers.                                        *)
(***************************************************************************)
EXTENDS Message, Socket, SequenceTheorems, TLAPS

-----------------------------------------------------------------------------
(* The inductive invariant *)

Items ==
  Messages \union {[kind |-> "Frame", id |-> f.id, payload |-> f.payload] : f \in Frames}

\* The bytes of what was sent.
Wire(x) == IF x.kind = "Frame" THEN Frame(x.id, x.payload) ELSE Encode(x)

\* The bytes that recv_message has not made a message of.
Unread == header \o stream

\* The bytes w are those of b behind the place p.
IsAt(w, b, p) ==
  /\ p + Len(w) <= Len(b)
  /\ \A i \in 1 .. Len(w) : b[p + i] = w[i]

\* The bytes b are those of s[k + 1], s[k + 2] and so on to the last; cut[j] is
\* the place where those of s[j] end.
Cuts(b, s, k) == [k .. Len(s) -> 0 .. Len(b)]

IsCut(cut, b, s, k) ==
  /\ cut[k] = 0
  /\ cut[Len(s)] = Len(b)
  /\ \A i, j \in k .. Len(s) : i <= j => cut[i] <= cut[j]
  /\ \A j \in k + 1 .. Len(s) :
       /\ cut[j] = cut[j - 1] + Len(Wire(s[j]))
       /\ IsAt(Wire(s[j]), b, cut[j - 1])

Errors == {"InvalidHeader", "UnknownMessageID", "InvalidPayloadLength"}

Results == [valid : {TRUE}, message : WellFormed] \union [valid : {FALSE}, error : Errors]

TypeOK ==
  /\ sent \in Seq(Items)
  /\ stream \in Seq(Bytes)
  /\ header \in Seq(Bytes)
  /\ header = <<>> \/ Len(header) = 4
  /\ received \in Seq(Results)
  /\ connected \in BOOLEAN

\* While the connection lasts, every result is a message, and what is under
\* way are the bytes of what was sent since.
StreamSound ==
  connected =>
    /\ Len(received) <= Len(sent)
    /\ \A k \in DOMAIN received : received[k].valid
    /\ \E cut \in Cuts(Unread, sent, Len(received)) : IsCut(cut, Unread, sent, Len(received))

StreamInv == TypeOK /\ StreamSound /\ StreamFaithful
-----------------------------------------------------------------------------
(* Integers on the wire *)

\* A number is its last byte and the rest.
LEMMA ShiftFacts ==
  ASSUME NEW n \in Nat
  PROVE  /\ ShiftRight(n) \in Nat
         /\ n % Base \in Bytes
         /\ n = Base * ShiftRight(n) + (n % Base)
BY MessageAssumption DEF ShiftRight, Bytes

\* The rest has a byte less.
LEMMA ShiftShorter ==
  ASSUME NEW n \in Nat, NEW M \in Nat, n < M * Base
  PROVE  ShiftRight(n) < M
<1> USE MessageAssumption
<1>1. PICK q \in Nat, r \in Bytes : q = ShiftRight(n) /\ n = Base * q + r
  BY ShiftFacts, Zenon
<1>2. Base * q \in Nat /\ M * Base \in Nat
  OBVIOUS
<1>3. n >= Base * q
  BY <1>1, <1>2 DEF Bytes
<1>4. q >= M => Base * q >= M * Base
  OBVIOUS
<1> QED
  BY <1>1, <1>2, <1>3, <1>4

\* A number less than Base is a byte.
LEMMA LastByte ==
  ASSUME NEW n \in Nat, n < Base
  PROVE  n % Base = n
<1>1. n < 1 * Base
  BY MessageAssumption
<1>2. ShiftRight(n) = 0
  BY <1>1, ShiftFacts, ShiftShorter
<1>3. n % Base \in Nat /\ n = Base * 0 + (n % Base)
  BY <1>2, ShiftFacts, MessageAssumption DEF Bytes
<1> QED
  BY <1>3, MessageAssumption

\* decode_integer inverts encode_integer.
LEMMA IntegerInverse ==
  ASSUME NEW n \in Words
  PROVE  /\ EncodeInteger(n) \in Seq(Bytes)
         /\ Len(EncodeInteger(n)) = 4
         /\ DecodeInteger(EncodeInteger(n)) = n
<1> USE MessageAssumption
<1> DEFINE s1 == ShiftRight(n)
           s2 == ShiftRight(s1)
           s3 == ShiftRight(s2)
<1>0. Base * Base \in Nat /\ Base * Base * Base \in Nat
  OBVIOUS
<1>1. n \in Nat /\ n < Base * Base * Base * Base
  BY DEF Words
<1>2. s1 \in Nat /\ s1 < Base * Base * Base /\ n % Base \in Bytes /\ n = Base * s1 + (n % Base)
  BY <1>0, <1>1, ShiftFacts, ShiftShorter, Zenon
<1> HIDE DEF s1
<1>3. s2 \in Nat /\ s2 < Base * Base /\ s1 % Base \in Bytes /\ s1 = Base * s2 + (s1 % Base)
  BY <1>0, <1>2, ShiftFacts, ShiftShorter, Zenon
<1> HIDE DEF s2
<1>4. s3 \in Nat /\ s3 < Base /\ s2 % Base \in Bytes /\ s2 = Base * s3 + (s2 % Base)
  BY <1>3, ShiftFacts, ShiftShorter, Zenon
<1> HIDE DEF s3
<1>5. s3 % Base = s3 /\ s3 \in Bytes
  <2>1. s3 % Base = s3
    BY <1>4, LastByte, Zenon
  <2> QED
    BY <2>1, <1>4 DEF Bytes
<1>6. EncodeInteger(n) = <<s3, s2 % Base, s1 % Base, n % Base>>
  BY <1>5, Zenon DEF EncodeInteger, s1, s2, s3
<1>7. DecodeInteger(EncodeInteger(n)) = n
  <2>1. DecodeInteger(EncodeInteger(n)) =
          ((s3 * Base + (s2 % Base)) * Base + (s1 % Base)) * Base + (n % Base)
    BY <1>6 DEF DecodeInteger
  <2>2. s3 * Base = Base * s3 /\ s2 * Base = Base * s2 /\ s1 * Base = Base * s1
    BY <1>2, <1>3, <1>4
  <2> QED
    BY <2>1, <2>2, <1>2, <1>3, <1>4, Zenon
<1> QED
  BY <1>2, <1>3, <1>4, <1>5, <1>6, <1>7

\* Another byte behind a number.
LEMMA NextByte ==
  ASSUME NEW x \in Nat, NEW y \in Bytes, NEW M \in Nat, x < M
  PROVE  x * Base + y \in Nat /\ x * Base + y < M * Base
<1> USE MessageAssumption
<1>1. (x + 1) * Base <= M * Base
  OBVIOUS
<1>2. x * Base \in Nat /\ M * Base \in Nat /\ (x + 1) * Base = x * Base + Base
  OBVIOUS
<1> QED
  BY <1>1, <1>2 DEF Bytes

\* What decode_integer returns fits into four bytes.
LEMMA DecodedIsWord ==
  ASSUME NEW b, b[1] \in Bytes, b[2] \in Bytes, b[3] \in Bytes, b[4] \in Bytes
  PROVE  DecodeInteger(b) \in Words
<1> DEFINE x2 == b[1] * Base + b[2]
           x3 == x2 * Base + b[3]
           B2 == Base * Base
           B3 == B2 * Base
<1>1. Base \in Nat /\ B2 \in Nat /\ B3 \in Nat
  BY MessageAssumption
<1>2. b[1] \in Nat /\ b[1] < Base
  BY MessageAssumption DEF Bytes
<1>3. x2 \in Nat /\ x2 < B2
  BY <1>1, <1>2, NextByte, Zenon
<1> HIDE DEF x2, B2
<1>4. x3 \in Nat /\ x3 < B3
  BY <1>1, <1>3, NextByte, Zenon
<1> HIDE DEF x3, B3
<1>5. x3 * Base + b[4] \in Nat /\ x3 * Base + b[4] < B3 * Base
  BY <1>1, <1>4, NextByte, Zenon
<1>6. DecodeInteger(b) = x3 * Base + b[4] /\ Words = 0 .. B3 * Base - 1
  BY Zenon DEF DecodeInteger, Words, x2, x3, B2, B3
<1>7. B3 * Base \in Nat
  BY <1>1
<1> QED
  BY <1>5, <1>6, <1>7

-----------------------------------------------------------------------------
(* Frames *)

\* u is s followed by t.
IsJoined(u, s, t) ==
  /\ u \in Seq(Bytes)
  /\ Len(u) = Len(s) + Len(t)
  /\ \A i \in 1 .. Len(s) : u[i] = s[i]
  /\ \A i \in 1 .. Len(t) : u[Len(s) + i] = t[i]

LEMMA Joined ==
  ASSUME NEW s \in Seq(Bytes), NEW t \in Seq(Bytes)
  PROVE  IsJoined(s \o t, s, t)
<1>1. PICK u : u = s \o t
  BY Zenon
<1>2. /\ u \in Seq(Bytes)
      /\ Len(u) = Len(s) + Len(t)
      /\ \A i \in 1 .. Len(s) + Len(t) : u[i] = IF i <= Len(s) THEN s[i] ELSE t[i - Len(s)]
  BY <1>1, ConcatProperties, Zenon
<1>3. Len(s) \in Nat /\ Len(t) \in Nat
  BY LenProperties, Zenon
<1>4. ASSUME NEW i \in 1 .. Len(s) PROVE u[i] = s[i]
  BY <1>2, <1>3
<1>5. ASSUME NEW i \in 1 .. Len(t) PROVE u[Len(s) + i] = t[i]
  <2>1. Len(s) + i \in 1 .. Len(s) + Len(t) /\ ~ (Len(s) + i <= Len(s)) /\ Len(s) + i - Len(s) = i
    BY <1>3
  <2> QED
    BY <2>1, <1>2
<1> QED
  BY <1>1, <1>2, <1>4, <1>5, Zenon DEF IsJoined

\* It does not matter in which order bytes are joined.
LEMMA JoinAssociative ==
  ASSUME NEW s \in Seq(Bytes), NEW t \in Seq(Bytes), NEW u \in Seq(Bytes)
  PROVE  (s \o t) \o u = s \o (t \o u)
<1>1. PICK a, b, c, d : a = s \o t /\ b = a \o u /\ c = t \o u /\ d = s \o c
  BY Zenon
<1>2. IsJoined(a, s, t) /\ IsJoined(c, t, u)
  BY <1>1, Joined, Zenon
<1>3. a \in Seq(Bytes) /\ c \in Seq(Bytes)
  BY <1>2, Zenon DEF IsJoined
<1>4. IsJoined(b, a, u) /\ IsJoined(d, s, c)
  BY <1>1, <1>3, Joined, Zenon
<1>5. Len(s) \in Nat /\ Len(t) \in Nat /\ Len(u) \in Nat
  BY LenProperties, Zenon
<1>6. /\ b \in Seq(Bytes) /\ d \in Seq(Bytes)
      /\ Len(a) = Len(s) + Len(t) /\ Len(c) = Len(t) + Len(u)
      /\ Len(b) = Len(s) + Len(t) + Len(u) /\ Len(d) = Len(s) + Len(t) + Len(u)
  BY <1>2, <1>4, <1>5 DEF IsJoined
<1>7. ASSUME NEW i \in 1 .. Len(b) PROVE b[i] = d[i]
  <2>1. CASE i \in 1 .. Len(s)
    <3>1. i \in 1 .. Len(a)
      BY <1>5, <1>6, <2>1
    <3> QED
      BY <1>2, <1>4, <2>1, <3>1, Zenon DEF IsJoined
  <2>2. ASSUME NEW j \in 1 .. Len(t), i = Len(s) + j PROVE b[i] = d[i]
    <3>1. i \in 1 .. Len(a) /\ j \in 1 .. Len(c)
      BY <1>5, <1>6, <2>2
    <3>2. b[i] = a[i] /\ a[Len(s) + j] = t[j] /\ d[Len(s) + j] = c[j] /\ c[j] = t[j]
      BY <1>2, <1>4, <3>1, Zenon DEF IsJoined
    <3> QED
      BY <2>2, <3>2, Zenon
  <2>3. ASSUME NEW j \in 1 .. Len(u), i = Len(s) + Len(t) + j PROVE b[i] = d[i]
    <3>1. i = Len(a) + j /\ i = Len(s) + (Len(t) + j) /\ Len(t) + j \in 1 .. Len(c)
      BY <1>5, <1>6, <2>3
    <3>2. b[i] = u[j] /\ d[i] = c[Len(t) + j] /\ c[Len(t) + j] = u[j]
      BY <1>2, <1>4, <3>1, Zenon DEF IsJoined
    <3> QED
      BY <3>2, Zenon
  <2>4. \/ i \in 1 .. Len(s)
        \/ i - Len(s) \in 1 .. Len(t) /\ i = Len(s) + (i - Len(s))
        \/ /\ i - Len(s) - Len(t) \in 1 .. Len(u)
           /\ i = Len(s) + Len(t) + (i - Len(s) - Len(t))
    BY <1>5, <1>6
  <2> QED
    BY <2>1, <2>2, <2>3, <2>4, Zenon
<1> QED
  BY <1>1, <1>6, <1>7, SeqEqual, Zenon

\* w has a length, the identifier and the payload, and the length is right.
IsFrame(w, id, p) ==
  /\ w \in Seq(Bytes)
  /\ Len(w) = 5 + Len(p)
  /\ w[5] = id
  /\ \A i \in 1 .. Len(p) : w[5 + i] = p[i]
  /\ DecodeInteger(w) = Len(w) - 4

\* What encode makes of an identifier and a payload.
LEMMA FrameFacts ==
  ASSUME NEW id \in Bytes, NEW p \in Seq(Bytes), 1 + Len(p) \in Words
  PROVE  IsFrame(Frame(id, p), id, p)
<1> DEFINE e == EncodeInteger(1 + Len(p))
           h == e \o <<id>>
<1>1. e \in Seq(Bytes) /\ Len(e) = 4 /\ DecodeInteger(e) = 1 + Len(p)
  BY IntegerInverse, Zenon
<1>2. PICK w : w = Frame(id, p) /\ w = h \o p
  BY Zenon DEF Frame
<1> HIDE DEF e
<1>3. <<id>> \in Seq(Bytes) /\ Len(<<id>>) = 1 /\ <<id>>[1] = id
  OBVIOUS
<1>4. IsJoined(h, e, <<id>>)
  BY <1>1, <1>3, Joined, Zenon
<1> HIDE DEF h
<1>5. h \in Seq(Bytes) /\ Len(h) = 5 /\ h[5] = id /\ \A i \in 1 .. 4 : h[i] = e[i]
  BY <1>1, <1>3, <1>4 DEF IsJoined
<1>6. IsJoined(w, h, p)
  BY <1>2, <1>5, Joined, Zenon
<1>7. /\ w \in Seq(Bytes)
      /\ Len(w) = 5 + Len(p)
      /\ \A i \in 1 .. 5 : w[i] = h[i]
      /\ \A i \in 1 .. Len(p) : w[5 + i] = p[i]
  BY <1>5, <1>6, Zenon DEF IsJoined
<1>8. DecodeInteger(w) = DecodeInteger(e)
  BY <1>5, <1>7 DEF DecodeInteger
<1>9. Len(p) \in Nat
  BY LenProperties, Zenon
<1>10. DecodeInteger(w) = Len(w) - 4
  BY <1>1, <1>7, <1>8, <1>9
<1> QED
  BY <1>2, <1>5, <1>7, <1>10 DEF IsFrame

\* decode finds the identifier and the payload of a frame.
LEMMA FrameDecoded ==
  ASSUME NEW id \in Bytes, NEW p \in Seq(Bytes), 1 + Len(p) \in Words
  PROVE  Decode(Frame(id, p)) = DecodeBody(id, p)
<1>1. PICK w : w = Frame(id, p)
  BY Zenon
<1>2. /\ w \in Seq(Bytes)
      /\ Len(w) = 5 + Len(p)
      /\ w[5] = id
      /\ \A i \in 1 .. Len(p) : w[5 + i] = p[i]
  <2>1. IsFrame(w, id, p)
    BY <1>1, FrameFacts, Zenon
  <2> QED
    BY <2>1, Zenon DEF IsFrame
<1>3. Len(p) \in Nat
  BY LenProperties, Zenon
<1>4. w # KeepAlive /\ ~ (Len(w) < 5)
  <2>1. Len(KeepAlive) = 4
    BY Zenon DEF KeepAlive
  <2>2. ~ (Len(w) < 5) /\ Len(w) # 4
    BY <1>2, <1>3
  <2> QED
    BY <2>1, <2>2, Zenon
<1>5. SubSeq(w, 6, Len(w)) = p
  <2>1. PICK q : q = SubSeq(w, 6, Len(w))
    BY Zenon
  <2>2. \A i \in 6 .. Len(w) : w[i] \in Bytes
    BY <1>2
  <2>3. q \in Seq(Bytes) /\ Len(q) = Len(p) /\ \A i \in 1 .. Len(w) - 6 + 1 : q[i] = w[6 + i - 1]
    BY <1>2, <1>3, <2>1, <2>2, SubSeqProperties
  <2>4. \A i \in 1 .. Len(p) : q[i] = p[i]
    BY <1>2, <1>3, <2>3
  <2> QED
    BY <2>1, <2>3, <2>4, SeqEqual, Zenon
<1>6. Decode(w) = DecodeBody(w[5], SubSeq(w, 6, Len(w)))
  BY <1>4, Zenon DEF Decode
<1> QED
  BY <1>1, <1>2, <1>5, <1>6, Zenon

-----------------------------------------------------------------------------
(* decode inverts encode *)

\* The number that encode_integer put at the k-th place.
LEMMA WordAt ==
  ASSUME NEW n \in Words, NEW p, NEW k \in Nat \ {0},
         \A i \in 1 .. 4 : p[4 * (k - 1) + i] = EncodeInteger(n)[i]
  PROVE  Word(p, k) = n
<1>1. PICK b : b = [i \in 1 .. 4 |-> p[4 * (k - 1) + i]]
  BY Zenon
<1>2. PICK e : e = EncodeInteger(n) /\ DecodeInteger(e) = n
  BY IntegerInverse, Zenon
<1>3. b[1] = e[1] /\ b[2] = e[2] /\ b[3] = e[3] /\ b[4] = e[4]
  BY <1>1, <1>2
<1>4. DecodeInteger(b) = DecodeInteger(e)
  BY <1>3, Zenon DEF DecodeInteger
<1> QED
  BY <1>1, <1>2, <1>4, Zenon DEF Word

\* u is what follows the first n bytes of b.
IsRest(u, b, n) ==
  /\ u \in Seq(Bytes)
  /\ Len(u) = Len(b) - n
  /\ \A i \in 1 .. Len(u) : u[i] = b[n + i]

LEMMA Rest ==
  ASSUME NEW b \in Seq(Bytes), NEW n \in 0 .. Len(b)
  PROVE  IsRest(SubSeq(b, n + 1, Len(b)), b, n)
<1>1. PICK u : u = SubSeq(b, n + 1, Len(b))
  BY Zenon
<1>2. Len(b) \in Nat
  BY LenProperties, Zenon
<1>3. \A i \in n + 1 .. Len(b) : b[i] \in Bytes
  BY <1>2
<1>4. /\ u \in Seq(Bytes)
      /\ Len(u) = Len(b) - n
      /\ \A i \in 1 .. Len(b) - (n + 1) + 1 : u[i] = b[n + 1 + i - 1]
  BY <1>1, <1>2, <1>3, SubSeqProperties
<1>5. ASSUME NEW i \in 1 .. Len(u) PROVE u[i] = b[n + i]
  <2>1. i \in 1 .. Len(b) - (n + 1) + 1 /\ n + 1 + i - 1 = n + i
    BY <1>2, <1>4
  <2> QED
    BY <1>4, <2>1, Zenon
<1> QED
  BY <1>1, <1>4, <1>5, Zenon DEF IsRest

\* What follows a sequence of bytes is what was put behind it.
LEMMA Behind ==
  ASSUME NEW u, NEW s \in Seq(Bytes), NEW t \in Seq(Bytes), IsJoined(u, s, t)
  PROVE  SubSeq(u, Len(s) + 1, Len(u)) = t
<1>1. PICK q : q = SubSeq(u, Len(s) + 1, Len(u))
  BY Zenon
<1>2. Len(s) \in Nat /\ Len(t) \in Nat
  BY LenProperties, Zenon
<1>3. u \in Seq(Bytes) /\ Len(u) = Len(s) + Len(t) /\ \A i \in 1 .. Len(t) : u[Len(s) + i] = t[i]
  BY Zenon DEF IsJoined
<1>4. Len(s) \in 0 .. Len(u)
  BY <1>2, <1>3
<1>5. IsRest(q, u, Len(s))
  BY <1>1, <1>3, <1>4, Rest, Zenon
<1>6. q \in Seq(Bytes) /\ Len(q) = Len(t) /\ \A i \in 1 .. Len(t) : q[i] = t[i]
  BY <1>2, <1>3, <1>5 DEF IsRest
<1> QED
  BY <1>1, <1>6, SeqEqual, Zenon

\* The payload of a message is one of bytes, and decode makes the message of it.
IsPayload(p, id, m) ==
  /\ id \in 0 .. 7
  /\ p \in Seq(Bytes)
  /\ DecodeBody(id, p) = Ok(m)

LEMMA SimplePayload ==
  ASSUME NEW m \in [kind : {"Choke", "Unchoke", "Interested", "NotInterested"}]
  PROVE  IsPayload(EncodePayload(m), MessageId(m), m)
<1>1. EncodePayload(m) = <<>>
  BY Zenon DEF EncodePayload
<1>2. m = [kind |-> m.kind]
  BY Zenon
<1>3. MessageId(m) \in 0 .. 3 /\ DecodeSimple(MessageId(m), <<>>) = Ok([kind |-> m.kind])
  BY DEF MessageId, DecodeSimple
<1>4. DecodeBody(MessageId(m), <<>>) = DecodeSimple(MessageId(m), <<>>)
  BY <1>3 DEF DecodeBody
<1> QED
  BY <1>1, <1>2, <1>3, <1>4 DEF IsPayload

LEMMA HavePayload ==
  ASSUME NEW m \in [kind : {"Have"}, index : Words]
  PROVE  IsPayload(EncodePayload(m), MessageId(m), m)
<1>1. m = [kind |-> "Have", index |-> m.index] /\ m.index \in Words
  BY Zenon
<1>2. PICK p : p = EncodeInteger(m.index)
  BY Zenon
<1>3. EncodePayload(m) = p /\ MessageId(m) = 4
  BY <1>1, <1>2, Zenon DEF EncodePayload, MessageId
<1>4. p \in Seq(Bytes) /\ Len(p) = 4
  BY <1>1, <1>2, IntegerInverse, Zenon
<1>5. Word(p, 1) = m.index
  <2>1. \A i \in 1 .. 4 : p[4 * (1 - 1) + i] = EncodeInteger(m.index)[i]
    BY <1>2
  <2> QED
    BY <1>1, <2>1, WordAt
<1>6. DecodeBody(4, p) = Ok(m)
  BY <1>1, <1>4, <1>5 DEF DecodeBody, DecodeHave
<1> QED
  BY <1>3, <1>4, <1>6 DEF IsPayload

LEMMA BitfieldPayload ==
  ASSUME NEW m \in [kind : {"Bitfield"}, storage : Seq(Bytes)]
  PROVE  IsPayload(EncodePayload(m), MessageId(m), m)
<1>1. m = [kind |-> "Bitfield", storage |-> m.storage] /\ m.storage \in Seq(Bytes)
  BY Zenon
<1>2. EncodePayload(m) = m.storage /\ MessageId(m) = 5
  BY <1>1, Zenon DEF EncodePayload, MessageId
<1>3. DecodeBody(5, m.storage) = Ok(m)
  BY <1>1 DEF DecodeBody, DecodeBitfield
<1> QED
  BY <1>1, <1>2, <1>3 DEF IsPayload

LEMMA RequestPayload ==
  ASSUME NEW m \in [kind : {"Request"}, index : Words, begin : Words, length : Words]
  PROVE  IsPayload(EncodePayload(m), MessageId(m), m)
<1>1. /\ m = [kind |-> "Request", index |-> m.index, begin |-> m.begin, length |-> m.length]
      /\ m.index \in Words /\ m.begin \in Words /\ m.length \in Words
  BY Zenon
<1>2. PICK a, b, c : a = EncodeInteger(m.index) /\ b = EncodeInteger(m.begin) /\ c = EncodeInteger(m.length)
  BY Zenon
<1>3. a \in Seq(Bytes) /\ b \in Seq(Bytes) /\ c \in Seq(Bytes) /\ Len(a) = 4 /\ Len(b) = 4 /\ Len(c) = 4
  BY <1>1, <1>2, IntegerInverse, Zenon
<1>4. PICK q, p : q = a \o b /\ p = q \o c
  BY Zenon
<1>5. EncodePayload(m) = p /\ MessageId(m) = 6
  BY <1>1, <1>2, <1>4, Zenon DEF EncodePayload, MessageId
<1>6. IsJoined(q, a, b)
  BY <1>3, <1>4, Joined, Zenon
<1>7. IsJoined(p, q, c)
  <2>1. q \in Seq(Bytes)
    BY <1>6, Zenon DEF IsJoined
  <2> QED
    BY <1>3, <1>4, <2>1, Joined, Zenon
<1>8. p \in Seq(Bytes) /\ Len(q) = 8 /\ Len(p) = 12
  BY <1>3, <1>6, <1>7 DEF IsJoined
<1>9. \A i \in 1 .. 4 : p[i] = a[i] /\ p[4 + i] = b[i] /\ p[8 + i] = c[i]
  <2>1. /\ \A i \in 1 .. 4 : q[i] = a[i] /\ q[4 + i] = b[i]
        /\ \A i \in 1 .. 4 : p[8 + i] = c[i]
        /\ \A i \in 1 .. 8 : p[i] = q[i]
    BY <1>3, <1>6, <1>7, <1>8, Zenon DEF IsJoined
  <2>2. \A i \in 1 .. 4 : i \in 1 .. 8 /\ 4 + i \in 1 .. 8
    OBVIOUS
  <2> QED
    BY <2>1, <2>2, Zenon
<1>10. Word(p, 1) = m.index
  <2>1. \A i \in 1 .. 4 : p[4 * (1 - 1) + i] = EncodeInteger(m.index)[i]
    BY <1>2, <1>9
  <2> QED
    BY <1>1, <2>1, WordAt
<1>11. Word(p, 2) = m.begin
  <2>1. \A i \in 1 .. 4 : p[4 * (2 - 1) + i] = EncodeInteger(m.begin)[i]
    BY <1>2, <1>9
  <2> QED
    BY <1>1, <2>1, WordAt
<1>12. Word(p, 3) = m.length
  <2>1. \A i \in 1 .. 4 : p[4 * (3 - 1) + i] = EncodeInteger(m.length)[i]
    BY <1>2, <1>9
  <2> QED
    BY <1>1, <2>1, WordAt
<1>13. DecodeBody(6, p) = Ok(m)
  BY <1>1, <1>8, <1>10, <1>11, <1>12 DEF DecodeBody, DecodeRequest
<1> QED
  BY <1>5, <1>8, <1>13 DEF IsPayload

LEMMA PiecePayload ==
  ASSUME NEW m \in [kind : {"Piece"}, index : Words, begin : Words, block : Seq(Bytes)]
  PROVE  IsPayload(EncodePayload(m), MessageId(m), m)
<1>1. /\ m = [kind |-> "Piece", index |-> m.index, begin |-> m.begin, block |-> m.block]
      /\ m.index \in Words /\ m.begin \in Words /\ m.block \in Seq(Bytes)
  BY Zenon
<1>2. PICK a, b, c : a = EncodeInteger(m.index) /\ b = EncodeInteger(m.begin) /\ c = m.block
  BY Zenon
<1>3. a \in Seq(Bytes) /\ b \in Seq(Bytes) /\ c \in Seq(Bytes) /\ Len(a) = 4 /\ Len(b) = 4
  BY <1>1, <1>2, IntegerInverse, Zenon
<1>4. PICK q, p : q = a \o b /\ p = q \o c
  BY Zenon
<1>5. EncodePayload(m) = p /\ MessageId(m) = 7
  BY <1>1, <1>2, <1>4, Zenon DEF EncodePayload, MessageId
<1>6. IsJoined(q, a, b)
  BY <1>3, <1>4, Joined, Zenon
<1>7. q \in Seq(Bytes) /\ IsJoined(p, q, c)
  <2>1. q \in Seq(Bytes)
    BY <1>6, Zenon DEF IsJoined
  <2> QED
    BY <1>3, <1>4, <2>1, Joined, Zenon
<1>8. p \in Seq(Bytes) /\ Len(q) = 8 /\ Len(c) \in Nat /\ Len(p) = 8 + Len(c)
  BY <1>3, <1>6, <1>7 DEF IsJoined
<1>9. \A i \in 1 .. 4 : p[i] = a[i] /\ p[4 + i] = b[i]
  <2>1. /\ \A i \in 1 .. 4 : q[i] = a[i] /\ q[4 + i] = b[i]
        /\ \A i \in 1 .. 8 : p[i] = q[i]
    BY <1>3, <1>6, <1>7, <1>8, Zenon DEF IsJoined
  <2>2. \A i \in 1 .. 4 : i \in 1 .. 8 /\ 4 + i \in 1 .. 8
    OBVIOUS
  <2> QED
    BY <2>1, <2>2, Zenon
<1>10. Word(p, 1) = m.index
  <2>1. \A i \in 1 .. 4 : p[4 * (1 - 1) + i] = EncodeInteger(m.index)[i]
    BY <1>2, <1>9
  <2> QED
    BY <1>1, <2>1, WordAt
<1>11. Word(p, 2) = m.begin
  <2>1. \A i \in 1 .. 4 : p[4 * (2 - 1) + i] = EncodeInteger(m.begin)[i]
    BY <1>2, <1>9
  <2> QED
    BY <1>1, <2>1, WordAt
<1>12. SubSeq(p, 9, Len(p)) = m.block
  <2>1. SubSeq(p, Len(q) + 1, Len(p)) = c
    BY <1>3, <1>7, Behind, Zenon
  <2>2. Len(q) + 1 = 9
    BY <1>8
  <2> QED
    BY <1>2, <2>1, <2>2, Zenon
<1>13. DecodeBody(7, p) = Ok(m)
  <2>1. DecodeBody(7, p) = DecodePiece(p)
    BY DEF DecodeBody
  <2>2. ~ (Len(p) < 8)
    BY <1>8
  <2>3. DecodePiece(p) = Ok([kind |-> "Piece", index |-> m.index, begin |-> m.begin,
                             block |-> m.block])
    BY <1>10, <1>11, <1>12, <2>2, Zenon DEF DecodePiece
  <2> QED
    BY <1>1, <2>1, <2>3, Zenon
<1> QED
  BY <1>5, <1>8, <1>13 DEF IsPayload

\* The bytes of a message or of a frame: the length that they begin with is
\* right, and decode returns a result.
IsWire(w) ==
  /\ w \in Seq(Bytes)
  /\ Len(w) >= 4
  /\ DecodeInteger(w) = Len(w) - 4
  /\ Decode(w) \in Results

\* decode makes of the bytes of a message the message.
LEMMA MessageInverse ==
  ASSUME NEW m \in Messages
  PROVE  IsWire(Encode(m)) /\ Decode(Encode(m)) = Ok(m)
<1>1. m \in WellFormed /\ 1 + Len(EncodePayload(m)) \in Words
  BY MessageAssumption, Zenon
<1>2. Ok(m) \in Results
  BY <1>1, Zenon DEF Results, Ok
<1>3. CASE m.kind = "KeepAlive"
  <2>1. m = [kind |-> "KeepAlive"]
    BY <1>1, <1>3, Zenon DEF WellFormed
  <2>2. Encode(m) = KeepAlive /\ Decode(KeepAlive) = Ok(m)
    BY <1>3, <2>1, Zenon DEF Encode, Decode
  <2>3. KeepAlive \in Seq(Bytes) /\ Len(KeepAlive) = 4 /\ DecodeInteger(KeepAlive) = 0
    BY MessageAssumption DEF KeepAlive, Bytes, DecodeInteger
  <2> QED
    BY <1>2, <2>2, <2>3 DEF IsWire
<1>4. CASE m.kind # "KeepAlive"
  <2> DEFINE id == MessageId(m)
             p == EncodePayload(m)
  <2>1. IsPayload(p, id, m)
    <3>1. CASE m \in [kind : {"KeepAlive", "Choke", "Unchoke", "Interested", "NotInterested"}]
      <4>1. m \in [kind : {"Choke", "Unchoke", "Interested", "NotInterested"}]
        BY <1>4, <3>1, Zenon
      <4> QED
        BY <4>1, SimplePayload, Zenon
    <3>2. CASE m \in [kind : {"Have"}, index : Words]
      BY <3>2, HavePayload, Zenon
    <3>3. CASE m \in [kind : {"Bitfield"}, storage : Seq(Bytes)]
      BY <3>3, BitfieldPayload, Zenon
    <3>4. CASE m \in [kind : {"Request"}, index : Words, begin : Words, length : Words]
      BY <3>4, RequestPayload, Zenon
    <3>5. CASE m \in [kind : {"Piece"}, index : Words, begin : Words, block : Seq(Bytes)]
      BY <3>5, PiecePayload, Zenon
    <3> QED
      BY <1>1, <3>1, <3>2, <3>3, <3>4, <3>5, Zenon DEF WellFormed
  <2>2. Encode(m) = Frame(id, p)
    BY <1>4, Zenon DEF Encode
  <2>3. 1 + Len(p) \in Words
    BY <1>1, Zenon
  <2> HIDE DEF id, p
  <2>4. id \in Bytes /\ p \in Seq(Bytes) /\ DecodeBody(id, p) = Ok(m)
    BY <2>1, MessageAssumption DEF IsPayload, Bytes
  <2>5. PICK w : w = Frame(id, p)
    BY Zenon
  <2>6. IsFrame(w, id, p) /\ Decode(w) = Ok(m)
    BY <2>3, <2>4, <2>5, FrameFacts, FrameDecoded, Zenon
  <2>7. Len(w) >= 4
    BY <2>4, <2>6 DEF IsFrame
  <2> QED
    BY <1>2, <2>2, <2>5, <2>6, <2>7, Zenon DEF IsFrame, IsWire
<1> QED
  BY <1>3, <1>4, Zenon

\* A number that decode reads fits into four bytes.
LEMMA WordIsWord ==
  ASSUME NEW p \in Seq(Bytes), NEW k \in Nat \ {0}, 4 * k <= Len(p)
  PROVE  Word(p, k) \in Words
<1>1. PICK b : b = [i \in 1 .. 4 |-> p[4 * (k - 1) + i]]
  BY Zenon
<1>2. b[1] \in Bytes /\ b[2] \in Bytes /\ b[3] \in Bytes /\ b[4] \in Bytes
  BY <1>1
<1> QED
  BY <1>1, <1>2, DecodedIsWord, Zenon DEF Word

\* decode returns a message or an error for every payload.
LEMMA BodyIsResult ==
  ASSUME NEW id \in Bytes, NEW p \in Seq(Bytes)
  PROVE  DecodeBody(id, p) \in Results
<1>1. \A m \in WellFormed : Ok(m) \in Results
  BY Zenon DEF Results, Ok
<1>2. Error("InvalidPayloadLength") \in Results /\ Error("UnknownMessageID") \in Results
  BY Zenon DEF Results, Errors, Error
<1>3. Len(p) \in Nat /\ id \in Nat
  BY LenProperties, MessageAssumption DEF Bytes
<1>4. CASE id < 4
  <2>1. <<"Choke", "Unchoke", "Interested", "NotInterested">>[id + 1]
          \in {"KeepAlive", "Choke", "Unchoke", "Interested", "NotInterested"}
    BY <1>3, <1>4
  <2>2. DecodeBody(id, p) = DecodeSimple(id, p)
    BY <1>4 DEF DecodeBody
  <2> QED
    BY <1>1, <2>1, <2>2, Zenon DEF DecodeSimple, WellFormed
<1>5. CASE id = 4
  <2>1. DecodeBody(id, p) = DecodeHave(p)
    BY <1>5 DEF DecodeBody
  <2>2. ~ (Len(p) < 4) => Word(p, 1) \in Words
    BY <1>3, WordIsWord
  <2>3. Len(p) = 4 => [kind |-> "Have", index |-> Word(p, 1)] \in WellFormed
    BY <2>2 DEF WellFormed
  <2> QED
    BY <1>1, <1>2, <2>1, <2>3, Zenon DEF DecodeHave
<1>6. CASE id = 5
  <2>1. DecodeBody(id, p) = DecodeBitfield(p)
    BY <1>6 DEF DecodeBody
  <2>2. [kind |-> "Bitfield", storage |-> p] \in WellFormed
    BY Zenon DEF WellFormed
  <2> QED
    BY <1>1, <2>1, <2>2, Zenon DEF DecodeBitfield
<1>7. CASE id = 6
  <2>1. DecodeBody(id, p) = DecodeRequest(p)
    BY <1>7 DEF DecodeBody
  <2>2. ~ (Len(p) < 12) => Word(p, 1) \in Words /\ Word(p, 2) \in Words /\ Word(p, 3) \in Words
    BY <1>3, WordIsWord
  <2>3. Len(p) = 12 => [kind |-> "Request", index |-> Word(p, 1), begin |-> Word(p, 2),
                        length |-> Word(p, 3)] \in WellFormed
    BY <2>2 DEF WellFormed
  <2> QED
    BY <1>1, <1>2, <2>1, <2>3, Zenon DEF DecodeRequest
<1>8. CASE id = 7
  <2>1. DecodeBody(id, p) = DecodePiece(p)
    BY <1>8 DEF DecodeBody
  <2>2. ~ (Len(p) < 8) => Word(p, 1) \in Words /\ Word(p, 2) \in Words
    BY <1>3, WordIsWord
  <2>3. ~ (Len(p) < 8) => SubSeq(p, 9, Len(p)) \in Seq(Bytes)
    BY <1>3, SubSeqProperties
  <2>4. ~ (Len(p) < 8) => [kind |-> "Piece", index |-> Word(p, 1), begin |-> Word(p, 2),
                           block |-> SubSeq(p, 9, Len(p))] \in WellFormed
    BY <2>2, <2>3, Zenon DEF WellFormed
  <2> QED
    BY <1>1, <1>2, <2>1, <2>4, Zenon DEF DecodePiece
<1>9. CASE id > 7
  <2>1. DecodeBody(id, p) = Error("UnknownMessageID")
    BY <1>3, <1>9 DEF DecodeBody
  <2> QED
    BY <1>2, <2>1, Zenon
<1> QED
  BY <1>3, <1>4, <1>5, <1>6, <1>7, <1>8, <1>9

\* The same for what is no message: decode returns some result.
LEMMA WireFacts ==
  ASSUME NEW x \in Items
  PROVE  /\ IsWire(Wire(x))
         /\ x.kind # "Frame" => Decode(Wire(x)) = Ok(x)
<1>1. CASE x \in Messages
  <2>1. x.kind # "Frame"
    BY <1>1, MessageAssumption, Zenon DEF WellFormed
  <2>2. Wire(x) = Encode(x)
    BY <2>1, Zenon DEF Wire
  <2> QED
    BY <1>1, <2>2, MessageInverse, Zenon
<1>2. ASSUME NEW f \in Frames, x = [kind |-> "Frame", id |-> f.id, payload |-> f.payload]
      PROVE  IsWire(Wire(x)) /\ x.kind = "Frame"
  <2>1. f.id \in Bytes /\ f.payload \in Seq(Bytes) /\ 1 + Len(f.payload) \in Words
    BY MessageAssumption, Zenon
  <2>2. PICK w : w = Frame(f.id, f.payload)
    BY Zenon
  <2>3. x.kind = "Frame" /\ Wire(x) = w
    BY <1>2, <2>2, Zenon DEF Wire
  <2>4. IsFrame(w, f.id, f.payload) /\ Decode(w) \in Results
    BY <2>1, <2>2, FrameFacts, FrameDecoded, BodyIsResult, Zenon
  <2>5. Len(w) >= 4
    BY <2>1, <2>4 DEF IsFrame
  <2> QED
    BY <2>3, <2>4, <2>5, Zenon DEF IsFrame, IsWire
<1> QED
  BY <1>1, <1>2, Zenon DEF Items

-----------------------------------------------------------------------------
(* Cutting the stream *)

\* What is sent is put behind what is under way.
LEMMA CutExtends ==
  ASSUME NEW b \in Seq(Bytes), NEW s \in Seq(Items), NEW k \in 0 .. Len(s), NEW x \in Items,
         NEW cut \in Cuts(b, s, k), IsCut(cut, b, s, k),
         NEW u, u = b \o Wire(x), NEW t, t = Append(s, x)
  PROVE  \E c \in Cuts(u, t, k) : IsCut(c, u, t, k)
<1>1. PICK w : w = Wire(x) /\ w \in Seq(Bytes) /\ Len(w) \in Nat
  BY WireFacts, LenProperties, Zenon DEF IsWire
<1>2. IsJoined(u, b, w)
  BY <1>1, Joined, Zenon
<1>3. Len(b) \in Nat /\ Len(s) \in Nat /\ Len(u) = Len(b) + Len(w) /\ \A i \in 1 .. Len(b) : u[i] = b[i]
  BY <1>2, LenProperties, Zenon DEF IsJoined
<1>4. Len(t) = Len(s) + 1 /\ t[Len(s) + 1] = x /\ \A j \in 1 .. Len(s) : t[j] = s[j]
  OBVIOUS
<1> DEFINE c == [j \in k .. Len(t) |-> IF j <= Len(s) THEN cut[j] ELSE Len(u)]
<1>5. \A j \in k .. Len(s) : cut[j] \in 0 .. Len(b) /\ c[j] = cut[j]
  <2>1. \A j \in k .. Len(s) : cut[j] \in 0 .. Len(b)
    BY Zenon DEF Cuts
  <2>2. \A j \in k .. Len(s) : j \in k .. Len(t) /\ j <= Len(s)
    BY <1>3, <1>4
  <2> QED
    BY <2>1, <2>2, Zenon
<1>6. c[Len(s) + 1] = Len(u)
  BY <1>3, <1>4
<1>7. c \in Cuts(u, t, k)
  BY <1>1, <1>3, <1>5 DEF Cuts
<1>8. ASSUME NEW i \in k .. Len(t), NEW j \in k .. Len(t), i <= j
      PROVE  c[i] <= c[j]
  <2>1. CASE j <= Len(s)
    BY <1>5, <1>8, <2>1 DEF IsCut
  <2>2. CASE j = Len(s) + 1
    <3>1. c[i] \in 0 .. Len(u)
      BY <1>7, Zenon DEF Cuts
    <3>2. c[j] = Len(u)
      BY <1>6, <2>2, Zenon
    <3> HIDE DEF c
    <3> QED
      BY <1>1, <1>3, <3>1, <3>2
  <2> QED
    BY <1>3, <1>4, <2>1, <2>2
<1>9. ASSUME NEW j \in k + 1 .. Len(t)
      PROVE  c[j] = c[j - 1] + Len(Wire(t[j])) /\ IsAt(Wire(t[j]), u, c[j - 1])
  <2>1. CASE j <= Len(s)
    <3>1. j \in k + 1 .. Len(s) /\ j - 1 \in k .. Len(s) /\ j \in k .. Len(s) /\ j \in 1 .. Len(s)
      BY <1>3, <2>1
    <3>2. t[j] = s[j] /\ c[j] = cut[j] /\ c[j - 1] = cut[j - 1] /\ cut[j - 1] \in 0 .. Len(b)
      BY <1>4, <1>5, <3>1, Zenon
    <3>3. PICK v : v = Wire(s[j])
      BY Zenon
    <3>4. cut[j] = cut[j - 1] + Len(v) /\ IsAt(v, b, cut[j - 1])
      BY <3>1, <3>3, Zenon DEF IsCut
    <3>5. s[j] \in Items
      BY <3>1, ElementOfSeq, Zenon
    <3>6. Len(v) \in Nat
      BY <3>3, <3>5, WireFacts, LenProperties, Zenon DEF IsWire
    <3>7. IsAt(v, u, cut[j - 1])
      <4>1. PICK p \in Nat : p = cut[j - 1]
        BY <1>3, <3>2
      <4>2. p + Len(v) <= Len(b) /\ \A i \in 1 .. Len(v) : b[p + i] = v[i]
        BY <3>4, <4>1, Zenon DEF IsAt
      <4>3. \A i \in 1 .. Len(v) : p + i \in 1 .. Len(b)
        BY <1>3, <3>6, <4>2
      <4>4. p + Len(v) <= Len(u)
        BY <1>1, <1>3, <3>6, <4>2
      <4> QED
        BY <1>3, <4>1, <4>2, <4>3, <4>4, Zenon DEF IsAt
    <3> QED
      BY <3>2, <3>3, <3>4, <3>7, Zenon
  <2>2. CASE j = Len(s) + 1
    <3>1. t[j] = x /\ c[j] = Len(u) /\ c[j - 1] = Len(b)
      BY <1>3, <1>4, <1>5, <1>6, <2>2 DEF IsCut
    <3>2. IsAt(w, u, Len(b))
      BY <1>2, <1>3 DEF IsAt, IsJoined
    <3> QED
      BY <1>1, <1>3, <3>1, <3>2, Zenon
  <2> QED
    BY <1>3, <1>4, <2>1, <2>2
<1>10. c[k] = 0 /\ c[Len(t)] = Len(u)
  BY <1>3, <1>4, <1>5, <1>6 DEF IsCut
<1> HIDE DEF c
<1> QED
  BY <1>7, <1>8, <1>9, <1>10, Zenon DEF IsCut

\* What is read is taken from the front of what is under way.
LEMMA CutShortens ==
  ASSUME NEW b \in Seq(Bytes), NEW s \in Seq(Items), NEW k \in 0 .. Len(s) - 1,
         NEW cut \in Cuts(b, s, k), IsCut(cut, b, s, k),
         NEW w, w = Wire(s[k + 1]), NEW u, u = SubSeq(b, Len(w) + 1, Len(b))
  PROVE  /\ IsAt(w, b, 0)
         /\ \E c \in Cuts(u, s, k + 1) : IsCut(c, u, s, k + 1)
<1>1. Len(b) \in Nat /\ Len(s) \in Nat
  BY LenProperties, Zenon
<1>2. k + 1 \in 1 .. Len(s) /\ k + 1 \in k .. Len(s) /\ k + 1 \in k + 1 .. Len(s) /\ (k + 1) - 1 = k
  BY <1>1
<1>3. s[k + 1] \in Items
  BY <1>2, ElementOfSeq, Zenon
<1>4. w \in Seq(Bytes) /\ Len(w) \in Nat
  BY <1>3, WireFacts, LenProperties, Zenon DEF IsWire
<1>5. cut[k] = 0 /\ cut[k + 1] = cut[k] + Len(w) /\ IsAt(w, b, cut[k])
  BY <1>2, Zenon DEF IsCut
<1>6. cut[k + 1] = Len(w) /\ IsAt(w, b, 0)
  BY <1>4, <1>5
<1>7. Len(w) <= Len(b)
  BY <1>4, <1>6 DEF IsAt
<1>8. u \in Seq(Bytes) /\ Len(u) = Len(b) - Len(w) /\ \A i \in 1 .. Len(u) : u[i] = b[Len(w) + i]
  <2>1. Len(w) \in 0 .. Len(b)
    BY <1>1, <1>4, <1>7
  <2> QED
    BY <2>1, Rest, Zenon DEF IsRest
<1> DEFINE c == [j \in k + 1 .. Len(s) |-> cut[j] - Len(w)]
<1>9. \A j \in k + 1 .. Len(s) : cut[j] \in Len(w) .. Len(b)
  <2>1. \A j \in k .. Len(s) : cut[j] \in 0 .. Len(b)
    BY Zenon DEF Cuts
  <2>2. \A j \in k + 1 .. Len(s) : j \in k .. Len(s) /\ k + 1 <= j
    BY <1>1
  <2>3. \A j \in k + 1 .. Len(s) : cut[k + 1] <= cut[j]
    BY <1>2, <2>2, Zenon DEF IsCut
  <2> QED
    BY <1>4, <1>6, <2>1, <2>2, <2>3
<1>10. c \in Cuts(u, s, k + 1)
  <2>1. ASSUME NEW j \in k + 1 .. Len(s) PROVE c[j] \in 0 .. Len(u)
    <3>1. cut[j] \in Len(w) .. Len(b) /\ c[j] = cut[j] - Len(w)
      BY <1>9, Zenon
    <3> HIDE DEF c
    <3> QED
      BY <1>1, <1>4, <1>8, <3>1
  <2> QED
    BY <2>1, Zenon DEF Cuts
<1>11. c[k + 1] = 0
  BY <1>2, <1>4, <1>6
<1>12. c[Len(s)] = Len(u)
  <2>1. Len(s) \in k + 1 .. Len(s) /\ cut[Len(s)] = Len(b)
    BY <1>1 DEF IsCut
  <2> QED
    BY <1>8, <2>1, Zenon
<1>13. ASSUME NEW i \in k + 1 .. Len(s), NEW j \in k + 1 .. Len(s), i <= j
       PROVE  c[i] <= c[j]
  <2>1. i \in k .. Len(s) /\ j \in k .. Len(s)
    BY <1>1
  <2>2. cut[i] <= cut[j]
    BY <1>13, <2>1, Zenon DEF IsCut
  <2> QED
    BY <1>1, <1>4, <1>9, <2>2
<1>14. ASSUME NEW j \in (k + 1) + 1 .. Len(s)
       PROVE  c[j] = c[j - 1] + Len(Wire(s[j])) /\ IsAt(Wire(s[j]), u, c[j - 1])
  <2>1. j \in k + 1 .. Len(s) /\ j - 1 \in k + 1 .. Len(s) /\ j \in 1 .. Len(s)
    BY <1>1
  <2>2. s[j] \in Items
    BY <2>1, ElementOfSeq, Zenon
  <2>3. PICK v : v = Wire(s[j]) /\ v \in Seq(Bytes) /\ Len(v) \in Nat
    BY <2>2, WireFacts, LenProperties, Zenon DEF IsWire
  <2>4. cut[j] = cut[j - 1] + Len(v) /\ IsAt(v, b, cut[j - 1])
    BY <2>1, <2>3, Zenon DEF IsCut
  <2>5. PICK p \in Nat : cut[j - 1] = Len(w) + p /\ c[j - 1] = p
    <3>1. cut[j - 1] \in Len(w) .. Len(b) /\ c[j - 1] = cut[j - 1] - Len(w)
      BY <1>9, <2>1, Zenon
    <3> HIDE DEF c
    <3> QED
      BY <1>1, <1>4, <3>1
  <2>6. c[j] = cut[j] - Len(w)
    BY <2>1, Zenon
  <2> HIDE DEF c
  <2>7. (Len(w) + p) + Len(v) <= Len(b) /\ \A i \in 1 .. Len(v) : b[(Len(w) + p) + i] = v[i]
    BY <2>4, <2>5, Zenon DEF IsAt
  <2>8. p + Len(v) <= Len(u)
    BY <1>1, <1>4, <1>8, <2>3, <2>7
  <2>9. ASSUME NEW i \in 1 .. Len(v) PROVE u[p + i] = v[i]
    <3>1. p + i \in 1 .. Len(u) /\ Len(w) + (p + i) = (Len(w) + p) + i
      BY <1>1, <1>4, <1>8, <2>3, <2>8
    <3>2. u[p + i] = b[Len(w) + (p + i)]
      BY <1>8, <3>1, Zenon
    <3>3. b[(Len(w) + p) + i] = v[i]
      BY <2>7, Zenon
    <3> QED
      BY <3>1, <3>2, <3>3, Zenon
  <2>10. c[j] = p + Len(v)
    BY <1>4, <2>3, <2>4, <2>5, <2>6
  <2> QED
    BY <2>3, <2>5, <2>8, <2>9, <2>10, Zenon DEF IsAt
<1> HIDE DEF c
<1> QED
  BY <1>6, <1>10, <1>11, <1>12, <1>13, <1>14, Zenon DEF IsCut

-----------------------------------------------------------------------------
(* The steps *)

\* Sending a message, or a frame that is none.
LEMMA SendStep ==
  ASSUME StreamInv, NEW x \in Items, connected,
         sent' = Append(sent, x), stream' = stream \o Wire(x),
         UNCHANGED <<header, received, connected>>
  PROVE  StreamInv'
<1> USE DEF StreamInv
<1>1. /\ sent \in Seq(Items) /\ stream \in Seq(Bytes) /\ header \in Seq(Bytes)
      /\ Len(sent) \in Nat
      /\ sent' \in Seq(Items)
      /\ Len(sent') = Len(sent) + 1
      /\ \A j \in 1 .. Len(sent) : sent'[j] = sent[j]
  BY DEF TypeOK
<1>2. /\ Len(received) \in Nat
      /\ Len(received) <= Len(sent)
      /\ DOMAIN received = 1 .. Len(received)
      /\ UNCHANGED <<header, received, connected>>
  BY DEF TypeOK, StreamSound
<1>3. Wire(x) \in Seq(Bytes)
  BY WireFacts, Zenon DEF IsWire
<1>4. TypeOK'
  <2>1. stream' \in Seq(Bytes)
    BY <1>1, <1>3, ConcatProperties, Zenon
  <2> QED
    BY <1>1, <1>2, <2>1, Zenon DEF TypeOK
<1>5. StreamSound'
  <2>1. Unread \in Seq(Bytes) /\ Unread' = Unread \o Wire(x)
    <3>1. Unread \in Seq(Bytes)
      BY <1>1, ConcatProperties, Zenon DEF Unread
    <3>2. (header \o stream) \o Wire(x) = header \o (stream \o Wire(x))
      BY <1>1, <1>3, JoinAssociative, Zenon
    <3> QED
      BY <1>2, <3>1, <3>2, Zenon DEF Unread
  <2>2. PICK cut \in Cuts(Unread, sent, Len(received)) :
          IsCut(cut, Unread, sent, Len(received))
    BY Zenon DEF StreamSound
  <2>3. Len(received) \in 0 .. Len(sent)
    BY <1>1, <1>2
  <2>4. \E c \in Cuts(Unread', sent', Len(received)) :
          IsCut(c, Unread', sent', Len(received))
    BY <1>1, <2>1, <2>2, <2>3, CutExtends, Zenon
  <2>5. Len(received) <= Len(sent')
    BY <1>1, <1>2
  <2>6. \A k \in DOMAIN received : received[k].valid
    BY Zenon DEF StreamSound
  <2> QED
    BY <1>2, <2>4, <2>5, <2>6, Zenon DEF StreamSound
<1>6. StreamFaithful'
  <2>1. \A k \in DOMAIN received : k \in 1 .. Len(sent)
    BY <1>1, <1>2
  <2> QED
    BY <1>1, <1>2, <2>1, Zenon DEF StreamFaithful
<1> QED
  BY <1>4, <1>5, <1>6, Zenon

\* recv_message reads the length of a frame.
LEMMA ReadLengthStep ==
  ASSUME StreamInv, ReadLength
  PROVE  StreamInv'
<1> USE DEF StreamInv
<1>1. /\ stream \in Seq(Bytes) /\ Len(stream) \in Nat /\ Len(stream) >= 4
      /\ header = <<>>
      /\ header' = SubSeq(stream, 1, 4)
      /\ stream' = SubSeq(stream, 5, Len(stream))
      /\ UNCHANGED <<sent, received, connected>>
  BY DEF TypeOK, ReadLength
<1>2. header' \in Seq(Bytes) /\ Len(header') = 4
  BY <1>1
<1>3. stream' \in Seq(Bytes)
  BY <1>1
<1>4. TypeOK'
  BY <1>1, <1>2, <1>3, Zenon DEF TypeOK
<1>5. Unread' = Unread
  <2>1. Unread = stream
    BY <1>1, ConcatEmptySeq, Zenon DEF Unread
  <2>2. SubSeq(stream, 1, 4) \o SubSeq(stream, 4 + 1, Len(stream)) = SubSeq(stream, 1, Len(stream))
    BY <1>1, ConcatAdjacentSubSeq
  <2>3. SubSeq(stream, 1, Len(stream)) = stream
    BY <1>1, SubSeqFull, Zenon
  <2> QED
    BY <1>1, <2>1, <2>2, <2>3 DEF Unread
<1>6. StreamSound' /\ StreamFaithful'
  BY <1>1, <1>5, Zenon DEF StreamSound, StreamFaithful
<1> QED
  BY <1>4, <1>6, Zenon

\* The frame that recv_message has read: its bytes are those of what was sent
\* next, and what is left is what follows them.
LEMMA FrameRead ==
  ASSUME StreamInv, ReadRest
  PROVE  LET k == Len(received)
             w == Wire(sent[k + 1])
             n == DecodeInteger(header)
         IN  /\ k \in 0 .. Len(sent) - 1
             /\ header \o SubSeq(stream, 1, n) = w
             /\ SubSeq(stream, n + 1, Len(stream)) = SubSeq(Unread, Len(w) + 1, Len(Unread))
<1> DEFINE k == Len(received)
           w == Wire(sent[k + 1])
           n == DecodeInteger(header)
<1> USE DEF StreamInv
<1>1. /\ sent \in Seq(Items) /\ stream \in Seq(Bytes) /\ header \in Seq(Bytes)
      /\ Len(sent) \in Nat /\ k \in Nat /\ k <= Len(sent)
      /\ Len(stream) \in Nat /\ Len(header) = 4
  BY DEF TypeOK, StreamSound, ReadRest
<1>2. IsJoined(Unread, header, stream)
  BY <1>1, Joined, Zenon DEF Unread
<1>3. /\ Unread \in Seq(Bytes)
      /\ Len(Unread) = 4 + Len(stream)
      /\ \A i \in 1 .. 4 : Unread[i] = header[i]
      /\ \A i \in 1 .. Len(stream) : Unread[4 + i] = stream[i]
  BY <1>1, <1>2, Zenon DEF IsJoined
<1>4. PICK cut \in Cuts(Unread, sent, k) : IsCut(cut, Unread, sent, k)
  BY Zenon DEF StreamSound, ReadRest
<1>5. k # Len(sent)
  <2>1. SUFFICES ASSUME k = Len(sent) PROVE FALSE
    BY Zenon
  <2>2. cut[k] = 0 /\ cut[Len(sent)] = Len(Unread)
    BY <1>4, Zenon DEF IsCut
  <2> QED
    BY <1>1, <1>3, <2>1, <2>2
<1>6. k \in 0 .. Len(sent) - 1 /\ k + 1 \in 1 .. Len(sent)
  BY <1>1, <1>5
<1>7. IsAt(w, Unread, 0)
  BY <1>1, <1>3, <1>4, <1>6, CutShortens, Zenon
<1>8. w \in Seq(Bytes) /\ Len(w) \in Nat /\ Len(w) >= 4 /\ DecodeInteger(w) = Len(w) - 4
  <2>1. sent[k + 1] \in Items
    BY <1>1, <1>6, ElementOfSeq, Zenon
  <2> QED
    BY <2>1, WireFacts, LenProperties, Zenon DEF IsWire
<1> HIDE DEF k, w
<1>9. Len(w) <= Len(Unread) /\ \A i \in 1 .. Len(w) : Unread[i] = w[i]
  BY <1>3, <1>8, <1>7 DEF IsAt
<1>10. n = Len(w) - 4
  <2>1. \A i \in 1 .. 4 : header[i] = w[i]
    BY <1>3, <1>8, <1>9
  <2>2. DecodeInteger(header) = DecodeInteger(w)
    BY <2>1 DEF DecodeInteger
  <2> QED
    BY <1>8, <2>2, Zenon
<1> HIDE DEF n
<1>11. n \in Nat /\ n <= Len(stream)
  BY <1>1, <1>3, <1>8, <1>9, <1>10
<1>12. header \o SubSeq(stream, 1, n) = w
  <2>1. PICK q, f : q = SubSeq(stream, 1, n) /\ f = header \o q
    BY Zenon
  <2>2. q \in Seq(Bytes) /\ Len(q) = n /\ \A i \in 1 .. n : q[i] = stream[i]
    BY <1>1, <1>11, <2>1
  <2>3. IsJoined(f, header, q)
    BY <1>1, <2>1, <2>2, Joined, Zenon
  <2>4. /\ f \in Seq(Bytes)
        /\ Len(f) = 4 + n
        /\ \A i \in 1 .. 4 : f[i] = header[i]
        /\ \A i \in 1 .. n : f[4 + i] = q[i]
    BY <1>1, <2>2, <2>3, Zenon DEF IsJoined
  <2>5. Len(f) = Len(w)
    BY <1>8, <1>10, <2>4
  <2>6. ASSUME NEW i \in 1 .. Len(f) PROVE f[i] = w[i]
    <3>1. f[i] = Unread[i]
      <4>1. CASE i \in 1 .. 4
        BY <1>3, <2>4, <4>1, Zenon
      <4>2. CASE i > 4
        <5>1. PICK j \in 1 .. n : i = 4 + j /\ j \in 1 .. Len(stream)
          <6>1. i - 4 \in 1 .. n /\ i - 4 \in 1 .. Len(stream) /\ i = 4 + (i - 4)
            BY <1>1, <1>11, <2>4, <4>2
          <6> QED
            BY <6>1, Zenon
        <5> QED
          BY <1>3, <2>2, <2>4, <5>1, Zenon
      <4> QED
        BY <1>11, <2>4, <4>1, <4>2
    <3>2. i \in 1 .. Len(w)
      BY <2>5, Zenon
    <3> QED
      BY <1>9, <3>1, <3>2, Zenon
  <2> QED
    BY <1>8, <2>1, <2>4, <2>5, <2>6, SeqEqual, Zenon
<1>13. SubSeq(stream, n + 1, Len(stream)) = SubSeq(Unread, Len(w) + 1, Len(Unread))
  <2>1. PICK a, b : a = SubSeq(stream, n + 1, Len(stream)) /\ b = SubSeq(Unread, Len(w) + 1, Len(Unread))
    BY Zenon
  <2>2. n \in 0 .. Len(stream) /\ Len(w) \in 0 .. Len(Unread)
    BY <1>1, <1>3, <1>8, <1>9, <1>11
  <2>3. IsRest(a, stream, n) /\ IsRest(b, Unread, Len(w))
    BY <1>1, <1>3, <2>1, <2>2, Rest, Zenon
  <2>4. /\ a \in Seq(Bytes) /\ Len(a) = Len(stream) - n
        /\ b \in Seq(Bytes) /\ Len(b) = Len(Unread) - Len(w)
        /\ \A i \in 1 .. Len(a) : a[i] = stream[n + i]
        /\ \A i \in 1 .. Len(b) : b[i] = Unread[Len(w) + i]
    BY <2>3, Zenon DEF IsRest
  <2>5. Len(a) = Len(b)
    BY <1>1, <1>3, <1>8, <1>10, <1>11, <2>4
  <2>6. ASSUME NEW i \in 1 .. Len(a) PROVE a[i] = b[i]
    <3>1. n + i \in 1 .. Len(stream) /\ 4 + (n + i) = Len(w) + i /\ i \in 1 .. Len(b)
      BY <1>1, <1>8, <1>10, <1>11, <2>4, <2>5
    <3> QED
      BY <1>3, <2>4, <3>1, Zenon
  <2> QED
    BY <2>1, <2>4, <2>5, <2>6, SeqEqual, Zenon
<1> QED
  BY <1>6, <1>12, <1>13, Zenon DEF k, w, n

\* recv_message reads the rest of a frame and decodes it.
LEMMA ReadRestStep ==
  ASSUME StreamInv, ReadRest
  PROVE  StreamInv'
<1> DEFINE k == Len(received)
           x == sent[k + 1]
           w == Wire(x)
           n == DecodeInteger(header)
           r == Decode(w)
           rest == SubSeq(Unread, Len(w) + 1, Len(Unread))
<1> USE DEF StreamInv
<1>1. /\ k \in 0 .. Len(sent) - 1
      /\ header \o SubSeq(stream, 1, n) = w
      /\ SubSeq(stream, n + 1, Len(stream)) = rest
  BY FrameRead, Zenon
<1>2. /\ connected
      /\ received' = Append(received, r)
      /\ connected' = r.valid
      /\ stream' = IF r.valid THEN rest ELSE <<>>
      /\ header' = <<>>
      /\ sent' = sent
  BY <1>1, Zenon DEF ReadRest
<1>3. /\ sent \in Seq(Items) /\ Len(sent) \in Nat /\ k \in Nat
      /\ received \in Seq(Results) /\ DOMAIN received = 1 .. k
      /\ Unread \in Seq(Bytes)
  <2>1. stream \in Seq(Bytes) /\ header \in Seq(Bytes)
    BY Zenon DEF TypeOK
  <2>2. Unread \in Seq(Bytes)
    BY <2>1, ConcatProperties, Zenon DEF Unread
  <2> QED
    BY <2>2 DEF TypeOK
<1>4. k + 1 \in 1 .. Len(sent) /\ x \in Items
  <2>1. k + 1 \in 1 .. Len(sent)
    BY <1>1, <1>3
  <2> QED
    BY <1>3, <2>1, ElementOfSeq, Zenon
<1>5. r \in Results /\ (x.kind # "Frame" => r = Ok(x))
  BY <1>4, WireFacts, Zenon DEF IsWire
<1>6. \E c \in Cuts(rest, sent, k + 1) : IsCut(c, rest, sent, k + 1)
  <2>1. PICK cut \in Cuts(Unread, sent, k) : IsCut(cut, Unread, sent, k)
    BY <1>2, Zenon DEF StreamSound
  <2> QED
    BY <1>1, <1>3, <2>1, CutShortens, Zenon
<1>7. rest \in Seq(Bytes)
  BY <1>3
<1> HIDE DEF k, x, w, n, r, rest
<1>8. /\ received' \in Seq(Results)
      /\ Len(received') = k + 1
      /\ DOMAIN received' = 1 .. k + 1
      /\ received'[k + 1] = r
      /\ \A j \in 1 .. k : received'[j] = received[j]
  BY <1>2, <1>3, <1>5 DEF k
<1>9. r.valid \in BOOLEAN
  BY <1>5, Zenon DEF Results
<1>10. \A j \in 1 .. k : received[j].valid
  BY <1>2, <1>3, Zenon DEF StreamSound
<1>11. TypeOK'
  BY <1>2, <1>3, <1>7, <1>8, <1>9 DEF TypeOK
<1>12. StreamSound'
  <2>1. SUFFICES ASSUME connected' PROVE StreamSound'
    BY Zenon DEF StreamSound
  <2>2. r.valid
    BY <1>2, <2>1, Zenon
  <2>3. Unread' = rest
    BY <1>2, <1>7, <2>2, ConcatEmptySeq, Zenon DEF Unread
  <2>4. Len(received') <= Len(sent')
    BY <1>1, <1>2, <1>3, <1>8
  <2>5. \A j \in DOMAIN received' : received'[j].valid
    BY <1>3, <1>8, <1>10, <2>2
  <2> QED
    BY <1>2, <1>6, <1>8, <2>3, <2>4, <2>5, Zenon DEF StreamSound
<1>13. StreamFaithful'
  <2>1. ASSUME NEW j \in 1 .. k
        PROVE  sent[j].kind # "Frame" => received'[j].message = sent[j]
    BY <1>3, <1>8, <1>10, <2>1, Zenon DEF StreamFaithful
  <2>2. r.valid /\ x.kind # "Frame" => r.message = x
    BY <1>5 DEF Ok
  <2>3. ~r.valid => x.kind = "Frame"
    BY <1>5 DEF Ok
  <2>4. x = sent[k + 1]
    BY Zenon DEF x
  <2>5. \A j \in 1 .. k + 1 : j \in 1 .. k \/ j = k + 1
    BY <1>3
  <2>6. ASSUME NEW j \in 1 .. k + 1
        PROVE  IF received'[j].valid
                 THEN sent[j].kind # "Frame" => received'[j].message = sent[j]
                 ELSE sent[j].kind = "Frame" /\ j = Len(received')
    <3>1. CASE j \in 1 .. k
      BY <1>8, <1>10, <2>1, <3>1, Zenon
    <3>2. CASE j = k + 1
      BY <1>8, <1>9, <2>2, <2>3, <2>4, <3>2, Zenon
    <3> QED
      BY <2>5, <3>1, <3>2, Zenon
  <2> QED
    BY <1>2, <1>8, <2>6, Zenon DEF StreamFaithful
<1> QED
  BY <1>11, <1>12, <1>13, Zenon

LEMMA StreamInit ==
  ASSUME Init
  PROVE  StreamInv
<1>1. TypeOK
  BY DEF Init, TypeOK
<1>2. Unread = <<>> /\ Len(Unread) = 0
  BY DEF Init, Unread
<1>3. StreamSound
  <2> DEFINE cut == [j \in 0 .. 0 |-> 0]
  <2>1. Len(sent) = 0 /\ Len(received) = 0 /\ DOMAIN received = {}
    BY DEF Init
  <2>2. cut \in Cuts(Unread, sent, 0)
    BY <1>2, <2>1 DEF Cuts
  <2>3. IsCut(cut, Unread, sent, 0)
    BY <1>2, <2>1 DEF IsCut
  <2> QED
    BY <2>1, <2>2, <2>3 DEF StreamSound
<1>4. StreamFaithful
  BY DEF Init, StreamFaithful
<1> QED
  BY <1>1, <1>3, <1>4, Zenon DEF StreamInv

\* Every step of the sender and of recv_message keeps the invariant.
LEMMA StreamNext ==
  ASSUME StreamInv, [Next]_vars
  PROVE  StreamInv'
<1>1. ASSUME NEW m \in Messages, Send(m) PROVE StreamInv'
  <2>1. m \in Items /\ m.kind # "Frame"
    BY MessageAssumption, Zenon DEF Items, WellFormed
  <2>2. Wire(m) = Encode(m)
    BY <2>1, Zenon DEF Wire
  <2> QED
    BY <1>1, <2>1, <2>2, SendStep, Zenon DEF Send
<1>2. ASSUME NEW f \in Frames, SendFrame(f) PROVE StreamInv'
  <2>1. PICK x : x = [kind |-> "Frame", id |-> f.id, payload |-> f.payload]
    BY Zenon
  <2>2. x \in Items /\ Wire(x) = Frame(f.id, f.payload)
    BY <2>1, Zenon DEF Items, Wire
  <2> QED
    BY <1>2, <2>1, <2>2, SendStep, Zenon DEF SendFrame
<1>3. CASE UNCHANGED vars
  BY <1>3, Zenon DEF vars, StreamInv, TypeOK, StreamSound, StreamFaithful, Unread
<1> QED
  BY <1>1, <1>2, <1>3, ReadLengthStep, ReadRestStep, Zenon DEF Next

-----------------------------------------------------------------------------
(* Theorems *)

\* The invariant of the stream between encode and recv_message: what is under
\* way are the bytes of what was sent and not yet received, one after another.
THEOREM StreamInvariant == Spec => []StreamInv
<1>1. Init => StreamInv
  BY StreamInit, Zenon
<1>2. StreamInv /\ [Next]_vars => StreamInv'
  BY StreamNext, Zenon
<1> QED
  BY <1>1, <1>2, PTL DEF Spec

\* recv_message delivers exactly the messages that were sent, in order and
\* with every field, whatever their number and length, and refuses none of
\* them; it delivers nothing behind a frame that it refuses.
THEOREM StreamStaysFaithful == Spec => []StreamFaithful
<1>1. StreamInv => StreamFaithful
  BY Zenon DEF StreamInv
<1> QED
  BY <1>1, StreamInvariant, PTL

-----------------------------------------------------------------------------
(* Socket *)

\* A new socket is closed and has nothing scheduled.
LEMMA SocketStarts ==
  ASSUME SocketInit
  PROVE  SocketInv
<1>1. 0 \in 0 .. MaxParts
  BY SocketAssumption
<1>2. SocketTypeOK
  BY <1>1 DEF SocketInit, SocketTypeOK, Codes
<1>3. OperationSound /\ CallbackSound /\ ExpirySound /\ TimeoutCloses /\ OKMeansComplete
  BY DEF SocketInit, OperationSound, CallbackSound, ExpirySound, TimeoutCloses, OKMeansComplete
<1>4. QED
  BY <1>2, <1>3 DEF SocketInv

\* connect, read and write schedule an operation and let the runtime run.
LEMMA MethodStarts ==
  ASSUME SocketInv, Connect \/ \E n \in 0 .. MaxParts : Transfer(n)
  PROVE  SocketInv'
<1> USE SocketAssumption
<1>1. PICK n \in 0 .. MaxParts, usable \in BOOLEAN :
        /\ phase = "idle" /\ Schedule(n, usable)
        /\ ec' = "success" /\ phase' = "running" /\ expired' = FALSE
        /\ open' \in BOOLEAN /\ connecting' \in BOOLEAN /\ (connecting' => open') /\ result' = result
  <2>1. open \in BOOLEAN /\ 1 \in 0 .. MaxParts
    BY DEF SocketInv, SocketTypeOK
  <2>2. CASE Connect
    BY <2>1, <2>2 DEF Connect
  <2>3. CASE \E n \in 0 .. MaxParts : Transfer(n)
    BY <2>1, <2>3 DEF Transfer
  <2>4. QED
    BY <2>2, <2>3
<1>2. /\ parts' = n
      /\ op' \in {"waiting", "queued"}
      /\ code' \in {"none", "success", "bad_descriptor"}
      /\ op' = "waiting" => parts' > 0
      /\ op' = "queued" => code' # "none" /\ (parts' = 0 => code' = "success")
  BY <1>1 DEF Schedule
<1>3. SocketTypeOK'
  BY <1>1, <1>2 DEF SocketInv, SocketTypeOK, Codes
<1>4. OperationSound' /\ CallbackSound' /\ ExpirySound'
  BY <1>1, <1>2 DEF OperationSound, CallbackSound, ExpirySound
<1>5. TimeoutCloses' /\ OKMeansComplete'
  BY <1>1 DEF TimeoutCloses, OKMeansComplete
<1>6. QED
  BY <1>3, <1>4, <1>5 DEF SocketInv

\* The runtime runs a callback: the next part is scheduled on the socket as it
\* is, or the operation is over.
LEMMA CallbackKeeps ==
  ASSUME SocketInv, RunCallback
  PROVE  SocketInv'
<1> USE SocketAssumption
<1>1. /\ phase \in {"running", "draining"} /\ op = "queued"
      /\ UNCHANGED <<open, connecting, phase, result, expired>>
  BY DEF RunCallback
<1>2. parts \in 0 .. MaxParts /\ code \in Codes /\ ec \in Codes /\ open \in BOOLEAN /\ connecting \in BOOLEAN
  BY DEF SocketInv, SocketTypeOK
<1>3. CASE code = "success" /\ parts > 1
  <2>1. /\ parts' = parts - 1 /\ parts' > 0 /\ ec' = ec
        /\ \/ open /\ op' = "waiting" /\ code' = "none"
           \/ ~open /\ op' = "queued" /\ code' = "bad_descriptor"
    BY <1>2, <1>3 DEF RunCallback, Schedule
  <2>2. SocketTypeOK'
    BY <1>1, <1>2, <2>1 DEF SocketInv, SocketTypeOK, Codes
  <2>3. OperationSound' /\ CallbackSound' /\ ExpirySound'
    BY <1>1, <2>1 DEF SocketInv, OperationSound, CallbackSound, ExpirySound
  <2>4. QED
    BY <1>1, <2>2, <2>3 DEF SocketInv, TimeoutCloses, OKMeansComplete
<1>4. CASE ~(code = "success" /\ parts > 1)
  <2>1. /\ op' = "none" /\ code' = "none"
        /\ ec' = IF connecting /\ ~open THEN "aborted" ELSE code
        /\ parts' = IF code = "success" THEN 0 ELSE parts
    BY <1>4 DEF RunCallback
  <2>2. SocketTypeOK'
    BY <1>1, <1>2, <2>1 DEF SocketInv, SocketTypeOK, Codes
  <2>3. OperationSound' /\ CallbackSound' /\ ExpirySound'
    BY <1>1, <1>2, <2>1 DEF SocketInv, OperationSound, CallbackSound, ExpirySound
  <2>4. QED
    BY <1>1, <2>2, <2>3 DEF SocketInv, TimeoutCloses, OKMeansComplete
<1>5. QED
  BY <1>3, <1>4

\* The other steps of the system, of time and of a method.
LEMMA OtherStepsKeep ==
  ASSUME SocketInv,
         \/ \E c \in {"success", "failure"} : SystemAnswers(c)
         \/ Expire \/ CloseExpired \/ Return \/ Close \/ UNCHANGED socketVars
  PROVE  SocketInv'
<1> USE SocketAssumption DEF SocketInv, SocketTypeOK, Codes, OperationSound, CallbackSound,
                             ExpirySound, TimeoutCloses, OKMeansComplete
<1>1. CASE \E c \in {"success", "failure"} : SystemAnswers(c)
  BY <1>1 DEF SystemAnswers
<1>2. CASE Expire
  BY <1>2 DEF Expire
<1>3. CASE CloseExpired
  <2>1. open' \in BOOLEAN /\ ~open'
    BY <1>3 DEF CloseExpired
  <2>2. /\ phase = "expired" /\ phase' = "draining" /\ UNCHANGED <<connecting, parts, ec, result, expired>>
        /\ \/ op = "waiting" /\ op' = "queued" /\ code' = "aborted"
           \/ op # "waiting" /\ UNCHANGED <<op, code>>
    BY <1>3 DEF CloseExpired, Cancelled
  <2>3. QED
    BY <2>1, <2>2
<1>4. CASE Return
  BY <1>4 DEF Return, Outcome
<1>5. CASE Close
  <2>1. open' \in BOOLEAN /\ ~open' /\ expired' \in BOOLEAN /\ ~expired' /\ connecting' \in BOOLEAN /\ ~connecting'
    BY <1>5 DEF Close
  <2>2. /\ phase = "idle" /\ result' = "OK" /\ parts' = 0 /\ UNCHANGED <<op, code, ec, phase>>
    BY <1>5 DEF Close
  <2>3. QED
    BY <2>1, <2>2
<1>6. CASE UNCHANGED socketVars
  BY <1>6 DEF socketVars
<1>7. QED
  BY <1>1, <1>2, <1>3, <1>4, <1>5, <1>6

\* The inductive invariant holds in every reachable state.
THEOREM SocketInvariance == SocketSpec => []SocketInv
<1>1. SocketInit => SocketInv
  BY SocketStarts
<1>2. SocketInv /\ [SocketNext]_socketVars => SocketInv'
  BY MethodStarts, CallbackKeeps, OtherStepsKeep DEF SocketNext
<1>3. QED
  BY <1>1, <1>2, PTL DEF SocketSpec

\* The state of the socket is always well-typed.
THEOREM SocketTypeCorrect == SocketSpec => []SocketTypeOK
<1>1. SocketInv => SocketTypeOK
  BY DEF SocketInv
<1>2. QED
  BY <1>1, SocketInvariance, PTL

\* No callback is left behind for a later method to run: none refers to
\* variables of a method that has returned.
THEOREM NothingIsLeftBehind == SocketSpec => []NothingLeftBehind
<1>1. SocketInv => NothingLeftBehind
  BY DEF SocketInv, CallbackSound, NothingLeftBehind
<1>2. QED
  BY <1>1, SocketInvariance, PTL

\* A method whose time was up leaves the socket closed, only such a method
\* reports a timeout, and connect always does.
THEOREM TimeoutAlwaysCloses == SocketSpec => []TimeoutCloses
<1>1. SocketInv => TimeoutCloses
  BY DEF SocketInv
<1>2. QED
  BY <1>1, SocketInvariance, PTL

\* A method that returns OK moved everything, a read or a write that moved
\* everything returns OK, and a connect that returns OK leaves an open socket.
THEOREM OKIsComplete == SocketSpec => []OKMeansComplete
<1>1. SocketInv => OKMeansComplete
  BY DEF SocketInv
<1>2. QED
  BY <1>1, SocketInvariance, PTL
=============================================================================
