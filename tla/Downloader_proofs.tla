------------------------- MODULE Downloader_proofs --------------------------
(***************************************************************************)
(* try_download keeps its books and puts pieces together correctly, for    *)
(* torrents, pieces, blocks and pipelines of any size, any behaviour of    *)
(* the connection, and any peer as long as it has sent, on the connection  *)
(* in use, no block that it was not asked for.                             *)
(***************************************************************************)
EXTENDS Downloader, FiniteSetTheorems, SequenceTheorems, TLAPS

Storages == [1 .. (pieces_count + ByteSize - 1) \div ByteSize -> SUBSET Int]

Requests == [kind : {"Request"}, index : PieceIndices, begin : Nat, length : Nat]

Messages ==
  [kind : {"Other", "Choke", "Unchoke"}]
    \union [kind : {"Bitfield"}, bitfield : Storages]
    \union [kind : {"Have"}, index : PieceIndices]
    \union [kind : {"Piece"}, index : PieceIndices, begin : Nat, length : Nat, good : BOOLEAN]

TypeOK ==
  /\ phase \in {"idle", "connect", "first_message", "greet", "await_unchoke",
                "connected", "request", "await", "undefined"}
  /\ socket \in {"none", "open", "closed"}
  /\ index \in PieceIndices
  /\ blocks_requested \in Nat
  /\ blocks_received \in Nat
  /\ dropped \in Nat
  /\ outbox \in Seq(Requests)
  /\ inbox \in Seq(Messages)
  /\ pending \in SUBSET Requests
  /\ IsFiniteSet(pending)
  /\ has \in SUBSET PieceIndices
  /\ strays \in Nat

Downloading == phase \in {"request", "await"}

\* A connection that is not open carries nothing.
Disconnected ==
  /\ socket # "open" => outbox = <<>> /\ inbox = <<>> /\ pending = {} /\ ~greeted
  /\ phase = "connect" => socket = "none"

\* The counters and the buffer, during a call and outside of one.
CountersSound ==
  /\ ~Downloading => blocks_requested = 0 /\ blocks_received = 0
  /\ Downloading =>
       /\ blocks_received < blocks_total
       /\ blocks_requested <= blocks_total
       /\ blocks_requested - blocks_received <= PIPELINE_SIZE_MAX
       /\ piece = [x \in 0 .. PieceLength(index) - 1 |-> piece[x]]

Answers(box) == {box[k] : k \in PiecesIn(box)}

\* The answer to the request for block b.
IsAnswer(m, b) ==
  /\ m.kind = "Piece"
  /\ m.index = index
  /\ m.begin = Request(b).begin
  /\ m.length = Request(b).length

\* Nothing is under way but requests for different blocks of the piece, in the
\* order of the blocks until the peer takes them, and the answers to them.
RequestsSound ==
  socket = "open" /\ Downloading =>
    /\ blocks_requested - blocks_received = Outstanding + dropped
    /\ \A k \in DOMAIN outbox : outbox[k] = Request(blocks_requested - Len(outbox) + k - 1)
    /\ \A r \in pending : \E b \in 0 .. blocks_requested - Len(outbox) - 1 : r = Request(b)
    /\ \A m \in Answers(inbox) : \E b \in 0 .. blocks_requested - 1 : IsAnswer(m, b)

UnderWay(b) ==
  \/ \E k \in DOMAIN outbox : outbox[k] = Request(b)
  \/ Request(b) \in pending
  \/ \E m \in Answers(inbox) : IsAnswer(m, b)

InBlock(x, b) == Request(b).begin <= x /\ x < Request(b).begin + Request(b).length

\* Unless the peer has sent corrupt bytes or forgotten a request, each block
\* that was requested is under way or in the buffer.
BlocksSound ==
  socket = "open" /\ Downloading =>
    \/ spoilt
    \/ dropped > 0
    \/ \A b \in 0 .. blocks_requested - 1 :
         \/ UnderWay(b)
         \/ \A x \in 0 .. PieceLength(index) - 1 : InBlock(x, b) => piece[x] = <<index, x>>

\* What holds as long as every block was asked for.
Books ==
  /\ phase # "undefined"
  /\ ~Downloading => dropped = 0
  /\ ConnectionIsClean
  /\ RequestsSound
  /\ BlocksSound

\* What is shown by a bitfield is what the peer has.
ShowsOnly(storage) ==
  \A i \in PieceIndices : BitfieldGet(BitfieldOf(storage, pieces_count), i) => i \in has

\* What the peer tells of its pieces is true, and stays true.
TellsSound ==
  \A k \in DOMAIN inbox :
    /\ inbox[k].kind = "Bitfield" => ShowsOnly(inbox[k].bitfield)
    /\ inbox[k].kind = "Have" => inbox[k].index \in has

\* Before the first message was read, it is the first of what is under way;
\* a bitfield shows every piece but those that the peer has got since then.
GreetingSound ==
  socket = "open" /\ phase = "first_message" =>
    /\ outbox = <<>> /\ pending = {}
    /\ ~greeted => inbox = <<>>
    /\ greeted =>
         /\ inbox # <<>>
         /\ inbox[1].kind = "Bitfield" =>
              \A i \in has :
                BitfieldGet(BitfieldOf(inbox[1].bitfield, pieces_count), i) \/ ToldOf(i)

\* The bitfield of the connection is in use.
BitfieldInUse == socket # "none" /\ phase \notin {"connect", "first_message", "undefined"}

\* It is as large as that of the peer.
BitfieldSound == BitfieldInUse => bitfield.storage \in Storages

DownloaderInv ==
  /\ TypeOK
  /\ Disconnected
  /\ CountersSound
  /\ TellsSound
  /\ GreetingSound
  /\ BitfieldSound
  /\ BitfieldIsCurrent
  /\ strays = 0 => Books

\* A step keeps what was said of the pieces that the bitfield may hide.
NewsKept ==
  socket' = "open" =>
    /\ socket = "open"
    /\ \A i \in has' : \/ ToldOf(i)' \/ i \in missed'
                       \/ i \in has /\ i \notin missed /\ ~ToldOf(i)

-----------------------------------------------------------------------------
(* Pieces, blocks and requests *)

\* Division, as the prover has it.
LEMMA DivFacts ==
  ASSUME NEW n \in Nat, NEW d \in Nat \ {0}
  PROVE  /\ n \div d \in Nat
         /\ n % d \in 0 .. d - 1
         /\ n = d * (n \div d) + (n % d)
OBVIOUS

\* As many blocks of the same length are longer.
LEMMA Monotone ==
  ASSUME NEW a \in Int, NEW b \in Int, NEW d \in Nat, a <= b
  PROVE  a * d <= b * d
OBVIOUS

\* What the code means by (n + d - 1) / d: as many parts of d as cover n.
LEMMA CeilDiv ==
  ASSUME NEW n \in Nat \ {0}, NEW d \in Nat \ {0}, NEW q, q = (n + d - 1) \div d
  PROVE  q \in Nat \ {0} /\ (q - 1) * d < n /\ n <= q * d
<1> DEFINE m == n + d - 1
           r == m % d
<1>1. m \in Nat /\ q = m \div d
  OBVIOUS
<1> HIDE DEF m
<1>2. q \in Nat /\ r \in 0 .. d - 1 /\ m = d * q + r
  BY <1>1, DivFacts, Zenon
<1> HIDE DEF r
<1>3. q # 0
  BY <1>1, <1>2 DEF m
<1>4. (q - 1) * d = d * q - d /\ q * d = d * q
  BY <1>2
<1>5. QED
  BY <1>2, <1>3, <1>4 DEF m

\* No piece of a torrent is empty.
LEMMA PieceSizes ==
  /\ pieces_count \in Nat \ {0}
  /\ \A i \in PieceIndices : PieceLength(i) \in Nat \ {0}
<1> USE DownloaderAssumption
<1>1. /\ pieces_count \in Nat \ {0}
      /\ (pieces_count - 1) * piece_length < length
  BY CeilDiv, Zenon DEF pieces_count
<1> HIDE DEF pieces_count
<1>2. (pieces_count - 1) * piece_length \in Int
  BY <1>1
<1>3. QED
  BY <1>1, <1>2 DEF PieceLength, PieceIndices

\* The blocks of a piece cover it.
LEMMA BlockCount ==
  ASSUME index \in PieceIndices
  PROVE  /\ blocks_total \in Nat \ {0}
         /\ (blocks_total - 1) * BLOCK_SIZE < PieceLength(index)
         /\ PieceLength(index) <= blocks_total * BLOCK_SIZE
<1>1. PieceLength(index) \in Nat \ {0}
  BY PieceSizes, Zenon
<1>2. QED
  BY <1>1, CeilDiv, DownloaderAssumption, Zenon DEF blocks_total

\* A request asks for bytes of the piece only.
LEMMA RequestFits ==
  ASSUME index \in PieceIndices, NEW b \in 0 .. blocks_total - 1
  PROVE  /\ Request(b) \in Requests
         /\ Request(b).begin + Request(b).length <= PieceLength(index)
<1> USE DownloaderAssumption, BlockCount
<1>1. /\ PieceLength(index) \in Nat
      /\ b \in Nat
      /\ b * BLOCK_SIZE \in Nat
  BY PieceSizes
<1>2. (b + 1) * BLOCK_SIZE = b * BLOCK_SIZE + BLOCK_SIZE
  OBVIOUS
<1>3. CASE b = blocks_total - 1
  BY <1>1, <1>3 DEF Request, Requests
<1>4. CASE b # blocks_total - 1
  <2>1. (b + 1) * BLOCK_SIZE <= (blocks_total - 1) * BLOCK_SIZE
    BY <1>4, Monotone
  <2>2. QED
    BY <1>1, <1>2, <1>4, <2>1 DEF Request, Requests
<1>5. QED
  BY <1>3, <1>4, Zenon

\* Every byte of the piece is in a block.
LEMMA EveryByteInABlock ==
  ASSUME index \in PieceIndices, NEW x \in 0 .. PieceLength(index) - 1
  PROVE  \E b \in 0 .. blocks_total - 1 : InBlock(x, b)
<1> USE DownloaderAssumption, BlockCount
<1> DEFINE b == x \div BLOCK_SIZE
<1>1. PieceLength(index) \in Nat
  BY PieceSizes, Zenon
<1>2. /\ b \in Nat
      /\ BLOCK_SIZE * b <= x
      /\ x < BLOCK_SIZE * b + BLOCK_SIZE
  BY <1>1, DivFacts
<1> HIDE DEF b
<1>3. b * BLOCK_SIZE = BLOCK_SIZE * b
  BY <1>2
<1>4. b * BLOCK_SIZE < blocks_total * BLOCK_SIZE
  BY <1>1, <1>2, <1>3
<1>5. b < blocks_total
  BY <1>2, <1>4
<1>6. InBlock(x, b)
  BY <1>1, <1>2, <1>3 DEF InBlock, Request
<1>7. QED
  BY <1>2, <1>5, <1>6

\* Two blocks never have the same request.
LEMMA RequestsDiffer ==
  ASSUME NEW a \in Nat, NEW b \in Nat, a # b
  PROVE  Request(a) # Request(b)
<1>1. a * BLOCK_SIZE # b * BLOCK_SIZE
  BY DownloaderAssumption
<1>2. Request(a).begin = a * BLOCK_SIZE /\ Request(b).begin = b * BLOCK_SIZE
  BY Zenon DEF Request
<1>3. QED
  BY <1>1, <1>2, Zenon

-----------------------------------------------------------------------------
(* The bits of a bitfield *)

\* A bit of the bitfield has its own place.
LEMMA MaskIsBit ==
  ASSUME NEW i \in Nat
  PROVE  Mask(i) = {ByteSize - 1 - byte_offset(i)}
<1>1. byte_offset(i) \in 0 .. ByteSize - 1
  BY DivFacts, DownloaderAssumption, Zenon DEF byte_offset
<1>2. QED
  BY <1>1, DownloaderAssumption DEF Mask, ShiftRight, INDEX_ZERO

\* A piece has its byte in a bitfield.
LEMMA ByteOfPiece ==
  ASSUME NEW i \in PieceIndices
  PROVE  /\ i \in Nat /\ i < pieces_count
         /\ byte_index(i) \in Nat /\ byte_offset(i) \in 0 .. ByteSize - 1
         /\ i = ByteSize * byte_index(i) + byte_offset(i)
         /\ byte_index(i) + 1 \in 1 .. (pieces_count + ByteSize - 1) \div ByteSize
         /\ Mask(i) = {ByteSize - 1 - byte_offset(i)}
<1> USE DownloaderAssumption
<1> DEFINE j == byte_index(i)
           o == byte_offset(i)
           q == (pieces_count + ByteSize - 1) \div ByteSize
<1>1. pieces_count \in Nat \ {0}
  BY PieceSizes, Zenon
<1>2. i \in Nat /\ i < pieces_count
  BY <1>1 DEF PieceIndices
<1>3. j \in Nat /\ o \in 0 .. ByteSize - 1 /\ i = ByteSize * j + o
  BY <1>2, DivFacts, Zenon DEF byte_index, byte_offset
<1>4. j + 1 \in 1 .. q
  <2>1. q \in Nat /\ pieces_count <= q * ByteSize
    BY <1>1, CeilDiv, Zenon
  <2> HIDE DEF q, j, o
  <2>2. ByteSize * j < q * ByteSize
    BY <1>1, <1>2, <1>3, <2>1
  <2>3. j < q
    BY <1>3, <2>1, <2>2
  <2>4. QED
    BY <1>3, <2>1, <2>3
<1>5. QED
  BY <1>2, <1>3, <1>4, MaskIsBit, Zenon

\* What the peer writes for a set of pieces is read back as that set.
LEMMA PayloadReadBack ==
  ASSUME NEW S \in SUBSET PieceIndices
  PROVE  /\ Payload(S) \in Storages
         /\ \A i \in PieceIndices :
              BitfieldGet(BitfieldOf(Payload(S), pieces_count), i) <=> i \in S
<1> USE DownloaderAssumption
<1>1. pieces_count \in Nat \ {0}
  BY PieceSizes, Zenon
<1>2. Payload(S) \in Storages
  BY <1>1 DEF Payload, Storages, PieceIndices
<1>3. ASSUME NEW i \in PieceIndices
      PROVE  BitfieldGet(BitfieldOf(Payload(S), pieces_count), i) <=> i \in S
  <2> DEFINE j == byte_index(i)
             o == byte_offset(i)
  <2>1. i \in Nat /\ i < pieces_count
    BY ByteOfPiece, Zenon
  <2>2. j \in Nat /\ o \in 0 .. ByteSize - 1 /\ i = ByteSize * j + o
    BY ByteOfPiece, Zenon
  <2>3. j + 1 \in 1 .. (pieces_count + ByteSize - 1) \div ByteSize
    BY ByteOfPiece, Zenon
  <2>4. Mask(i) = {ByteSize - 1 - o}
    BY ByteOfPiece, Zenon
  <2> HIDE DEF j, o
  <2>5. (j + 1) * ByteSize = ByteSize * j + ByteSize /\ ((j + 1) - 1) * ByteSize = ByteSize * j
    BY <2>2
  <2>6. Payload(S)[j + 1] =
          {ByteSize * j + ByteSize - 1 - e :
             e \in S \cap (ByteSize * j .. ByteSize * j + ByteSize - 1)}
    BY <2>3, <2>5 DEF Payload
  <2>7. ByteSize - 1 - o \in Payload(S)[j + 1] <=> i \in S
    <3>1. ASSUME NEW e \in S, ByteSize - 1 - o = ByteSize * j + ByteSize - 1 - e
          PROVE  e = i
      BY <2>1, <2>2, <3>1 DEF PieceIndices
    <3>2. ByteSize * j + ByteSize - 1 - i = ByteSize - 1 - o
      BY <2>1, <2>2
    <3>3. i \in ByteSize * j .. ByteSize * j + ByteSize - 1
      BY <2>1, <2>2
    <3>4. QED
      BY <2>6, <3>1, <3>2, <3>3, Zenon
  <2>8. BitfieldGet(BitfieldOf(Payload(S), pieces_count), i)
          <=> Payload(S)[j + 1] \cap Mask(i) # {}
    BY Zenon DEF BitfieldGet, BitfieldOf, j
  <2>9. QED
    BY <2>4, <2>7, <2>8, Zenon
<1>4. QED
  BY <1>2, <1>3, Zenon

\* Bitfield::set sets the bit of its index and changes no other.
LEMMA SetChangesOneBit ==
  ASSUME NEW old, old.storage \in Storages, NEW i \in PieceIndices
  PROVE  /\ BitfieldSet(old, i).storage \in Storages
         /\ \A e \in PieceIndices :
              BitfieldGet(BitfieldSet(old, i), e) <=> BitfieldGet(old, e) \/ e = i
<1> USE DownloaderAssumption
<1> DEFINE b == BitfieldSet(old, i)
           storage == old.storage
<1>1. byte_index(i) + 1 \in DOMAIN storage /\ DOMAIN storage = DOMAIN b.storage
  BY ByteOfPiece, Zenon DEF Storages, BitfieldSet, BitfieldOf
<1>2. ASSUME NEW e \in PieceIndices
      PROVE  /\ e = ByteSize * byte_index(e) + byte_offset(e)
             /\ byte_index(e) \in Nat
             /\ byte_offset(e) \in 0 .. ByteSize - 1
             /\ Mask(e) = {ByteSize - 1 - byte_offset(e)}
  BY ByteOfPiece, Zenon
<1>3. b.storage = [storage EXCEPT ![byte_index(i) + 1] = @ \union Mask(i)]
  BY Zenon DEF BitfieldSet, BitfieldOf
<1>4. Mask(i) \in SUBSET Int
  BY <1>2
<1>5. b.storage \in Storages
  BY <1>3, <1>4, Zenon DEF Storages
<1>6. ASSUME NEW e \in PieceIndices, BitfieldGet(b, e), e # i
      PROVE  BitfieldGet(old, e)
  <2>1. CASE byte_index(e) = byte_index(i)
    <3>1. byte_offset(e) # byte_offset(i)
      BY <1>2, <1>6, <2>1, Zenon
    <3>2. Mask(e) \cap Mask(i) = {}
      BY <1>2, <3>1
    <3>3. b.storage[byte_index(e) + 1] \subseteq storage[byte_index(e) + 1] \union Mask(i)
      BY <1>3, <2>1, Zenon DEF Storages
    <3>4. QED
      BY <1>6, <3>2, <3>3, Zenon DEF BitfieldGet
  <2>2. CASE byte_index(e) # byte_index(i)
    <3>1. b.storage[byte_index(e) + 1] = storage[byte_index(e) + 1]
      <4>1. byte_index(e) + 1 # byte_index(i) + 1
        BY <1>2, <2>2
      <4>2. QED
        BY <1>3, <4>1 DEF Storages
    <3>2. QED
      BY <1>6, <3>1, Zenon DEF BitfieldGet
  <2>3. QED
    BY <2>1, <2>2, Zenon
<1>7. BitfieldGet(b, i)
  <2>1. b.storage[byte_index(i) + 1] = storage[byte_index(i) + 1] \union Mask(i)
    BY <1>1, <1>3, Zenon
  <2>2. Mask(i) # {}
    BY <1>2, Zenon
  <2>3. QED
    BY <2>1, <2>2, Zenon DEF BitfieldGet
<1>8. ASSUME NEW e \in PieceIndices, BitfieldGet(old, e)
      PROVE  BitfieldGet(b, e)
  <2>1. storage[byte_index(e) + 1] \subseteq b.storage[byte_index(e) + 1]
    <3>1. CASE byte_index(e) + 1 = byte_index(i) + 1
      BY <1>1, <1>3, <3>1, Zenon
    <3>2. CASE byte_index(e) + 1 # byte_index(i) + 1
      <4>1. byte_index(e) + 1 \in DOMAIN storage
        BY ByteOfPiece, Zenon DEF Storages
      <4>2. QED
        BY <1>3, <3>2, <4>1, Zenon
    <3>3. QED
      BY <3>1, <3>2, Zenon
  <2>2. QED
    BY <1>8, <2>1, Zenon DEF BitfieldGet
<1>9. QED
  BY <1>5, <1>6, <1>7, <1>8, Zenon

-----------------------------------------------------------------------------
(* The messages of a connection *)

\* A message is sent: it is the last.
LEMMA SendFacts ==
  ASSUME NEW box \in Seq(Messages), NEW m \in Messages
  PROVE  /\ Append(box, m) \in Seq(Messages)
         /\ \A k \in DOMAIN Append(box, m) :
              (k \in DOMAIN box /\ Append(box, m)[k] = box[k]) \/ Append(box, m)[k] = m
         /\ IsFiniteSet(PiecesIn(box))
         /\ IF m.kind = "Piece"
              THEN /\ Cardinality(PiecesIn(Append(box, m))) = Cardinality(PiecesIn(box)) + 1
                   /\ Answers(Append(box, m)) = Answers(box) \union {m}
              ELSE /\ Cardinality(PiecesIn(Append(box, m))) = Cardinality(PiecesIn(box))
                   /\ Answers(Append(box, m)) = Answers(box)
<1> DEFINE new == Append(box, m)
<1>1. /\ new \in Seq(Messages)
      /\ DOMAIN box = 1 .. Len(box) /\ Len(box) \in Nat
      /\ DOMAIN new = 1 .. Len(box) + 1
      /\ \A k \in 1 .. Len(box) : new[k] = box[k]
      /\ new[Len(box) + 1] = m
  BY AppendProperties, LenProperties
<1> HIDE DEF new
<1>2. IsFiniteSet(PiecesIn(box))
  <2>1. IsFiniteSet(1 .. Len(box))
    BY <1>1, FS_Interval
  <2>2. PiecesIn(box) \in SUBSET (1 .. Len(box))
    BY <1>1, Zenon DEF PiecesIn
  <2>3. QED
    BY <2>1, <2>2, FS_Subset, Zenon
<1>3. CASE m.kind = "Piece"
  <2>1. PiecesIn(new) = PiecesIn(box) \union {Len(box) + 1}
    BY <1>1, <1>3 DEF PiecesIn
  <2>2. Len(box) + 1 \notin PiecesIn(box)
    BY <1>1 DEF PiecesIn
  <2>3. Cardinality(PiecesIn(new)) = Cardinality(PiecesIn(box)) + 1
    BY <1>2, <2>1, <2>2, FS_AddElement, Zenon
  <2>4. Answers(new) = Answers(box) \union {m}
    BY <1>1, <2>1 DEF Answers, PiecesIn
  <2>5. QED
    BY <1>1, <1>2, <1>3, <2>3, <2>4 DEF new
<1>4. CASE m.kind # "Piece"
  <2>1. PiecesIn(new) = PiecesIn(box)
    BY <1>1, <1>4 DEF PiecesIn
  <2>2. Answers(new) = Answers(box)
    BY <1>1, <2>1, Zenon DEF Answers, PiecesIn
  <2>3. QED
    BY <1>1, <1>2, <1>4, <2>1, <2>2 DEF new
<1>5. QED
  BY <1>3, <1>4, Zenon

\* A message is received: it was the first.
LEMMA ReceiveFacts ==
  ASSUME NEW box \in Seq(Messages), box # <<>>
  PROVE  /\ Head(box) \in Messages /\ Head(box) = box[1] /\ 1 \in DOMAIN box
         /\ Tail(box) \in Seq(Messages)
         /\ \A k \in DOMAIN Tail(box) : k + 1 \in DOMAIN box /\ Tail(box)[k] = box[k + 1]
         /\ IsFiniteSet(PiecesIn(box)) /\ IsFiniteSet(PiecesIn(Tail(box)))
         /\ IF Head(box).kind = "Piece"
              THEN /\ Cardinality(PiecesIn(box)) = Cardinality(PiecesIn(Tail(box))) + 1
                   /\ Answers(box) = Answers(Tail(box)) \union {Head(box)}
              ELSE /\ Cardinality(PiecesIn(box)) = Cardinality(PiecesIn(Tail(box)))
                   /\ Answers(box) = Answers(Tail(box))
<1> DEFINE new == Tail(box)
           old == PiecesIn(box) \ {1}
<1>1. /\ Head(box) \in Messages /\ Head(box) = box[1]
      /\ new \in Seq(Messages)
      /\ Len(box) \in Nat \ {0} /\ DOMAIN box = 1 .. Len(box)
      /\ DOMAIN new = 1 .. Len(box) - 1
      /\ \A k \in 1 .. Len(box) - 1 : new[k] = box[k + 1]
  BY HeadTailProperties, LenProperties, EmptySeq
<1> HIDE DEF new
<1>2. IsFiniteSet(PiecesIn(box))
  <2>1. IsFiniteSet(1 .. Len(box))
    BY <1>1, FS_Interval
  <2>2. PiecesIn(box) \in SUBSET (1 .. Len(box))
    BY <1>1, Zenon DEF PiecesIn
  <2>3. QED
    BY <2>1, <2>2, FS_Subset, Zenon
<1>3. IsFiniteSet(PiecesIn(new)) /\ Cardinality(PiecesIn(new)) = Cardinality(old)
  <2> DEFINE f == [k \in old |-> k - 1]
  <2>1. \A k \in old : k \in 2 .. Len(box) /\ k - 1 \in PiecesIn(new)
    BY <1>1 DEF PiecesIn
  <2>2. \A k \in PiecesIn(new) : k \in Int /\ k + 1 \in old /\ f[k + 1] = k
    BY <1>1 DEF PiecesIn
  <2>3. f \in [old -> PiecesIn(new)]
    BY <2>1, Zenon
  <2>4. \A j, k \in old : f[j] = f[k] => j = k
    BY <2>1
  <2>5. f \in Bijection(old, PiecesIn(new))
    BY <2>2, <2>3, <2>4, Zenon DEF Bijection, Injection, Surjection, IsInjective
  <2>6. IsFiniteSet(old)
    BY <1>2, FS_RemoveElement, Zenon
  <2>7. QED
    BY <2>5, <2>6, FS_Bijection DEF ExistsBijection
<1>4. Cardinality(old) = IF Head(box).kind = "Piece" THEN Cardinality(PiecesIn(box)) - 1
                                                     ELSE Cardinality(PiecesIn(box))
  <2>1. 1 \in PiecesIn(box) <=> Head(box).kind = "Piece"
    BY <1>1 DEF PiecesIn
  <2>2. QED
    BY <1>2, <2>1, FS_RemoveElement, Zenon
<1>5. Cardinality(PiecesIn(box)) \in Nat
  BY <1>2, FS_CardinalityType, Zenon
<1>6. Answers(box) = IF Head(box).kind = "Piece" THEN Answers(new) \union {Head(box)}
                                                 ELSE Answers(new)
  <2>1. \A k \in PiecesIn(new) : k + 1 \in PiecesIn(box) /\ box[k + 1] = new[k]
    BY <1>1 DEF PiecesIn
  <2>2. \A k \in PiecesIn(box) : k = 1 \/ (k - 1 \in PiecesIn(new) /\ box[k] = new[k - 1])
    BY <1>1 DEF PiecesIn
  <2>3. 1 \in PiecesIn(box) <=> Head(box).kind = "Piece"
    BY <1>1 DEF PiecesIn
  <2>4. \A m \in Answers(new) : m \in Answers(box)
    BY <2>1, Zenon DEF Answers
  <2>5. \A m \in Answers(box) : m \in Answers(new) \/ (m = Head(box) /\ Head(box).kind = "Piece")
    <3>1. ASSUME NEW k \in PiecesIn(box)
          PROVE  box[k] \in Answers(new) \/ (box[k] = Head(box) /\ Head(box).kind = "Piece")
      <4>1. CASE k = 1
        BY <1>1, <2>3, <4>1, Zenon
      <4>2. CASE k # 1
        BY <2>2, <4>2, Zenon DEF Answers
      <4>3. QED
        BY <4>1, <4>2, Zenon
    <3>2. QED
      BY <3>1, Zenon DEF Answers
  <2>6. Head(box).kind = "Piece" => Head(box) \in Answers(box)
    BY <1>1, <2>3, Zenon DEF Answers
  <2> HIDE DEF new
  <2>7. QED
    BY <2>4, <2>5, <2>6, Zenon
<1>7. QED
  BY <1>1, <1>2, <1>3, <1>4, <1>5, <1>6 DEF new

-----------------------------------------------------------------------------
(* What several steps have in common *)

\* Nothing is under way on a connection without messages.
LEMMA NothingUnderWay ==
  ASSUME outbox = <<>>, inbox = <<>>, pending = {}
  PROVE  Outstanding = 0
<1>1. PiecesIn(inbox) = {}
  BY DEF PiecesIn
<1>2. Len(outbox) = 0
  BY Zenon
<1>3. QED
  BY <1>1, <1>2, FS_EmptySet DEF Outstanding

\* A new downloader.
LEMMA DownloaderInit ==
  ASSUME Init
  PROVE  DownloaderInv
<1> USE DEF Init
<1>1. TypeOK
  <2>1. 0 \in PieceIndices
    BY PieceSizes DEF PieceIndices
  <2>2. QED
    BY <2>1, FS_EmptySet DEF TypeOK
<1>2. Disconnected /\ CountersSound
  BY Zenon DEF Disconnected, CountersSound, Downloading
<1>3. Books
  BY Zenon DEF Books, ConnectionIsClean, RequestsSound, BlocksSound
<1>4. TellsSound /\ GreetingSound /\ BitfieldSound /\ BitfieldIsCurrent
  BY DEF TellsSound, GreetingSound, BitfieldSound, BitfieldInUse, BitfieldIsCurrent
<1>5. QED
  BY <1>1, <1>2, <1>3, <1>4, Zenon DEF DownloaderInv

\* The parts of Outstanding are numbers.
LEMMA OutstandingFacts ==
  ASSUME TypeOK
  PROVE  /\ Len(outbox) \in Nat
         /\ Cardinality(pending) \in Nat
         /\ Cardinality(PiecesIn(inbox)) \in Nat
         /\ IsFiniteSet(PiecesIn(inbox))
<1>1. Len(inbox) \in Nat /\ DOMAIN inbox = 1 .. Len(inbox) /\ Len(outbox) \in Nat
  BY LenProperties, Zenon DEF TypeOK
<1>2. IsFiniteSet(1 .. Len(inbox))
  BY <1>1, FS_Interval
<1>3. PiecesIn(inbox) \in SUBSET (1 .. Len(inbox))
  BY <1>1, Zenon DEF PiecesIn
<1>4. IsFiniteSet(PiecesIn(inbox))
  BY <1>2, <1>3, FS_Subset, Zenon
<1>5. QED
  BY <1>1, <1>4, FS_CardinalityType, Zenon DEF TypeOK

\* Steps outside of a download leave nothing of a piece under way.
LEMMA OutsideOfDownload ==
  ASSUME ~Downloading', blocks_requested' = 0, blocks_received' = 0,
         strays' = 0 =>
           /\ phase' # "undefined" /\ dropped' = 0
           /\ socket' = "open" => Outstanding' = 0
  PROVE  CountersSound' /\ (strays' = 0 => Books')
BY Zenon DEF Downloading, CountersSound, Books, ConnectionIsClean, RequestsSound, BlocksSound

\* Steps of a download that concern neither its requests nor its blocks.
LEMMA BooksKept ==
  ASSUME DownloaderInv, Downloading, Downloading',
         UNCHANGED <<index, blocks_requested, blocks_received, piece, dropped, spoilt, strays>>,
         socket' = "open" =>
           /\ socket = "open"
           /\ UNCHANGED <<outbox, pending>>
           /\ Cardinality(PiecesIn(inbox))' = Cardinality(PiecesIn(inbox))
           /\ Answers(inbox)' = Answers(inbox)
  PROVE  CountersSound' /\ (strays' = 0 => Books')
<1> USE DEF DownloaderInv, Books
<1>1. CountersSound'
  BY Zenon DEF CountersSound, Downloading, blocks_total
<1> SUFFICES ASSUME strays = 0
             PROVE  Books'
  BY <1>1, Zenon
<1>2. phase' # "undefined" /\ ConnectionIsClean'
  BY Zenon DEF ConnectionIsClean, Downloading
<1>3. \A b : Request(b)' = Request(b)
  BY Zenon DEF Request, blocks_total
<1>4. \A m, b : IsAnswer(m, b)' <=> IsAnswer(m, b)
  BY <1>3, Zenon DEF IsAnswer
<1>5. RequestsSound'
  BY <1>3, <1>4, Zenon DEF RequestsSound, Outstanding, Downloading
<1>6. BlocksSound'
  <2>1. CASE socket' # "open"
    BY <2>1, Zenon DEF BlocksSound
  <2>2. CASE socket' = "open"
    <3>1. \A b : UnderWay(b) => UnderWay(b)'
      BY <1>3, <1>4, <2>2, Zenon DEF UnderWay
    <3>2. \A x, b : InBlock(x, b)' <=> InBlock(x, b)
      BY <1>3, Zenon DEF InBlock
    <3>3. CASE spoilt
      BY <3>3, Zenon DEF BlocksSound
    <3>4. CASE ~spoilt
      BY <2>2, <3>1, <3>2, <3>4, Zenon DEF BlocksSound, Downloading
    <3>5. QED
      BY <3>3, <3>4, Zenon
  <2>3. QED
    BY <2>1, <2>2, Zenon
<1>7. QED
  BY <1>1, <1>2, <1>5, <1>6, Zenon

\* Steps that leave the bitfield as it is.
LEMMA BitsKept ==
  ASSUME DownloaderInv, bitfield' = bitfield, has \subseteq has', NewsKept,
         BitfieldInUse' => BitfieldInUse
  PROVE  BitfieldSound' /\ BitfieldIsCurrent'
<1> USE DEF DownloaderInv
<1>1. BitfieldSound'
  BY Zenon DEF BitfieldSound
<1>2. ASSUME BitfieldInUse', NEW i \in PieceIndices
      PROVE  /\ BitfieldGet(bitfield, i) => i \in has'
             /\ socket' = "open" /\ i \in has' =>
                  BitfieldGet(bitfield, i) \/ i \in missed' \/ ToldOf(i)'
  <2>1. /\ BitfieldGet(bitfield, i) => i \in has
        /\ socket = "open" /\ i \in has => BitfieldGet(bitfield, i) \/ i \in missed \/ ToldOf(i)
    BY <1>2, Zenon DEF BitfieldInUse, BitfieldIsCurrent
  <2>2. QED
    BY <2>1, Zenon DEF NewsKept
<1>3. BitfieldIsCurrent'
  BY <1>2, Zenon DEF BitfieldIsCurrent, BitfieldInUse
<1>4. QED
  BY <1>1, <1>3, Zenon

\* Steps that leave alone what the peer has said.
LEMMA NoNews ==
  ASSUME socket' = "open" => socket = "open" /\ UNCHANGED <<inbox, has, missed>>
  PROVE  NewsKept
<1>1. socket' = "open" => \A i : ToldOf(i)' <=> ToldOf(i)
  BY Zenon DEF ToldOf
<1>2. QED
  BY <1>1, Zenon DEF NewsKept

\* The peer sends what is true.
LEMMA TellsKept ==
  ASSUME DownloaderInv, NEW m \in Messages, Sends(m), has \subseteq has',
         UNCHANGED <<phase, socket, missed>>, socket = "open",
         m.kind = "Bitfield" => ShowsOnly(m.bitfield)',
         m.kind = "Have" => m.index \in has',
         \A i \in has' \ has : m = [kind |-> "Have", index |-> i]
  PROVE  inbox' \in Seq(Messages) /\ inbox' # <<>> /\ TellsSound' /\ NewsKept
<1> USE DEF DownloaderInv, TypeOK, Sends
<1>1. inbox' \in Seq(Messages) /\ inbox' # <<>>
  BY SendFacts, AppendProperties, EmptySeq
<1>2. \A k \in DOMAIN inbox' : (k \in DOMAIN inbox /\ inbox'[k] = inbox[k]) \/ inbox'[k] = m
  BY SendFacts, Zenon
<1>3. \A storage : ShowsOnly(storage) => ShowsOnly(storage)'
  BY Zenon DEF ShowsOnly
<1>4. TellsSound'
  BY <1>2, <1>3, Zenon DEF TellsSound
<1>5. /\ \A k \in DOMAIN inbox : k \in DOMAIN inbox' /\ inbox'[k] = inbox[k]
      /\ \E k \in DOMAIN inbox' : inbox'[k] = m
  BY AppendProperties, LenProperties
<1>6. /\ \A i : ToldOf(i) => ToldOf(i)'
      /\ \A i \in has' \ has : ToldOf(i)'
  BY <1>5, Zenon DEF ToldOf
<1>7. NewsKept
  BY <1>6, Zenon DEF NewsKept
<1>8. QED
  BY <1>1, <1>4, <1>7, Zenon

\* After the first message of the peer, those that follow it.
LEMMA GreetingKept ==
  ASSUME DownloaderInv, NEW m \in Messages, Sends(m), greeted, greeted',
         UNCHANGED <<phase, socket>>, outbox = <<>> => UNCHANGED outbox,
         pending = {} => UNCHANGED pending,
         \A i \in has' \ has : m = [kind |-> "Have", index |-> i]
  PROVE  GreetingSound'
<1> SUFFICES ASSUME socket = "open", phase = "first_message"
             PROVE  GreetingSound'
  BY Zenon DEF GreetingSound
<1> USE DEF DownloaderInv, TypeOK, Sends
<1>1. /\ outbox = <<>> /\ pending = {} /\ inbox # <<>>
      /\ inbox[1].kind = "Bitfield" =>
           \A i \in has : BitfieldGet(BitfieldOf(inbox[1].bitfield, pieces_count), i) \/ ToldOf(i)
  BY Zenon DEF GreetingSound
<1>2. /\ inbox' # <<>>
      /\ \A k \in DOMAIN inbox : k \in DOMAIN inbox' /\ inbox'[k] = inbox[k]
      /\ \E k \in DOMAIN inbox' : inbox'[k] = m
  BY AppendProperties, LenProperties, EmptySeq
<1>3. 1 \in DOMAIN inbox
  BY <1>1, ReceiveFacts, Zenon
<1>4. (\A i : ToldOf(i) => ToldOf(i)') /\ (\A i \in has' \ has : ToldOf(i)')
  BY <1>2, Zenon DEF ToldOf
<1>5. QED
  BY <1>1, <1>2, <1>3, <1>4, Zenon DEF GreetingSound

\* A message is received, in time or too late.
LEMMA ReceivesFacts ==
  ASSUME DownloaderInv, NEW m, Receives(m)
  PROVE  /\ m \in Messages /\ m = inbox[1] /\ 1 \in DOMAIN inbox
         /\ socket = "open" /\ socket' \in {"open", "closed"} /\ UNCHANGED <<has, strays>>
         /\ inbox' \in Seq(Messages) /\ outbox' \in Seq(Requests)
         /\ pending' \in SUBSET Requests /\ IsFiniteSet(pending')
         /\ TellsSound'
         /\ socket' # "open" => outbox' = <<>> /\ inbox' = <<>> /\ pending' = {} /\ ~greeted'
         /\ socket' = "open" =>
              /\ inbox' = Tail(inbox) /\ UNCHANGED <<outbox, pending>>
              /\ \A i : ToldOf(i) => ToldOf(i)' \/ m = [kind |-> "Have", index |-> i]
         /\ m.kind # "Piece" /\ socket' = "open" =>
              /\ Cardinality(PiecesIn(inbox))' = Cardinality(PiecesIn(inbox))
              /\ Answers(inbox)' = Answers(inbox)
<1> USE DEF DownloaderInv, TypeOK, Receives, SocketAfter
<1>1. \A storage : ShowsOnly(storage)' <=> ShowsOnly(storage)
  BY Zenon DEF ShowsOnly
<1>2. CASE socket' = "open"
  <2>1. inbox' = Tail(inbox)
    BY <1>2, Zenon
  <2>2. TellsSound'
    BY <1>1, <2>1, ReceiveFacts DEF TellsSound
  <2>3. \A i : ToldOf(i) => ToldOf(i)' \/ m = [kind |-> "Have", index |-> i]
    <3>1. \A k \in DOMAIN inbox : k = 1 \/ (k - 1 \in DOMAIN Tail(inbox) /\ Tail(inbox)[k - 1] = inbox[k])
      BY HeadTailProperties, LenProperties
    <3>2. Head(inbox) = inbox[1]
      BY ReceiveFacts, Zenon
    <3>3. QED
      BY <2>1, <3>1, <3>2, Zenon DEF ToldOf
  <2>4. QED
    BY <1>2, <2>1, <2>2, <2>3, ReceiveFacts, Zenon
<1>3. CASE socket' # "open"
  <2>1. outbox' = <<>> /\ inbox' = <<>> /\ pending' = {} /\ ~greeted'
    BY <1>3, Zenon DEF HangUp
  <2>2. TellsSound'
    BY <2>1 DEF TellsSound
  <2>3. QED
    BY <1>3, <2>1, <2>2, ReceiveFacts, FS_EmptySet
<1>4. QED
  BY <1>2, <1>3, Zenon

-----------------------------------------------------------------------------
(* Steps outside of a download *)

\* try_download is called: on an open connection nothing of the last piece is
\* under way.
LEMMA CallStep ==
  ASSUME DownloaderInv, NEW i \in PieceIndices, Call(i)
  PROVE  DownloaderInv'
<1> USE DEF DownloaderInv, Call, peerVars, linkVars, ForgetsLink
<1>1. TypeOK'
  <2>1. dropped' \in Nat /\ strays' \in Nat
    BY DEF TypeOK
  <2>2. QED
    BY <2>1, Zenon DEF TypeOK
<1>2. Disconnected' /\ GreetingSound'
  BY Zenon DEF Disconnected, GreetingSound
<1>3. CountersSound' /\ (strays' = 0 => Books')
  <2>1. Outstanding' = Outstanding
    BY Zenon DEF Outstanding, PiecesIn
  <2>2. ~Downloading' /\ blocks_requested' = 0 /\ blocks_received' = 0 /\ dropped' = 0
    BY Zenon DEF Downloading, CountersSound
  <2>3. strays' = 0 /\ socket' = "open" => Outstanding' = 0
    BY <2>1, Zenon DEF Books, ConnectionIsClean
  <2>4. QED
    BY <2>2, <2>3, OutsideOfDownload, Zenon
<1>4. TellsSound'
  BY Zenon DEF TellsSound, ShowsOnly
<1>5. BitfieldSound' /\ BitfieldIsCurrent'
  <2>1. has \subseteq has' /\ bitfield' = bitfield
    BY Zenon
  <2>2. NewsKept
    BY NoNews, Zenon
  <2>3. BitfieldInUse' => BitfieldInUse
    BY Zenon DEF BitfieldInUse
  <2>4. QED
    BY <2>1, <2>2, <2>3, BitsKept, Zenon
<1>6. QED
  BY <1>1, <1>2, <1>3, <1>4, <1>5, Zenon

\* destroy_socket: the connection is gone with all that was on it.
LEMMA FailsStep ==
  ASSUME DownloaderInv, NEW r, Fails(r)
  PROVE  DownloaderInv'
<1> USE DEF DownloaderInv, Fails, HangUp, ForgetsLink, Returns, ForgetsCall
<1>1. TypeOK'
  BY FS_EmptySet DEF TypeOK
<1>2. Disconnected' /\ GreetingSound'
  BY Zenon DEF Disconnected, GreetingSound
<1>3. CountersSound' /\ (strays' = 0 => Books')
  BY OutsideOfDownload, Zenon DEF Downloading
<1>4. TellsSound'
  BY DEF TellsSound
<1>5. BitfieldSound' /\ BitfieldIsCurrent'
  BY Zenon DEF BitfieldSound, BitfieldInUse, BitfieldIsCurrent
<1>6. QED
  BY <1>1, <1>2, <1>3, <1>4, <1>5, Zenon

\* A new connection: nothing has been sent on it.
LEMMA ConnectsStep ==
  ASSUME DownloaderInv, Connects
  PROVE  DownloaderInv'
<1> USE DEF DownloaderInv, Connects, callVars, linkVars
<1>1. TypeOK'
  BY Zenon DEF TypeOK
<1>2. outbox' = <<>> /\ inbox' = <<>> /\ pending' = {} /\ ~greeted'
  BY Zenon DEF Disconnected
<1>3. Disconnected' /\ TellsSound' /\ GreetingSound'
  BY <1>2 DEF Disconnected, TellsSound, GreetingSound
<1>4. CountersSound' /\ (strays' = 0 => Books')
  <2>1. Outstanding' = 0
    <3>1. outbox = <<>> /\ inbox = <<>> /\ pending = {}
      BY Zenon DEF Disconnected
    <3>2. Outstanding = 0
      BY <3>1, NothingUnderWay, Zenon
    <3>3. QED
      BY <3>2, Zenon DEF Outstanding, PiecesIn
  <2>2. ~Downloading' /\ blocks_requested' = 0 /\ blocks_received' = 0
    BY Zenon DEF Downloading, CountersSound
  <2>3. strays' = 0 => phase' # "undefined" /\ dropped' = 0
    BY Zenon DEF Downloading, Books
  <2>4. QED
    BY <2>1, <2>2, <2>3, OutsideOfDownload, Zenon
<1>5. BitfieldSound' /\ BitfieldIsCurrent'
  BY Zenon DEF BitfieldSound, BitfieldInUse, BitfieldIsCurrent
<1>6. QED
  BY <1>1, <1>3, <1>4, <1>5, Zenon

\* What a message carries.
LEMMA BitfieldMessage ==
  ASSUME NEW m \in Messages, m.kind = "Bitfield"
  PROVE  m.bitfield \in Storages
BY Zenon DEF Messages

\* The bitfield is received; or a message while we wait to be unchoked.
LEMMA GreetingSteps ==
  ASSUME DownloaderInv, NEW m, Receives(m),
         \/ FirstMessage(m) /\ m.kind = "Bitfield"
         \/ AwaitUnchoke(m)
  PROVE  DownloaderInv'
<1> USE DEF DownloaderInv
<1> USE ReceivesFacts
<1>1. /\ UNCHANGED callVars /\ ~Downloading /\ ~Downloading'
      /\ phase' \notin {"connect", "first_message", "undefined"}
  BY Zenon DEF FirstMessage, AwaitUnchoke, Downloading, callVars
<1>2. TypeOK'
  BY <1>1, Zenon DEF TypeOK, callVars, FirstMessage, AwaitUnchoke
<1>3. Disconnected' /\ GreetingSound'
  BY <1>1, Zenon DEF Disconnected, GreetingSound
<1>4. CountersSound' /\ (strays' = 0 => Books')
  <2>1. blocks_requested' = 0 /\ blocks_received' = 0
    BY <1>1, Zenon DEF CountersSound, callVars
  <2>2. ASSUME strays = 0
        PROVE  dropped' = 0 /\ (socket' = "open" => Outstanding' = 0)
    <3>1. dropped' = 0 /\ Outstanding = 0
      BY <1>1, <2>2, Zenon DEF Books, ConnectionIsClean, Downloading, callVars
    <3>2. PiecesIn(inbox) = {}
      BY <3>1, OutstandingFacts, FS_EmptySet DEF Outstanding
    <3>3. m = inbox[1] /\ 1 \in DOMAIN inbox
      BY ReceivesFacts, Zenon
    <3>4. m.kind # "Piece"
      BY <3>2, <3>3, Zenon DEF PiecesIn
    <3>5. socket' = "open" => Outstanding' = Outstanding
      BY <3>4, Zenon DEF Outstanding
    <3>6. QED
      BY <3>1, <3>5, Zenon
  <2>3. strays' = strays
    BY ReceivesFacts, Zenon
  <2>4. QED
    BY <1>1, <2>1, <2>2, <2>3, OutsideOfDownload, Zenon
<1>5. BitfieldSound' /\ BitfieldIsCurrent'
  <2>1. CASE FirstMessage(m)
    <3>1. m.kind = "Bitfield" /\ bitfield' = BitfieldOf(m.bitfield, pieces_count)
      BY <2>1, Zenon DEF FirstMessage, AwaitUnchoke
    <3>2. m.bitfield \in Storages
      BY <3>1, ReceivesFacts, BitfieldMessage, Zenon
    <3>3. ShowsOnly(m.bitfield)
      BY <3>1, Zenon DEF TellsSound
    <3>4. greeted
      <4>1. phase = "first_message" /\ inbox # <<>>
        BY <2>1, Zenon DEF FirstMessage, Receives
      <4>2. QED
        BY <4>1, Zenon DEF GreetingSound
    <3>5. \A i \in has : BitfieldGet(BitfieldOf(m.bitfield, pieces_count), i) \/ ToldOf(i)
      BY <2>1, <3>1, <3>4, Zenon DEF FirstMessage, GreetingSound
    <3>6. \A i : m # [kind |-> "Have", index |-> i]
      BY <3>1
    <3>7. BitfieldIsCurrent'
      BY <3>1, <3>3, <3>5, <3>6, Zenon DEF BitfieldIsCurrent, ShowsOnly
    <3>8. QED
      BY <3>1, <3>2, <3>7, Zenon DEF BitfieldSound, BitfieldOf
  <2>2. CASE AwaitUnchoke(m)
    <3>1. NewsKept
      <4>1. \A i : m = [kind |-> "Have", index |-> i] => i \in missed'
        BY <2>2 DEF AwaitUnchoke
      <4>2. missed \subseteq missed'
        BY <2>2, Zenon DEF AwaitUnchoke
      <4>3. QED
        BY <4>1, <4>2, ReceivesFacts, Zenon DEF NewsKept
    <3>2. bitfield' = bitfield /\ has \subseteq has'
      BY <2>2, ReceivesFacts, Zenon DEF AwaitUnchoke
    <3>3. BitfieldInUse
      BY <2>2, ReceivesFacts, Zenon DEF AwaitUnchoke, BitfieldInUse
    <3>4. QED
      BY <3>1, <3>2, <3>3, BitsKept, Zenon
  <2>3. QED
    BY <2>1, <2>2, Zenon
<1>6. QED
  BY <1>2, <1>3, <1>4, <1>5, Zenon

\* Unchoke and Interested are sent; a piece is missing.
LEMMA QuietSteps ==
  ASSUME DownloaderInv, Greets \/ MissingPiece
  PROVE  DownloaderInv'
<1> USE DEF DownloaderInv
<1>1. /\ phase \in {"greet", "connected"} /\ phase' \in {"await_unchoke", "idle"}
      /\ UNCHANGED <<bitfield, index, has, strays, missed>>
      /\ blocks_requested' = 0 /\ blocks_received' = 0 /\ dropped' \in {dropped, 0}
      /\ socket' \in {"none", "open", "closed"}
      /\ socket' = "none" <=> socket = "none"
      /\ \/ UNCHANGED <<socket, outbox, inbox, pending, greeted>>
         \/ /\ socket = "open" /\ socket' = "closed"
            /\ outbox' = <<>> /\ inbox' = <<>> /\ pending' = {} /\ ~greeted'
  BY Zenon DEF Greets, MissingPiece, SocketAfter, HangUp, Returns, ForgetsCall, callVars, peerVars,
    linkVars, CountersSound, Downloading, TypeOK
<1>2. TypeOK'
  <2>1. outbox' \in Seq(Requests) /\ inbox' \in Seq(Messages)
    BY <1>1, EmptySeq, Zenon DEF TypeOK
  <2>2. pending' \in SUBSET Requests /\ IsFiniteSet(pending')
    BY <1>1, FS_EmptySet, Zenon DEF TypeOK
  <2>3. dropped' \in Nat
    BY <1>1 DEF TypeOK
  <2>4. QED
    BY <1>1, <2>1, <2>2, <2>3, Zenon DEF TypeOK
<1>3. Disconnected' /\ GreetingSound'
  <2>1. phase' # "connect" /\ phase' # "first_message"
    BY <1>1, Zenon
  <2>2. CASE UNCHANGED <<socket, outbox, inbox, pending, greeted>>
    BY <2>1, <2>2, Zenon DEF Disconnected, GreetingSound
  <2>3. CASE socket' = "closed" /\ outbox' = <<>> /\ inbox' = <<>> /\ pending' = {} /\ ~greeted'
    BY <2>1, <2>3, Zenon DEF Disconnected, GreetingSound
  <2>4. QED
    BY <1>1, <2>2, <2>3, Zenon
<1>4. TellsSound'
  BY <1>1 DEF TellsSound, ShowsOnly
<1>5. CountersSound' /\ (strays' = 0 => Books')
  <2>1. strays = 0 => dropped = 0 /\ (socket = "open" => Outstanding = 0)
    BY <1>1, Zenon DEF Books, ConnectionIsClean, Downloading
  <2>2. socket' = "open" => socket = "open" /\ Outstanding' = Outstanding
    BY <1>1, Zenon DEF Outstanding, PiecesIn
  <2>3. QED
    BY <1>1, <2>1, <2>2, OutsideOfDownload, Zenon DEF Downloading
<1>6. BitfieldSound' /\ BitfieldIsCurrent'
  <2>1. NewsKept
    BY <1>1, NoNews, Zenon
  <2>2. BitfieldInUse' => BitfieldInUse
    BY <1>1, Zenon DEF BitfieldInUse
  <2>3. QED
    BY <1>1, <2>1, <2>2, BitsKept, Zenon
<1>7. QED
  BY <1>2, <1>3, <1>4, <1>5, <1>6, Zenon

\* The download of a piece starts with an empty pipeline.
LEMMA StartsStep ==
  ASSUME DownloaderInv, Starts
  PROVE  DownloaderInv'
<1> USE DEF DownloaderInv, Starts, peerVars, linkVars
<1>1. TypeOK'
  BY Zenon DEF TypeOK
<1>2. Disconnected' /\ TellsSound' /\ GreetingSound'
  BY Zenon DEF Disconnected, TellsSound, ShowsOnly, GreetingSound
<1>3. strays = 0 => dropped = 0 /\ (socket = "open" => Outstanding = 0)
  BY Zenon DEF Books, Downloading, ConnectionIsClean
<1>4. CountersSound'
  <2>1. blocks_total' = blocks_total /\ blocks_total \in Nat \ {0}
    BY BlockCount, Zenon DEF TypeOK, blocks_total
  <2>2. piece' = [x \in 0 .. PieceLength(index)' - 1 |-> piece'[x]]
    BY Zenon DEF PieceLength
  <2>3. Downloading' /\ blocks_requested' = 0 /\ blocks_received' = 0
    BY Zenon DEF Downloading
  <2>4. QED
    BY <2>1, <2>2, <2>3, DownloaderAssumption DEF CountersSound
<1>5. BitfieldSound' /\ BitfieldIsCurrent'
  <2>1. NewsKept
    BY NoNews, Zenon
  <2>2. BitfieldInUse' => BitfieldInUse
    BY Zenon DEF BitfieldInUse
  <2>3. QED
    BY <2>1, <2>2, BitsKept, Zenon
<1> SUFFICES ASSUME strays = 0
             PROVE  Books'
  BY <1>1, <1>2, <1>4, <1>5, Zenon
<1>6. RequestsSound' /\ BlocksSound'
  <2>1. CASE socket = "open"
    <3>1. Len(outbox) = 0 /\ Cardinality(pending) = 0 /\ Cardinality(PiecesIn(inbox)) = 0
      BY <1>3, <2>1, OutstandingFacts DEF Outstanding
    <3>2. outbox = <<>> /\ pending = {} /\ PiecesIn(inbox) = {}
      BY <3>1, OutstandingFacts, FS_EmptySet, EmptySeq, Zenon DEF TypeOK
    <3>3. RequestsSound'
      <4>1. Outstanding' = 0
        BY <1>3, <2>1, Zenon DEF Outstanding, PiecesIn
      <4>2. DOMAIN outbox' = {} /\ pending' = {} /\ Answers(inbox)' = {}
        BY <3>2 DEF Answers, PiecesIn
      <4>3. QED
        BY <1>3, <4>1, <4>2 DEF RequestsSound
    <3>4. BlocksSound'
      BY DEF BlocksSound
    <3>5. QED
      BY <3>3, <3>4, Zenon
  <2>2. CASE socket # "open"
    BY <2>2, Zenon DEF RequestsSound, BlocksSound
  <2>3. QED
    BY <2>1, <2>2, Zenon
<1>7. QED
  BY <1>6, Zenon DEF Books, ConnectionIsClean, Downloading

-----------------------------------------------------------------------------
(* Steps of a download *)

\* The next block is requested; the pipeline is full.
LEMMA SendsRequestStep ==
  ASSUME DownloaderInv, SendsRequest
  PROVE  DownloaderInv'
<1> USE DEF DownloaderInv, SendsRequest, SocketAfter, linkVars
<1>1. /\ Downloading /\ Downloading' /\ socket = "open"
      /\ UNCHANGED <<bitfield, has, index, piece, strays, missed>>
  BY Zenon DEF Downloading
<1>2. \A b : Request(b)' = Request(b)
  BY <1>1, Zenon DEF Request, blocks_total
<1>3. \A m, b : IsAnswer(m, b)' <=> IsAnswer(m, b)
  BY <1>1, <1>2, Zenon DEF IsAnswer
<1>4. blocks_requested \in 0 .. blocks_total - 1
  BY BlockCount DEF MayRequest, TypeOK
<1>5. Request(blocks_requested) \in Requests
  BY <1>4, RequestFits, Zenon DEF TypeOK
<1>6. TypeOK'
  <2>1. outbox' \in Seq(Requests)
    <3>1. Append(outbox, Request(blocks_requested)) \in Seq(Requests)
      BY <1>5, AppendProperties, Zenon DEF TypeOK
    <3>2. QED
      BY <3>1, EmptySeq, Zenon DEF HangUp
  <2>2. pending' \in SUBSET Requests /\ IsFiniteSet(pending')
    BY FS_EmptySet, Zenon DEF TypeOK, HangUp
  <2>3. inbox' \in Seq(Messages)
    BY EmptySeq, Zenon DEF TypeOK, HangUp
  <2>4. QED
    BY <2>1, <2>2, <2>3 DEF TypeOK
<1>7. Disconnected' /\ GreetingSound'
  BY <1>1, Zenon DEF Disconnected, GreetingSound, HangUp
<1>8. CountersSound'
  <2>1. blocks_total' = blocks_total /\ PieceLength(index)' = PieceLength(index)
    BY <1>1, Zenon DEF blocks_total, PieceLength
  <2>2. blocks_total \in Nat
    BY BlockCount, Zenon DEF TypeOK
  <2>3. blocks_requested - blocks_received < PIPELINE_SIZE_MAX /\ blocks_requested < blocks_total
    BY Zenon DEF MayRequest
  <2>4. blocks_requested' - blocks_received' <= PIPELINE_SIZE_MAX /\ blocks_requested' <= blocks_total
    BY <2>2, <2>3, DownloaderAssumption DEF TypeOK
  <2>5. QED
    BY <1>1, <2>1, <2>4, Zenon DEF CountersSound
<1>9. TellsSound'
  BY DEF TellsSound, ShowsOnly, HangUp
<1>10. BitfieldSound' /\ BitfieldIsCurrent'
  <2>1. NewsKept
    BY <1>1, NoNews, Zenon
  <2>2. BitfieldInUse' => BitfieldInUse
    BY Zenon DEF BitfieldInUse
  <2>3. QED
    BY <1>1, <2>1, <2>2, BitsKept, Zenon
<1> SUFFICES ASSUME strays = 0
             PROVE  Books'
  BY <1>1, <1>6, <1>7, <1>8, <1>9, <1>10, Zenon
<1> USE DEF Books
<1>11. phase' # "undefined" /\ ConnectionIsClean'
  BY <1>1, Zenon DEF ConnectionIsClean, Downloading
<1>12. RequestsSound' /\ BlocksSound'
  <2>1. CASE socket' # "open"
    BY <2>1, Zenon DEF RequestsSound, BlocksSound
  <2>2. CASE socket' = "open"
    <3>1. /\ outbox' = Append(outbox, Request(blocks_requested))
          /\ UNCHANGED <<inbox, pending, blocks_received, dropped, spoilt>>
      BY <2>2, Zenon
    <3>2. /\ Len(outbox) \in Nat /\ Len(outbox') = Len(outbox) + 1
          /\ DOMAIN outbox = 1 .. Len(outbox) /\ DOMAIN outbox' = 1 .. Len(outbox) + 1
          /\ \A k \in 1 .. Len(outbox) : outbox'[k] = outbox[k]
          /\ outbox'[Len(outbox) + 1] = Request(blocks_requested)
      BY <1>5, <3>1, AppendProperties, LenProperties DEF TypeOK
    <3>3. Answers(inbox)' = Answers(inbox)
      BY <3>1, Zenon DEF Answers, PiecesIn
    <3>4. RequestsSound'
      <4>1. Outstanding' = Outstanding + 1
        BY <3>1, <3>2, OutstandingFacts DEF Outstanding, PiecesIn
      <4>2. blocks_requested' - blocks_received' = Outstanding' + dropped'
        <5>1. Outstanding \in Nat
          BY OutstandingFacts DEF Outstanding
        <5>2. blocks_requested - blocks_received = Outstanding + dropped
          BY <1>1, Zenon DEF RequestsSound
        <5>3. QED
          BY <3>1, <4>1, <5>1, <5>2 DEF TypeOK
      <4>3. \A k \in DOMAIN outbox' :
              outbox'[k] = Request(blocks_requested' - Len(outbox') + k - 1)
        <5>1. ASSUME NEW k \in 1 .. Len(outbox)
              PROVE  outbox'[k] = Request(blocks_requested' - Len(outbox') + k - 1)
          <6>1. blocks_requested' - Len(outbox') + k - 1 = blocks_requested - Len(outbox) + k - 1
            BY <3>2 DEF TypeOK
          <6>2. QED
            BY <1>1, <3>2, <6>1, Zenon DEF RequestsSound
        <5>2. blocks_requested' - Len(outbox') + (Len(outbox) + 1) - 1 = blocks_requested
          BY <3>2 DEF TypeOK
        <5>3. \A k \in 1 .. Len(outbox) + 1 : k \in 1 .. Len(outbox) \/ k = Len(outbox) + 1
          BY <3>2
        <5>4. ASSUME NEW k \in DOMAIN outbox'
              PROVE  outbox'[k] = Request(blocks_requested' - Len(outbox') + k - 1)
          <6>1. CASE k = Len(outbox) + 1
            BY <3>2, <5>2, <6>1, Zenon
          <6>2. QED
            BY <3>2, <5>1, <5>3, <6>1, Zenon
        <5>5. QED
          BY <5>4, Zenon
      <4>4. blocks_requested' - Len(outbox') = blocks_requested - Len(outbox)
        BY <3>2 DEF TypeOK
      <4>5. \A r \in pending' :
              \E b \in 0 .. blocks_requested' - Len(outbox') - 1 : r = Request(b)
        BY <1>1, <3>1, <4>4, Zenon DEF RequestsSound
      <4>6. \A m \in Answers(inbox)' : \E b \in 0 .. blocks_requested' - 1 : IsAnswer(m, b)
        BY <1>1, <3>3 DEF RequestsSound, TypeOK
      <4>7. QED
        BY <1>2, <1>3, <4>2, <4>3, <4>5, <4>6, Zenon DEF RequestsSound
    <3>5. BlocksSound'
      <4>1. \A b \in 0 .. blocks_requested - 1 : UnderWay(b) => UnderWay(b)'
        BY <1>2, <1>3, <3>1, <3>2, <3>3 DEF UnderWay
      <4>2. \A b : b = blocks_requested => UnderWay(b)'
        BY <1>2, <3>2 DEF UnderWay
      <4>3. \A b \in 0 .. blocks_requested' - 1 : b \in 0 .. blocks_requested - 1 \/ b = blocks_requested
        BY DEF TypeOK
      <4>4. \A x, b : InBlock(x, b)' <=> InBlock(x, b)
        BY <1>2, Zenon DEF InBlock
      <4>5. PieceLength(index)' = PieceLength(index)
        BY <1>1, Zenon DEF PieceLength
      <4>6. CASE spoilt
        BY <3>1, <4>6, Zenon DEF BlocksSound
      <4>7. CASE ~spoilt
        BY <1>1, <3>1, <4>1, <4>2, <4>3, <4>4, <4>5, <4>7, Zenon DEF BlocksSound
      <4>8. QED
        BY <4>6, <4>7, Zenon
    <3>6. QED
      BY <3>4, <3>5, Zenon
  <2>3. QED
    BY <2>1, <2>2, Zenon
<1>13. QED
  BY <1>1, <1>11, <1>12, Zenon

\* Nothing more is requested for now: the call waits for a message.
LEMMA PipelineFullStep ==
  ASSUME DownloaderInv, PipelineFull
  PROVE  DownloaderInv'
<1> USE DEF DownloaderInv, PipelineFull, callVars, peerVars, linkVars
<1>1. TypeOK' /\ Disconnected' /\ TellsSound' /\ GreetingSound'
  BY Zenon DEF TypeOK, Disconnected, TellsSound, ShowsOnly, GreetingSound
<1>2. Answers(inbox)' = Answers(inbox) /\ PiecesIn(inbox)' = PiecesIn(inbox)
  BY Zenon DEF Answers, PiecesIn
<1>3. CountersSound' /\ (strays' = 0 => Books')
  BY <1>2, BooksKept, Zenon DEF Downloading
<1>4. BitfieldSound' /\ BitfieldIsCurrent'
  <2>1. NewsKept
    BY NoNews, Zenon
  <2>2. BitfieldInUse' => BitfieldInUse
    BY Zenon DEF BitfieldInUse
  <2>3. QED
    BY <2>1, <2>2, BitsKept, Zenon
<1>5. QED
  BY <1>1, <1>3, <1>4, Zenon

\* A message other than Piece is handled: the download goes on as it was.
LEMMA HandlesOther ==
  ASSUME DownloaderInv, NEW m, Handles(m), m.kind # "Piece"
  PROVE  DownloaderInv'
<1> USE DEF DownloaderInv
<1>1. Receives(m) /\ phase = "await" /\ Downloading
  BY Zenon DEF Handles, Downloading
<1>2. GoesOn(blocks_received, piece) /\ UNCHANGED spoilt
  BY Zenon DEF Handles
<1>3. /\ phase' = "request" /\ Downloading'
      /\ UNCHANGED <<index, blocks_requested, blocks_received, piece, dropped>>
  BY <1>1, <1>2, Zenon DEF GoesOn, CountersSound, Downloading
<1>4. TypeOK'
  BY <1>1, <1>3, ReceivesFacts, Zenon DEF TypeOK
<1>5. Disconnected' /\ TellsSound' /\ GreetingSound'
  BY <1>1, <1>3, ReceivesFacts, Zenon DEF Disconnected, GreetingSound
<1>6. CountersSound' /\ (strays' = 0 => Books')
  <2>1. socket' = "open" =>
          /\ socket = "open"
          /\ UNCHANGED <<outbox, pending>>
          /\ Cardinality(PiecesIn(inbox))' = Cardinality(PiecesIn(inbox))
          /\ Answers(inbox)' = Answers(inbox)
    BY <1>1, ReceivesFacts, Zenon
  <2>2. strays' = strays
    BY <1>1, ReceivesFacts, Zenon
  <2>3. QED
    BY <1>1, <1>2, <1>3, <2>1, <2>2, BooksKept, Zenon
<1>7. BitfieldSound' /\ BitfieldIsCurrent'
  <2>1. UNCHANGED <<has, missed>> /\ socket = "open" /\ BitfieldInUse
    BY <1>1, ReceivesFacts, Zenon DEF Handles, BitfieldInUse
  <2>2. CASE m.kind = "Have"
    <3>1. bitfield' = BitfieldSet(bitfield, m.index)
      BY <2>2, Zenon DEF Handles
    <3>2. m.index \in PieceIndices
      BY <1>1, <2>2, ReceivesFacts DEF Messages
    <3>3. m.index \in has
      BY <1>1, <2>2, ReceivesFacts, Zenon DEF TellsSound
    <3>4. bitfield.storage \in Storages
      BY <2>1, Zenon DEF BitfieldSound
    <3>5. \A i \in PieceIndices :
            /\ BitfieldGet(bitfield, i) => i \in has
            /\ i \in has => BitfieldGet(bitfield, i) \/ i \in missed \/ ToldOf(i)
      BY <2>1, Zenon DEF BitfieldIsCurrent, BitfieldInUse
    <3>6. /\ bitfield'.storage \in Storages
          /\ \A i \in PieceIndices :
               BitfieldGet(bitfield', i) <=> BitfieldGet(bitfield, i) \/ i = m.index
      BY <3>1, <3>2, <3>4, SetChangesOneBit, Zenon
    <3>7. \A i : m = [kind |-> "Have", index |-> i] => i = m.index
      OBVIOUS
    <3>8. socket' = "open" => \A i : ToldOf(i) => ToldOf(i)' \/ i = m.index
      BY <1>1, <3>7, ReceivesFacts, Zenon
    <3>9. QED
      BY <2>1, <3>3, <3>5, <3>6, <3>8, Zenon DEF BitfieldSound, BitfieldIsCurrent
  <2>3. CASE m.kind # "Have"
    <3>1. bitfield' = bitfield
      BY <2>3, Zenon DEF Handles
    <3>2. \A i : m # [kind |-> "Have", index |-> i]
      BY <2>3
    <3>3. NewsKept
      BY <1>1, <2>1, <3>2, ReceivesFacts, Zenon DEF NewsKept
    <3>4. QED
      BY <2>1, <3>1, <3>3, BitsKept, Zenon
  <2>4. QED
    BY <2>2, <2>3, Zenon
<1>8. QED
  BY <1>4, <1>5, <1>6, <1>7, Zenon

\* A block that is copied to the buffer is then in it, and so are those that
\* were in it before.
LEMMA CopyFacts ==
  ASSUME DownloaderInv, strays = 0, Downloading, socket = "open", inbox # <<>>,
         NEW m, m = Head(inbox), m.kind = "Piece", m.good, ~spoilt, dropped = 0,
         NEW b \in 0 .. blocks_requested - 1
  PROVE  \/ \E k \in DOMAIN outbox : outbox[k] = Request(b)
         \/ Request(b) \in pending
         \/ \E n \in Answers(Tail(inbox)) : IsAnswer(n, b)
         \/ \A x \in 0 .. PieceLength(index) - 1 : InBlock(x, b) => Copy(m)[x] = <<index, x>>
<1> USE DEF DownloaderInv, Books
<1>1. Answers(inbox) = Answers(Tail(inbox)) \union {m}
  BY ReceiveFacts, Zenon DEF TypeOK
<1>2. m.index = index
  BY <1>1, Zenon DEF RequestsSound, IsAnswer
<1>3. DOMAIN piece = 0 .. PieceLength(index) - 1
  BY Zenon DEF CountersSound
<1>4. \A x \in DOMAIN piece :
        /\ m.begin <= x /\ x < m.begin + m.length => Copy(m)[x] = <<index, x>>
        /\ piece[x] = <<index, x>> => Copy(m)[x] = <<index, x>>
  BY <1>2, Zenon DEF Copy
<1>5. CASE IsAnswer(m, b)
  BY <1>3, <1>4, <1>5, Zenon DEF IsAnswer, InBlock
<1>6. CASE ~IsAnswer(m, b)
  <2>1. \/ UnderWay(b)
        \/ \A x \in 0 .. PieceLength(index) - 1 : InBlock(x, b) => piece[x] = <<index, x>>
    BY DEF BlocksSound
  <2>2. QED
    BY <1>1, <1>3, <1>4, <1>6, <2>1, Zenon DEF UnderWay
<1>7. QED
  BY <1>5, <1>6, Zenon

\* When the last block arrives nothing else is under way, and the buffer holds
\* the piece unless the peer has sent corrupt bytes.
LEMMA LastBlock ==
  ASSUME DownloaderInv, strays = 0, NEW m, phase = "await", Receives(m), m.kind = "Piece",
         blocks_received + 1 >= blocks_total
  PROVE  /\ socket' = "open" => Outstanding' = 0
         /\ m.good /\ ~spoilt => Copy(m) = Content(index)
<1> USE DEF DownloaderInv, Books
<1>1. /\ Downloading /\ socket = "open" /\ inbox # <<>> /\ m = Head(inbox)
  BY Zenon DEF Downloading, Receives, SocketAfter
<1>2. /\ blocks_received < blocks_total /\ blocks_requested <= blocks_total
      /\ blocks_total \in Nat
  BY <1>1, BlockCount, Zenon DEF CountersSound, TypeOK
<1>3. /\ Cardinality(PiecesIn(inbox)) = Cardinality(PiecesIn(Tail(inbox))) + 1
      /\ IsFiniteSet(PiecesIn(Tail(inbox)))
  BY <1>1, ReceiveFacts, Zenon DEF TypeOK
<1>4. Cardinality(PiecesIn(Tail(inbox))) \in Nat
  BY <1>3, FS_CardinalityType, Zenon
<1>5. blocks_requested - blocks_received = Outstanding + dropped
  BY <1>1, Zenon DEF RequestsSound
<1>6. /\ Len(outbox) = 0 /\ Cardinality(pending) = 0 /\ dropped = 0
      /\ Cardinality(PiecesIn(Tail(inbox))) = 0 /\ blocks_requested = blocks_total
  BY <1>2, <1>3, <1>4, <1>5, OutstandingFacts DEF Outstanding, TypeOK
<1>7. socket' = "open" => Outstanding' = 0
  <2>1. socket' = "open" => inbox' = Tail(inbox) /\ UNCHANGED <<outbox, pending>>
    BY ReceivesFacts, Zenon
  <2>2. socket' = "open" => PiecesIn(inbox)' = PiecesIn(Tail(inbox))
    BY <2>1, Zenon DEF PiecesIn
  <2>3. QED
    BY <1>6, <2>1, <2>2 DEF Outstanding
<1>8. outbox = <<>> /\ pending = {} /\ PiecesIn(Tail(inbox)) = {}
  BY <1>3, <1>6, FS_EmptySet, EmptySeq, Zenon DEF TypeOK
<1>9. ASSUME m.good, ~spoilt
      PROVE  Copy(m) = Content(index)
  <2>1. DOMAIN outbox = {} /\ Answers(Tail(inbox)) = {}
    BY <1>8 DEF Answers
  <2>2. \A b \in 0 .. blocks_total - 1 : \A x \in 0 .. PieceLength(index) - 1 :
          InBlock(x, b) => Copy(m)[x] = <<index, x>>
    BY <1>1, <1>6, <1>8, <1>9, <2>1, CopyFacts, Zenon
  <2>3. \A x \in 0 .. PieceLength(index) - 1 : Copy(m)[x] = <<index, x>>
    BY <2>2, EveryByteInABlock, Zenon DEF TypeOK
  <2>4. DOMAIN piece = 0 .. PieceLength(index) - 1
    BY <1>1, Zenon DEF CountersSound
  <2>5. QED
    BY <2>3, <2>4, Zenon DEF Copy, Content
<1>10. QED
  BY <1>7, <1>9, Zenon

\* The answers to what was asked for stay inside the buffer.
LEMMA AnswersFit ==
  ASSUME DownloaderInv, strays = 0, Downloading, NEW k \in PiecesIn(inbox)
  PROVE  /\ inbox[k].index = index
         /\ inbox[k].begin + inbox[k].length <= PieceLength(index)
<1>1. socket = "open"
  BY DEF DownloaderInv, Disconnected, PiecesIn
<1>2. inbox[k] \in Answers(inbox)
  BY Zenon DEF Answers
<1>3. PICK b \in 0 .. blocks_requested - 1 : IsAnswer(inbox[k], b)
  BY <1>1, <1>2, Zenon DEF DownloaderInv, Books, RequestsSound
<1>4. index \in PieceIndices /\ blocks_requested \in Nat /\ blocks_requested <= blocks_total
  BY Zenon DEF DownloaderInv, TypeOK, CountersSound
<1>5. b \in 0 .. blocks_total - 1
  BY <1>4, BlockCount
<1>6. QED
  BY <1>3, <1>4, <1>5, RequestFits, Zenon DEF IsAnswer

\* A block is received: it is inside the buffer, and the loop goes on or the
\* piece is verified; else it was not asked for.
LEMMA HandlesPiece ==
  ASSUME DownloaderInv, NEW m, Handles(m), m.kind = "Piece"
  PROVE  DownloaderInv'
<1> USE DEF DownloaderInv
<1>1. Receives(m) /\ phase = "await" /\ Downloading
  BY Zenon DEF Handles, Downloading
<1>2. /\ GoesOn(blocks_received + 1, Copy(m)) \/ Overruns
      /\ m.begin + m.length <= PieceLength(index) => GoesOn(blocks_received + 1, Copy(m))
      /\ UNCHANGED <<bitfield, missed>>
  BY Zenon DEF Handles
<1>3. TypeOK' /\ phase' \in {"idle", "request", "undefined"} /\ UNCHANGED strays
  <2>1. /\ phase' \in {"idle", "request", "undefined"}
        /\ blocks_requested' \in Nat /\ blocks_received' \in Nat /\ dropped' \in Nat
        /\ UNCHANGED index
    BY <1>2 DEF TypeOK, GoesOn, Returns, Overruns, ForgetsCall
  <2>2. QED
    BY <1>1, <2>1, ReceivesFacts DEF TypeOK
<1>4. Disconnected' /\ TellsSound' /\ GreetingSound'
  BY <1>1, <1>3, ReceivesFacts, Zenon DEF Disconnected, GreetingSound
<1>5. BitfieldSound' /\ BitfieldIsCurrent'
  <2>1. \A i : m # [kind |-> "Have", index |-> i]
    OBVIOUS
  <2>2. NewsKept /\ has' = has
    BY <1>1, <1>2, <2>1, ReceivesFacts, Zenon DEF NewsKept
  <2>3. BitfieldInUse
    BY <1>1, ReceivesFacts, Zenon DEF BitfieldInUse
  <2>4. QED
    BY <1>2, <2>2, <2>3, BitsKept, Zenon
<1>6. strays = 0 => GoesOn(blocks_received + 1, Copy(m))
  <2>1. m = inbox[1] /\ 1 \in PiecesIn(inbox)
    BY <1>1, ReceivesFacts, Zenon DEF PiecesIn
  <2>2. QED
    BY <1>1, <1>2, <2>1, AnswersFit, Zenon
<1>7. CASE Overruns
  <2>1. CountersSound' /\ phase' = "undefined"
    BY <1>7, Zenon DEF CountersSound, Downloading, Overruns, ForgetsCall
  <2>2. strays # 0
    BY <1>6, <2>1, Zenon DEF GoesOn, Returns
  <2>3. QED
    BY <1>3, <1>4, <1>5, <2>1, <2>2, Zenon
<1>8. CASE GoesOn(blocks_received + 1, Copy(m)) /\ blocks_received + 1 >= blocks_total
  <2>1. Returns(IF Copy(m) = Content(index) THEN "OK" ELSE "CorruptPiece")
    BY <1>8, BlockCount DEF GoesOn, TypeOK
  <2>2. strays = 0 /\ socket' = "open" => Outstanding' = 0
    BY <1>1, <1>8, LastBlock, Zenon
  <2>3. CountersSound' /\ (strays' = 0 => Books')
    BY <1>3, <2>1, <2>2, OutsideOfDownload, Zenon DEF Returns, ForgetsCall, Downloading
  <2>4. QED
    BY <1>3, <1>4, <1>5, <2>3, Zenon
<1>9. CASE GoesOn(blocks_received + 1, Copy(m)) /\ blocks_received + 1 < blocks_total
  <2>1. /\ phase' = "request" /\ Downloading'
        /\ blocks_received' = blocks_received + 1
        /\ piece' = Copy(m)
        /\ UNCHANGED <<index, blocks_requested, dropped>>
    BY <1>9, Zenon DEF GoesOn, Downloading
  <2>2. /\ \A b : Request(b)' = Request(b)
        /\ blocks_total' = blocks_total
        /\ PieceLength(index)' = PieceLength(index)
    BY <2>1, Zenon DEF Request, blocks_total, PieceLength
  <2>3. \A n, b : IsAnswer(n, b)' <=> IsAnswer(n, b)
    BY <2>1, <2>2, Zenon DEF IsAnswer
  <2>4. CountersSound'
    <3>1. piece' = [x \in 0 .. PieceLength(index) - 1 |-> piece'[x]]
      <4>1. DOMAIN piece = 0 .. PieceLength(index) - 1
        BY <1>1, Zenon DEF CountersSound
      <4>2. QED
        BY <2>1, <4>1, Zenon DEF Copy
    <3>2. blocks_requested' - blocks_received' <= PIPELINE_SIZE_MAX
      BY <1>1, <2>1, DownloaderAssumption DEF CountersSound, TypeOK
    <3>3. QED
      BY <1>1, <1>9, <2>1, <2>2, <3>1, <3>2, Zenon DEF CountersSound
  <2> SUFFICES ASSUME strays = 0
               PROVE  Books'
    BY <1>3, <1>4, <1>5, <2>4, Zenon
  <2> USE DEF Books
  <2>5. phase' # "undefined" /\ ConnectionIsClean'
    BY <2>1, Zenon DEF ConnectionIsClean
  <2>6. CASE socket' # "open"
    BY <2>1, <2>5, <2>6, Zenon DEF RequestsSound, BlocksSound
  <2>7. CASE socket' = "open"
    <3>1. inbox' = Tail(inbox) /\ UNCHANGED <<outbox, pending>> /\ socket = "open"
      BY <1>1, <2>7, ReceivesFacts, Zenon
    <3>2. inbox # <<>> /\ m = Head(inbox)
      BY <1>1, Zenon DEF Receives
    <3>3. /\ Cardinality(PiecesIn(inbox)) = Cardinality(PiecesIn(Tail(inbox))) + 1
          /\ IsFiniteSet(PiecesIn(Tail(inbox)))
          /\ Answers(inbox) = Answers(Tail(inbox)) \union {m}
      BY <3>2, ReceiveFacts, Zenon DEF TypeOK
    <3>4. Answers(inbox)' = Answers(Tail(inbox)) /\ PiecesIn(inbox)' = PiecesIn(Tail(inbox))
      BY <3>1, Zenon DEF Answers, PiecesIn
    <3>5. RequestsSound'
      <4>1. Cardinality(PiecesIn(Tail(inbox))) \in Nat
        BY <3>3, FS_CardinalityType, Zenon
      <4> DEFINE l == Len(outbox)
                 p == Cardinality(pending)
                 a == Cardinality(PiecesIn(Tail(inbox)))
      <4>2. blocks_requested - blocks_received = l + p + (a + 1) + dropped
        BY <1>1, <3>1, <3>3, Zenon DEF RequestsSound, Outstanding
      <4>3. Outstanding' = l + p + a
        BY <3>1, <3>4, Zenon DEF Outstanding
      <4>4. blocks_requested' - blocks_received' = Outstanding' + dropped'
        <5>1. blocks_requested \in Nat /\ blocks_received \in Nat /\ dropped \in Nat
          BY Zenon DEF TypeOK
        <5>2. l \in Nat /\ p \in Nat /\ a \in Nat
          BY <4>1, OutstandingFacts, Zenon
        <5> HIDE DEF l, p, a
        <5>3. blocks_requested - (blocks_received + 1) = l + p + a + dropped
          BY <4>2, <5>1, <5>2
        <5>4. QED
          BY <2>1, <4>3, <5>3, Zenon
      <4>5. QED
        BY <1>1, <2>1, <2>2, <2>3, <3>1, <3>3, <3>4, <4>4, Zenon DEF RequestsSound
    <3>6. BlocksSound'
      <4>1. CASE spoilt \/ ~m.good
        <5>1. spoilt'
          BY <4>1, Zenon DEF Handles
        <5>2. QED
          BY <5>1, Zenon DEF BlocksSound
      <4>2. CASE dropped # 0
        BY <2>1, <4>2 DEF BlocksSound, TypeOK
      <4>3. CASE ~spoilt /\ m.good /\ dropped = 0
        <5>1. ASSUME NEW b \in 0 .. blocks_requested' - 1
              PROVE  \/ UnderWay(b)'
                     \/ \A x \in 0 .. PieceLength(index) - 1 : InBlock(x, b) => piece'[x] = <<index, x>>
          <6>1. \/ \E k \in DOMAIN outbox : outbox[k] = Request(b)
                \/ Request(b) \in pending
                \/ \E n \in Answers(Tail(inbox)) : IsAnswer(n, b)
                \/ \A x \in 0 .. PieceLength(index) - 1 : InBlock(x, b) => Copy(m)[x] = <<index, x>>
            BY <1>1, <2>1, <3>1, <3>2, <4>3, <5>1, CopyFacts, Zenon
          <6>2. QED
            BY <2>1, <2>2, <2>3, <3>1, <3>4, <6>1, Zenon DEF UnderWay
        <5>2. \A x, b : InBlock(x, b)' <=> InBlock(x, b)
          BY <2>2, Zenon DEF InBlock
        <5>3. QED
          BY <2>1, <2>2, <5>1, <5>2, Zenon DEF BlocksSound
      <4>4. QED
        BY <4>1, <4>2, <4>3, Zenon
    <3>7. QED
      BY <2>1, <2>5, <3>5, <3>6, Zenon
  <2>8. QED
    BY <2>6, <2>7, Zenon
<1>10. QED
  <2>1. blocks_received + 1 >= blocks_total \/ blocks_received + 1 < blocks_total
    BY BlockCount DEF TypeOK
  <2>2. QED
    BY <1>2, <1>7, <1>8, <1>9, <2>1, Zenon

-----------------------------------------------------------------------------
(* Steps of the peer *)

\* The peer sends a message that answers no request.
LEMMA PeerSends ==
  ASSUME DownloaderInv, NEW m \in Messages, m.kind # "Piece", Sends(m),
         UNCHANGED <<phase, socket, bitfield, callVars, outbox, pending, linkVars>>,
         socket = "open", greeted', has' \in SUBSET PieceIndices, has \subseteq has',
         m.kind = "Bitfield" => ShowsOnly(m.bitfield)',
         m.kind = "Have" => m.index \in has',
         \A i \in has' \ has : m = [kind |-> "Have", index |-> i],
         ~greeted /\ m.kind = "Bitfield" =>
           \A i \in has' : BitfieldGet(BitfieldOf(m.bitfield, pieces_count), i)
  PROVE  DownloaderInv'
<1> USE DEF DownloaderInv, callVars, linkVars
<1>1. inbox' \in Seq(Messages) /\ inbox' # <<>> /\ TellsSound' /\ NewsKept
  BY TellsKept, Zenon
<1>2. TypeOK' /\ Disconnected'
  BY <1>1, Zenon DEF TypeOK, Disconnected
<1>3. /\ Cardinality(PiecesIn(inbox))' = Cardinality(PiecesIn(inbox))
      /\ Answers(inbox)' = Answers(inbox)
  BY SendFacts, Zenon DEF Sends, TypeOK
<1>4. CountersSound' /\ (strays' = 0 => Books')
  <2>1. CASE Downloading
    <3>1. Downloading'
      BY <2>1, Zenon DEF Downloading
    <3>2. QED
      BY <1>3, <2>1, <3>1, BooksKept, Zenon
  <2>2. CASE ~Downloading
    <3>1. ~Downloading' /\ blocks_requested' = 0 /\ blocks_received' = 0
      BY <2>2, Zenon DEF CountersSound, Downloading
    <3>2. Outstanding' = Outstanding
      BY <1>3, Zenon DEF Outstanding
    <3>3. strays' = 0 => phase' # "undefined" /\ dropped' = 0 /\ Outstanding' = 0
      BY <2>2, <3>2, Zenon DEF Books, ConnectionIsClean, Downloading
    <3>4. QED
      BY <3>1, <3>3, OutsideOfDownload, Zenon
  <2>3. QED
    BY <2>1, <2>2, Zenon
<1>5. BitfieldSound' /\ BitfieldIsCurrent'
  BY <1>1, BitsKept, Zenon DEF BitfieldInUse
<1>6. GreetingSound'
  <2>1. CASE greeted
    BY <2>1, GreetingKept, Zenon
  <2>2. CASE ~greeted /\ phase = "first_message"
    <3>1. outbox = <<>> /\ pending = {} /\ inbox = <<>>
      BY <2>2, Zenon DEF GreetingSound
    <3>2. inbox'[1] = m
      BY <3>1 DEF Sends
    <3>3. QED
      BY <1>1, <2>2, <3>1, <3>2, Zenon DEF GreetingSound
  <2>3. CASE phase # "first_message"
    BY <2>3, Zenon DEF GreetingSound
  <2>4. QED
    BY <2>1, <2>2, <2>3, Zenon
<1>7. QED
  BY <1>1, <1>2, <1>4, <1>5, <1>6, Zenon

\* The peer sends its bitfield, unchokes us, tells of a piece.
LEMMA PeerSpeaks ==
  ASSUME DownloaderInv, PeerGreets \/ PeerUnchokes \/ PeerTells
  PROVE  DownloaderInv'
<1> USE DEF DownloaderInv
<1>1. has \in SUBSET PieceIndices
  BY Zenon DEF TypeOK
<1>2. CASE PeerGreets
  <2>1. /\ UNCHANGED <<phase, socket, bitfield, callVars, outbox, pending, has, linkVars>>
        /\ socket = "open" /\ greeted'
    BY <1>2, Zenon DEF PeerGreets
  <2>2. CASE Sends([kind |-> "Bitfield", bitfield |-> Payload(has)])
    <3>1. /\ Payload(has) \in Storages /\ ShowsOnly(Payload(has))
          /\ \A i \in has : BitfieldGet(BitfieldOf(Payload(has), pieces_count), i)
      BY <1>1, PayloadReadBack, Zenon DEF ShowsOnly
    <3>2. PICK storage \in Storages : storage = Payload(has)
      BY <3>1, Zenon
    <3>3. /\ ShowsOnly(storage) /\ Sends([kind |-> "Bitfield", bitfield |-> storage])
          /\ \A i \in has : BitfieldGet(BitfieldOf(storage, pieces_count), i)
      BY <2>2, <3>1, <3>2, Zenon
    <3> DEFINE m == [kind |-> "Bitfield", bitfield |-> storage]
    <3>4. m \in Messages /\ m.kind = "Bitfield" /\ m.bitfield = storage /\ Sends(m)
      BY <3>3, Zenon DEF Messages
    <3> HIDE DEF m
    <3>5. ShowsOnly(m.bitfield)'
      BY <2>1, <3>3, <3>4, Zenon DEF ShowsOnly
    <3>6. \A i \in has' : BitfieldGet(BitfieldOf(m.bitfield, pieces_count), i)
      BY <2>1, <3>3, <3>4, Zenon
    <3>7. QED
      BY <1>1, <2>1, <3>4, <3>5, <3>6, PeerSends, Zenon
  <2>3. CASE Sends([kind |-> "Other"])
    <3> DEFINE m == [kind |-> "Other"]
    <3>1. m \in Messages /\ m.kind = "Other" /\ Sends(m)
      BY <2>3, Zenon DEF Messages
    <3> HIDE DEF m
    <3>2. QED
      BY <1>1, <2>1, <3>1, PeerSends, Zenon
  <2>4. QED
    BY <1>2, <2>2, <2>3, Zenon DEF PeerGreets
<1>3. CASE PeerUnchokes
  <2> DEFINE m == [kind |-> "Unchoke"]
  <2>1. m \in Messages /\ m.kind = "Unchoke"
    BY Zenon DEF Messages
  <2>2. /\ UNCHANGED <<phase, socket, bitfield, callVars, outbox, pending, has, linkVars>>
        /\ socket = "open" /\ greeted /\ greeted' /\ Sends(m)
    BY <1>3, Zenon DEF PeerUnchokes
  <2> HIDE DEF m
  <2>3. QED
    BY <1>1, <2>1, <2>2, PeerSends, Zenon
<1>4. CASE PeerTells
  <2>1. /\ UNCHANGED <<phase, socket, bitfield, callVars, outbox, pending, linkVars>>
        /\ socket = "open" /\ greeted /\ greeted'
    BY <1>4, Zenon DEF PeerTells, MaySpeak
  <2>2. CASE Sends([kind |-> "Other"]) /\ UNCHANGED has
    <3> DEFINE m == [kind |-> "Other"]
    <3>1. m \in Messages /\ m.kind = "Other" /\ Sends(m)
      BY <2>2, Zenon DEF Messages
    <3> HIDE DEF m
    <3>2. QED
      BY <1>1, <2>1, <2>2, <3>1, PeerSends, Zenon
  <2>3. CASE \E i \in PieceIndices \ has :
               has' = has \union {i} /\ Sends([kind |-> "Have", index |-> i])
    <3>1. PICK i \in PieceIndices \ has :
                 has' = has \union {i} /\ Sends([kind |-> "Have", index |-> i])
      BY <2>3, Zenon
    <3> DEFINE m == [kind |-> "Have", index |-> i]
    <3>2. m \in Messages /\ m.kind = "Have" /\ m.index = i /\ Sends(m)
      BY <3>1, Zenon DEF Messages
    <3> HIDE DEF m
    <3>3. \A e \in has' \ has : m = [kind |-> "Have", index |-> e]
      BY <3>1, Zenon DEF m
    <3>4. QED
      BY <1>1, <2>1, <3>1, <3>2, <3>3, PeerSends, Zenon
  <2>4. QED
    BY <1>4, <2>2, <2>3, Zenon DEF PeerTells
<1>5. QED
  BY <1>2, <1>3, <1>4, Zenon

\* The peer chokes us and forgets the requests it has not answered.
LEMMA PeerChokesStep ==
  ASSUME DownloaderInv, PeerChokes
  PROVE  DownloaderInv'
<1> USE DEF DownloaderInv, PeerChokes, MaySpeak, linkVars
<1> DEFINE m == [kind |-> "Choke"]
<1>1. m \in Messages /\ m.kind = "Choke" /\ Sends(m)
  BY Zenon DEF Messages
<1> HIDE DEF m
<1>2. inbox' \in Seq(Messages) /\ TellsSound' /\ NewsKept
  BY <1>1, TellsKept, Zenon
<1>3. /\ Cardinality(PiecesIn(inbox))' = Cardinality(PiecesIn(inbox))
      /\ Answers(inbox)' = Answers(inbox)
  BY <1>1, SendFacts, Zenon DEF Sends, TypeOK
<1>4. Cardinality(pending') = 0 /\ IsFiniteSet(pending')
  BY FS_EmptySet, Zenon
<1>5. TypeOK' /\ Disconnected'
  BY <1>2, <1>4, OutstandingFacts DEF TypeOK, Disconnected
<1>6. BitfieldSound' /\ BitfieldIsCurrent' /\ GreetingSound'
  <2>1. BitfieldSound' /\ BitfieldIsCurrent'
    BY <1>2, BitsKept, Zenon DEF BitfieldInUse
  <2>2. GreetingSound'
    BY <1>1, GreetingKept, Zenon
  <2>3. QED
    BY <2>1, <2>2, Zenon
<1> SUFFICES  CountersSound' /\ (strays = 0 => Books')
  BY <1>2, <1>5, <1>6, Zenon
<1>7. CASE ~Downloading
  <2>1. strays = 0 => Outstanding = 0 /\ dropped = 0 /\ phase # "undefined"
    BY <1>7, Zenon DEF Books, ConnectionIsClean, Downloading
  <2>2. strays = 0 => Outstanding' = 0 /\ dropped' = 0
    BY <1>3, <1>4, <2>1, OutstandingFacts DEF Outstanding
  <2>3. ~Downloading' /\ blocks_requested' = 0 /\ blocks_received' = 0
    BY <1>7, Zenon DEF CountersSound, Downloading
  <2>4. QED
    BY <2>1, <2>2, <2>3, OutsideOfDownload, Zenon
<1>8. CASE Downloading
  <2>1. /\ Downloading' /\ phase' # "undefined" /\ CountersSound' /\ ConnectionIsClean'
    BY <1>8, Zenon DEF Downloading, CountersSound, ConnectionIsClean, blocks_total
  <2> SUFFICES ASSUME strays = 0
               PROVE  Books'
    BY <2>1, Zenon
  <2> USE DEF Books
  <2>2. \A b : Request(b)' = Request(b)
    BY Zenon DEF Request, blocks_total
  <2>3. \A n, b : IsAnswer(n, b)' <=> IsAnswer(n, b)
    BY <2>2, Zenon DEF IsAnswer
  <2>4. Outstanding + dropped = Outstanding' + dropped'
    <3>1. dropped \in Nat
      BY Zenon DEF TypeOK
    <3>2. QED
      BY <1>3, <1>4, <3>1, OutstandingFacts DEF Outstanding
  <2>5. RequestsSound'
    BY <1>3, <1>8, <2>2, <2>3, <2>4, Zenon DEF RequestsSound
  <2>6. BlocksSound'
    <3>1. CASE Cardinality(pending) # 0
      <4>1. dropped' > 0
        BY <3>1, OutstandingFacts DEF TypeOK
      <4>2. QED
        BY <4>1, Zenon DEF BlocksSound
    <3>2. CASE Cardinality(pending) = 0
      <4>1. pending = {} /\ dropped' = dropped
        BY <3>2, FS_EmptySet DEF TypeOK
      <4>2. \A b : UnderWay(b) => UnderWay(b)'
        BY <1>3, <2>2, <2>3, <4>1, Zenon DEF UnderWay
      <4>3. \A x, b : InBlock(x, b)' <=> InBlock(x, b)
        BY <2>2, Zenon DEF InBlock
      <4>4. CASE spoilt
        BY <4>4, Zenon DEF BlocksSound
      <4>5. CASE ~spoilt
        BY <1>8, <4>1, <4>2, <4>3, <4>5, Zenon DEF BlocksSound
      <4>6. QED
        BY <4>4, <4>5, Zenon
    <3>3. QED
      BY <3>1, <3>2, Zenon
  <2>7. QED
    BY <2>1, <2>5, <2>6, Zenon
<1>9. QED
  BY <1>7, <1>8, Zenon

\* What the steps of the peer on a request have in common.
LEMMA RequestUnderWay ==
  ASSUME DownloaderInv, strays = 0, outbox # <<>> \/ pending # {}
  PROVE  /\ socket = "open" /\ Downloading
         /\ Len(outbox) \in Nat /\ blocks_requested - Len(outbox) \in Nat
<1> USE DEF DownloaderInv, Books
<1>1. socket = "open"
  BY Zenon DEF Disconnected
<1>2. Outstanding # 0
  <2>1. Len(outbox) # 0 \/ Cardinality(pending) # 0
    BY FS_EmptySet, EmptySeq, Zenon DEF TypeOK
  <2>2. QED
    BY <2>1, OutstandingFacts DEF Outstanding
<1>3. Downloading
  BY <1>1, <1>2, Zenon DEF ConnectionIsClean, Downloading
<1>4. blocks_requested - blocks_received = Outstanding + dropped
  BY <1>1, <1>3, Zenon DEF RequestsSound
<1>5. blocks_requested \in Nat /\ blocks_received \in Nat /\ dropped \in Nat
  BY Zenon DEF TypeOK
<1>6. QED
  BY <1>1, <1>3, <1>4, <1>5, OutstandingFacts DEF Outstanding

\* A request that leaves the outbox is counted once more elsewhere.
LEMMA TakenCounts ==
  ASSUME NEW l \in Nat, NEW p \in Nat, NEW q \in Nat, NEW a \in Nat, NEW d \in Nat, NEW e \in Nat,
         q + e = p + d + 1
  PROVE  ((l - 1) + q + a) + e = (l + p + a) + d
OBVIOUS

\* A request arrives at the peer.
LEMMA PeerTakesStep ==
  ASSUME DownloaderInv, PeerTakesRequest
  PROVE  DownloaderInv'
<1> USE DEF DownloaderInv, PeerTakesRequest, linkVars
<1> DEFINE n == blocks_requested - Len(outbox)
<1>1. socket = "open" /\ phase # "first_message"
  BY Zenon DEF Disconnected, GreetingSound
<1>2. /\ Len(outbox) \in Nat \ {0} /\ DOMAIN outbox = 1 .. Len(outbox)
      /\ outbox' \in Seq(Requests) /\ Len(outbox') = Len(outbox) - 1
      /\ DOMAIN outbox' = 1 .. Len(outbox) - 1
      /\ \A k \in DOMAIN outbox' : outbox'[k] = outbox[k + 1]
      /\ Head(outbox) = outbox[1] /\ Head(outbox) \in Requests
  BY HeadTailProperties, LenProperties, EmptySeq DEF TypeOK
<1>3. TypeOK'
  <2>1. IsFiniteSet(pending') /\ pending' \in SUBSET Requests
    <3>1. IsFiniteSet(pending \union {Head(outbox)})
      BY FS_AddElement, Zenon DEF TypeOK
    <3>2. pending' = pending \/ pending' = pending \union {Head(outbox)}
      BY Zenon
    <3>3. QED
      BY <1>2, <3>1, <3>2, Zenon DEF TypeOK
  <2>2. dropped' \in Nat
    BY DEF TypeOK
  <2>3. QED
    BY <1>2, <2>1, <2>2, Zenon DEF TypeOK
<1>4. Disconnected' /\ TellsSound' /\ GreetingSound' /\ CountersSound'
  BY <1>1, Zenon DEF Disconnected, TellsSound, ShowsOnly, GreetingSound, CountersSound, Downloading,
    blocks_total
<1>5. BitfieldSound' /\ BitfieldIsCurrent'
  <2>1. NewsKept
    BY NoNews, Zenon
  <2>2. BitfieldInUse' => BitfieldInUse
    BY Zenon DEF BitfieldInUse
  <2>3. QED
    BY <2>1, <2>2, BitsKept, Zenon
<1> SUFFICES ASSUME strays = 0
             PROVE  Books'
  BY <1>3, <1>4, <1>5, Zenon
<1> USE DEF Books
<1>6. Downloading /\ n \in Nat
  BY RequestUnderWay, Zenon
<1>7. Head(outbox) = Request(n)
  <2>1. outbox[1] = Request(blocks_requested - Len(outbox) + 1 - 1)
    BY <1>1, <1>6, <1>2 DEF RequestsSound
  <2>2. blocks_requested - Len(outbox) + 1 - 1 = n
    BY <1>1, <1>6, <1>2 DEF TypeOK
  <2>3. QED
    BY <1>2, <2>1, <2>2, Zenon
<1>8. Head(outbox) \notin pending
  <2>1. ASSUME NEW b \in 0 .. n - 1
        PROVE  Request(b) # Request(n)
    BY <1>1, <1>6, RequestsDiffer
  <2>2. QED
    BY <1>1, <1>6, <1>7, <2>1, Zenon DEF RequestsSound
<1>9. /\ IsFiniteSet(pending') /\ pending' \in SUBSET Requests
      /\ Cardinality(pending') + dropped' = Cardinality(pending) + dropped + 1
      /\ dropped' \in Nat /\ Cardinality(pending') \in Nat
  <2>1. dropped \in Nat /\ IsFiniteSet(pending) /\ Cardinality(pending) \in Nat
    BY OutstandingFacts, Zenon DEF TypeOK
  <2>2. CASE pending' = pending
    <3>1. dropped' = dropped + 1
      <4>1. Head(outbox) \in pending \union {Head(outbox)}
        BY Zenon
      <4>2. QED
        BY <1>8, <2>2, <4>1, Zenon
    <3>2. QED
      BY <2>1, <2>2, <3>1 DEF TypeOK
  <2>3. CASE pending' = pending \union {Head(outbox)} /\ dropped' = dropped
    <3>1. IsFiniteSet(pending') /\ Cardinality(pending') = Cardinality(pending) + 1
      BY <1>8, <2>1, <2>3, FS_AddElement, Zenon
    <3>2. pending' \in SUBSET Requests
      BY <1>2, <2>3, Zenon DEF TypeOK
    <3>3. QED
      BY <2>1, <2>3, <3>1, <3>2
  <2>4. QED
    BY <2>2, <2>3, Zenon
<1>10. Downloading' /\ phase' # "undefined" /\ ConnectionIsClean'
  BY <1>1, <1>6, Zenon DEF Downloading, ConnectionIsClean
<1>11. /\ \A b : Request(b)' = Request(b)
      /\ Answers(inbox)' = Answers(inbox) /\ PiecesIn(inbox)' = PiecesIn(inbox)
  BY Zenon DEF Request, blocks_total, Answers, PiecesIn
<1>12. \A a, b : IsAnswer(a, b)' <=> IsAnswer(a, b)
  BY <1>11, Zenon DEF IsAnswer
<1>13. blocks_requested' - Len(outbox') = n + 1
  BY <1>1, <1>6, <1>2 DEF TypeOK
<1>14. RequestsSound'
  <2>1. blocks_requested' - blocks_received' = Outstanding' + dropped'
    <3>1. Outstanding' + dropped' = Outstanding + dropped
      <4> DEFINE l == Len(outbox)
                 p == Cardinality(pending)
                 q == Cardinality(pending')
                 a == Cardinality(PiecesIn(inbox))
                 d == dropped
                 e == dropped'
      <4>1. l \in Nat /\ p \in Nat /\ a \in Nat /\ d \in Nat
        BY OutstandingFacts, Zenon DEF TypeOK
      <4>2. q \in Nat /\ e \in Nat /\ q + e = p + d + 1
        BY <1>9, Zenon
      <4>3. Outstanding' = (l - 1) + q + a
        BY <1>2, <1>11, Zenon DEF Outstanding
      <4>4. Outstanding = l + p + a
        BY Zenon DEF Outstanding
      <4>5. ((l - 1) + q + a) + e = (l + p + a) + d
        <5> HIDE DEF l, p, q, a, d, e, DownloaderInv, PeerTakesRequest
        <5>1. QED
          BY <4>1, <4>2, TakenCounts
      <4>6. QED
        BY <4>3, <4>4, <4>5, Zenon
    <3>2. QED
      BY <1>1, <1>6, <3>1, Zenon DEF RequestsSound
  <2>2. ASSUME NEW k \in DOMAIN outbox'
        PROVE  outbox'[k] = Request(blocks_requested' - Len(outbox') + k - 1)
    <3>1. outbox[k + 1] = Request(blocks_requested - Len(outbox) + (k + 1) - 1)
      BY <1>1, <1>6, <1>2 DEF RequestsSound
    <3>2. blocks_requested - Len(outbox) + (k + 1) - 1 = blocks_requested' - Len(outbox') + k - 1
      BY <1>2 DEF TypeOK
    <3>3. QED
      BY <1>2, <3>1, <3>2, Zenon
  <2>3. ASSUME NEW r \in pending'
        PROVE  \E b \in 0 .. blocks_requested' - Len(outbox') - 1 : r = Request(b)
    <3>1. r \in pending \/ r = Request(n)
      BY <1>7, Zenon
    <3>2. r \in pending => \E b \in 0 .. n - 1 : r = Request(b)
      BY <1>1, <1>6, Zenon DEF RequestsSound
    <3>3. QED
      BY <1>1, <1>6, <1>13, <3>1, <3>2
  <2>4. \A a \in Answers(inbox)' : \E b \in 0 .. blocks_requested' - 1 : IsAnswer(a, b)
    BY <1>1, <1>6, <1>11, Zenon DEF RequestsSound
  <2>5. QED
    BY <1>11, <1>12, <2>1, <2>2, <2>3, <2>4, Zenon DEF RequestsSound
<1>15. BlocksSound'
  <2>1. CASE dropped' = dropped + 1
    BY <2>1 DEF BlocksSound, TypeOK
  <2>2. CASE pending' = pending \union {Head(outbox)} /\ UNCHANGED dropped
    <3>1. ASSUME NEW b, UnderWay(b)
          PROVE  UnderWay(b)'
      <4>1. CASE \E k \in DOMAIN outbox : outbox[k] = Request(b)
        <5>1. PICK k \in DOMAIN outbox : outbox[k] = Request(b)
          BY <4>1, Zenon
        <5>2. CASE k = 1
          BY <1>2, <1>11, <2>2, <5>1, <5>2, Zenon DEF UnderWay
        <5>3. CASE k # 1
          <6>1. k - 1 \in DOMAIN outbox' /\ outbox'[k - 1] = outbox[k]
            BY <1>2, <5>1, <5>3
          <6>2. QED
            BY <1>11, <5>1, <6>1, Zenon DEF UnderWay
        <5>4. QED
          BY <5>2, <5>3, Zenon
      <4>2. CASE Request(b) \in pending
        BY <1>11, <2>2, <4>2, Zenon DEF UnderWay
      <4>3. CASE \E a \in Answers(inbox) : IsAnswer(a, b)
        BY <1>11, <1>12, <4>3, Zenon DEF UnderWay
      <4>4. QED
        BY <3>1, <4>1, <4>2, <4>3, Zenon DEF UnderWay
    <3>2. \A x, b : InBlock(x, b)' <=> InBlock(x, b)
      BY <1>11, Zenon DEF InBlock
    <3>3. CASE spoilt
      BY <3>3, Zenon DEF BlocksSound
    <3>4. CASE ~spoilt
      BY <1>1, <1>6, <2>2, <3>1, <3>2, <3>4, Zenon DEF BlocksSound
    <3>5. QED
      BY <3>3, <3>4, Zenon
  <2>3. QED
    BY <2>1, <2>2, Zenon
<1>16. QED
  BY <1>10, <1>14, <1>15, Zenon

\* The peer answers a request, truly or not.
LEMMA PeerAnswersStep ==
  ASSUME DownloaderInv, NEW r \in pending, PeerAnswers(r)
  PROVE  DownloaderInv'
<1> USE DEF DownloaderInv
<1>1. socket = "open" /\ phase # "first_message" /\ r \in Requests
  BY Zenon DEF Disconnected, GreetingSound, TypeOK
<1>2. PICK good \in BOOLEAN :
        Sends([kind |-> "Piece", index |-> r.index, begin |-> r.begin,
               length |-> r.length, good |-> good])
  BY Zenon DEF PeerAnswers, SendsBlock
<1> DEFINE m == [kind |-> "Piece", index |-> r.index, begin |-> r.begin,
                 length |-> r.length, good |-> good]
<1>3. /\ m \in Messages /\ Sends(m)
      /\ m.kind = "Piece" /\ m.index = r.index /\ m.begin = r.begin /\ m.length = r.length
  BY <1>1, <1>2, Zenon DEF Messages, Requests
<1> HIDE DEF m
<1>4. /\ pending' = pending \ {r}
      /\ UNCHANGED <<phase, socket, bitfield, index, blocks_requested, blocks_received,
                     piece, dropped, spoilt, outbox, has, greeted, strays, missed>>
  BY Zenon DEF PeerAnswers, callVars, linkVars
<1>5. inbox' \in Seq(Messages) /\ TellsSound' /\ NewsKept
  BY <1>1, <1>3, <1>4, TellsKept, Zenon
<1>6. /\ Cardinality(PiecesIn(inbox))' = Cardinality(PiecesIn(inbox)) + 1
      /\ Answers(inbox)' = Answers(inbox) \union {m}
  BY <1>3, SendFacts, Zenon DEF Sends, TypeOK
<1>7. IsFiniteSet(pending') /\ Cardinality(pending') = Cardinality(pending) - 1
  BY <1>4, FS_RemoveElement, Zenon DEF TypeOK
<1>8. TypeOK' /\ Disconnected' /\ GreetingSound'
  BY <1>1, <1>4, <1>5, <1>7, Zenon DEF TypeOK, Disconnected, GreetingSound
<1>9. CountersSound'
  BY <1>4, Zenon DEF Downloading, CountersSound, blocks_total
<1>10. BitfieldSound' /\ BitfieldIsCurrent'
  BY <1>4, <1>5, BitsKept, Zenon DEF BitfieldInUse
<1> SUFFICES ASSUME strays = 0
             PROVE  Books'
  BY <1>4, <1>5, <1>8, <1>9, <1>10, Zenon
<1> USE DEF Books
<1>11. Downloading /\ Downloading' /\ phase' # "undefined" /\ ConnectionIsClean'
  BY <1>4, RequestUnderWay, Zenon DEF Downloading, ConnectionIsClean
<1>12. PICK b \in 0 .. blocks_requested - Len(outbox) - 1 : r = Request(b)
  BY <1>1, <1>11, Zenon DEF RequestsSound
<1>13. \A a : Request(a)' = Request(a)
  BY <1>4, Zenon DEF Request, blocks_total
<1>14. \A n, a : IsAnswer(n, a)' <=> IsAnswer(n, a)
  BY <1>4, <1>13, Zenon DEF IsAnswer
<1>15. IsAnswer(m, b)
  BY <1>3, <1>12, Zenon DEF IsAnswer, Request
<1>16. RequestsSound'
  <2>1. Outstanding' = Outstanding
    BY <1>4, <1>6, <1>7, OutstandingFacts DEF Outstanding
  <2>2. ASSUME NEW n \in Answers(inbox)'
        PROVE  \E a \in 0 .. blocks_requested - 1 : IsAnswer(n, a)
    <3>1. b \in 0 .. blocks_requested - 1
      BY <1>12, OutstandingFacts DEF TypeOK
    <3>2. CASE n = m
      BY <1>15, <3>1, <3>2, Zenon
    <3>3. CASE n \in Answers(inbox)
      BY <1>1, <1>11, <3>3, Zenon DEF RequestsSound
    <3>4. QED
      BY <1>6, <3>2, <3>3, Zenon
  <2>3. QED
    BY <1>1, <1>11, <1>4, <1>13, <1>14, <2>1, <2>2, Zenon DEF RequestsSound
<1>17. BlocksSound'
  <2>1. ASSUME NEW a \in 0 .. blocks_requested - 1, UnderWay(a)
        PROVE  UnderWay(a)'
    <3>1. CASE Request(a) = r
      <4>1. IsAnswer(m, a)
        BY <1>3, <3>1, Zenon DEF IsAnswer, Request
      <4>2. QED
        BY <1>6, <1>14, <4>1, Zenon DEF UnderWay
    <3>2. CASE Request(a) # r
      BY <1>4, <1>6, <1>13, <1>14, <2>1, <3>2, Zenon DEF UnderWay
    <3>3. QED
      BY <3>1, <3>2, Zenon
  <2>2. \A x, a : InBlock(x, a)' <=> InBlock(x, a)
    BY <1>13, Zenon DEF InBlock
  <2>3. CASE spoilt
    BY <1>4, <2>3, Zenon DEF BlocksSound
  <2>4. CASE ~spoilt
    BY <1>1, <1>11, <1>4, <2>1, <2>2, <2>4, Zenon DEF BlocksSound
  <2>5. QED
    BY <2>3, <2>4, Zenon
<1>18. QED
  BY <1>11, <1>16, <1>17, Zenon

\* The peer sends a block that it was not asked for: the books are lost, what
\* is known of its pieces is not.
LEMMA PeerStraysStep ==
  ASSUME DownloaderInv, NEW b \in 0 .. blocks_total - 1, PeerStrays(b)
  PROVE  DownloaderInv'
<1> USE DEF DownloaderInv
<1>1. /\ socket = "open" /\ greeted
      /\ UNCHANGED <<phase, socket, bitfield, index, blocks_requested, blocks_received,
                     piece, dropped, spoilt, outbox, pending, has, greeted, missed>>
  BY Zenon DEF PeerStrays, MaySpeak, callVars, peerVars
<1>2. strays' \in Nat /\ strays' # 0
  BY DEF PeerStrays, TypeOK
<1>3. Request(b) \in Requests
  BY RequestFits, Zenon DEF TypeOK
<1> DEFINE r == Request(b)
<1> HIDE DEF r
<1>4. PICK good \in BOOLEAN :
        Sends([kind |-> "Piece", index |-> r.index, begin |-> r.begin,
               length |-> r.length, good |-> good])
  BY Zenon DEF PeerStrays, SendsBlock, r
<1> DEFINE m == [kind |-> "Piece", index |-> r.index, begin |-> r.begin,
                 length |-> r.length, good |-> good]
<1>5. m \in Messages /\ Sends(m) /\ m.kind = "Piece"
  <2>1. r \in Requests
    BY <1>3, Zenon DEF r
  <2>2. QED
    BY <1>4, <2>1, Zenon DEF Messages, Requests
<1> HIDE DEF m
<1>6. inbox' \in Seq(Messages) /\ TellsSound' /\ NewsKept
  BY <1>1, <1>5, TellsKept, Zenon
<1>7. TypeOK' /\ Disconnected' /\ CountersSound'
  BY <1>1, <1>2, <1>6, Zenon DEF TypeOK, Disconnected, CountersSound, Downloading, blocks_total
<1>8. GreetingSound'
  BY <1>1, <1>5, GreetingKept, Zenon
<1>9. BitfieldSound' /\ BitfieldIsCurrent'
  BY <1>1, <1>6, BitsKept, Zenon DEF BitfieldInUse
<1>10. QED
  BY <1>2, <1>6, <1>7, <1>8, <1>9, Zenon

-----------------------------------------------------------------------------
(* The theorems *)

\* No step of the call or of the peer breaks the invariant.
LEMMA DownloaderStep == DownloaderInv /\ [Next]_vars => DownloaderInv'
<1> SUFFICES ASSUME DownloaderInv, [Next]_vars
             PROVE  DownloaderInv'
  BY Zenon
<1>1. CASE \E i \in PieceIndices : Call(i)
  BY <1>1, CallStep, Zenon
<1>2. CASE Connects
  BY <1>2, ConnectsStep, Zenon
<1>3. CASE ConnectFails \/ IOFails
  BY <1>3, FailsStep, Zenon DEF ConnectFails, IOFails
<1>4. ASSUME NEW m, FirstMessage(m)
      PROVE  DownloaderInv'
  <2>1. CASE m.kind = "Bitfield"
    BY <1>4, <2>1, GreetingSteps, Zenon DEF FirstMessage
  <2>2. CASE m.kind # "Bitfield"
    BY <1>4, <2>2, FailsStep, Zenon DEF FirstMessage
  <2>3. QED
    BY <2>1, <2>2, Zenon
<1>5. ASSUME NEW m, AwaitUnchoke(m)
      PROVE  DownloaderInv'
  BY <1>5, GreetingSteps, Zenon DEF AwaitUnchoke
<1>6. ASSUME NEW m, Handles(m)
      PROVE  DownloaderInv'
  BY <1>6, HandlesOther, HandlesPiece, Zenon
<1>7. CASE Greets \/ MissingPiece
  BY <1>7, QuietSteps, Zenon
<1>8. CASE Starts
  BY <1>8, StartsStep, Zenon
<1>9. CASE SendsRequest
  BY <1>9, SendsRequestStep, Zenon
<1>10. CASE PipelineFull
  BY <1>10, PipelineFullStep, Zenon
<1>11. CASE Peer
  BY <1>11, PeerSpeaks, PeerChokesStep, PeerTakesStep, PeerAnswersStep, PeerStraysStep, Zenon
    DEF Peer
<1>12. CASE UNCHANGED vars
  <2>1. UNCHANGED <<phase, socket, bitfield, index, blocks_requested, blocks_received, piece,
                    dropped, spoilt, outbox, inbox, pending, has, greeted, strays, missed>>
    BY <1>12, Zenon DEF vars, callVars, peerVars, linkVars
  <2>2. TypeOK' /\ Disconnected' /\ TellsSound'
    BY <2>1, Zenon DEF DownloaderInv, TypeOK, Disconnected, TellsSound, ShowsOnly
  <2>3. BitfieldSound' /\ BitfieldIsCurrent'
    <3>1. NewsKept
      BY <2>1, NoNews, Zenon
    <3>2. QED
      BY <2>1, <3>1, BitsKept, Zenon DEF BitfieldInUse
  <2>4. GreetingSound'
    BY <2>1, Zenon DEF DownloaderInv, GreetingSound, ToldOf
  <2>5. PiecesIn(inbox)' = PiecesIn(inbox) /\ Answers(inbox)' = Answers(inbox)
    BY <2>1, Zenon DEF PiecesIn, Answers
  <2>6. CASE Downloading
    BY <2>1, <2>2, <2>3, <2>4, <2>5, <2>6, BooksKept, Zenon DEF DownloaderInv, Downloading
  <2>7. CASE ~Downloading
    <3>1. ~Downloading' /\ blocks_requested' = 0 /\ blocks_received' = 0
      BY <2>1, <2>7, Zenon DEF DownloaderInv, CountersSound, Downloading
    <3>2. strays' = 0 =>
            phase' # "undefined" /\ dropped' = 0 /\ (socket' = "open" => Outstanding' = 0)
      BY <2>1, <2>5, <2>7, Zenon DEF DownloaderInv, Books, Downloading, ConnectionIsClean, Outstanding
    <3>3. QED
      BY <2>2, <2>3, <2>4, <3>1, <3>2, OutsideOfDownload, Zenon DEF DownloaderInv
  <2>8. QED
    BY <2>6, <2>7, Zenon
<1>13. QED
  BY <1>1, <1>2, <1>3, <1>4, <1>5, <1>6, <1>7, <1>8, <1>9, <1>10, <1>11, <1>12, Zenon
    DEF Next, Runs, Undefined

\* The books of a download are kept at all times.
THEOREM DownloaderInvariant == Spec => []DownloaderInv
<1>1. Init => DownloaderInv
  BY DownloaderInit, Zenon
<1>2. QED
  BY <1>1, DownloaderStep, PTL DEF Spec

\* The counters of try_download account for every request of the call, and
\* the pipeline never holds more than PIPELINE_SIZE_MAX of them, if the peer
\* chokes, is silent, corrupts or talks as it likes, as long as it has sent
\* no block on this connection that it was not asked for.
THEOREM RequestsAreAccounted == Spec => []RequestsAccounted
<1>1. DownloaderInv => RequestsAccounted
  <2> SUFFICES ASSUME DownloaderInv, strays = 0, socket = "open", Downloading
               PROVE  /\ blocks_requested - blocks_received = Outstanding + dropped
                      /\ Outstanding <= PIPELINE_SIZE_MAX
    BY Zenon DEF RequestsAccounted, Downloading
  <2>1. blocks_requested - blocks_received = Outstanding + dropped
    BY Zenon DEF DownloaderInv, Books, RequestsSound
  <2>2. blocks_requested - blocks_received <= PIPELINE_SIZE_MAX /\ dropped \in Nat
    BY Zenon DEF DownloaderInv, CountersSound, TypeOK
  <2>3. Outstanding \in Nat
    BY OutstandingFacts DEF DownloaderInv, Outstanding
  <2>4. QED
    BY <2>1, <2>2, <2>3, DownloaderAssumption
<1>2. QED
  BY <1>1, DownloaderInvariant, PTL

\* Nothing of a piece is under way on a connection that is kept from one call
\* of try_download to the next, as long as the peer has sent no block on it
\* that it was not asked for.
THEOREM ConnectionStaysClean == Spec => []ConnectionIsClean
<1>1. DownloaderInv => ConnectionIsClean
  BY Zenon DEF DownloaderInv, Books, ConnectionIsClean
<1>2. QED
  BY <1>1, DownloaderInvariant, PTL

\* The copy of a received block, which tests neither its index nor its bounds,
\* stays inside the buffer of the piece, as long as the peer has sent no block
\* on this connection that it was not asked for.
THEOREM BlocksFitTheBuffer == Spec => []BlocksFit
<1>1. DownloaderInv => BlocksFit
  <2> SUFFICES ASSUME DownloaderInv, strays = 0
               PROVE  /\ phase # "undefined"
                      /\ Downloading =>
                           \A k \in PiecesIn(inbox) :
                             /\ inbox[k].index = index
                             /\ inbox[k].begin + inbox[k].length <= PieceLength(index)
    BY Zenon DEF BlocksFit, Downloading
  <2>1. phase # "undefined"
    BY Zenon DEF DownloaderInv, Books
  <2>2. QED
    BY <2>1, AnswersFit, Zenon
<1>2. QED
  BY <1>1, DownloaderInvariant, PTL

\* try_download never asks a peer for a piece because of a bit that is not
\* the peer's, and misses a piece that the peer has only if it was told of it
\* while waiting to be unchoked, or the word is still under way; whatever
\* blocks the peer sends.
THEOREM BitfieldStaysCurrent == Spec => []BitfieldIsCurrent
<1>1. DownloaderInv => BitfieldIsCurrent
  BY Zenon DEF DownloaderInv
<1>2. QED
  BY <1>1, DownloaderInvariant, PTL

\* A piece fails its verification only if the peer sent corrupt bytes during
\* the call, or a block on this connection that it was not asked for:
\* try_download itself never puts the blocks together wrongly.
THEOREM OnlyPeersCorrupt == Spec => CorruptIsThePeers
<1>1. DownloaderInv /\ [Next]_vars =>
        [result' = "CorruptPiece" /\ result # "CorruptPiece" => spoilt' \/ strays > 0]_vars
  <2> SUFFICES ASSUME DownloaderInv, Next, result' = "CorruptPiece", result # "CorruptPiece",
                      strays = 0
               PROVE  spoilt'
    <3>1. strays \in Nat => strays = 0 \/ strays > 0
      OBVIOUS
    <3>2. DownloaderInv => strays \in Nat
      BY Zenon DEF DownloaderInv, TypeOK
    <3>3. QED
      BY <3>1, <3>2, Zenon
  <2>1. PICK m : Handles(m)
    BY Zenon DEF Next, Call, Runs, Connects, ConnectFails, IOFails, Fails, Returns, FirstMessage,
      AwaitUnchoke, Greets, MissingPiece, Starts, SendsRequest, PipelineFull, Peer, PeerGreets,
      PeerUnchokes, PeerChokes, PeerTells, PeerTakesRequest, PeerAnswers, PeerStrays, Undefined, vars
  <2>2. phase = "await" /\ Receives(m) /\ Downloading
    BY <2>1, Zenon DEF Handles, Downloading
  <2>3. blocks_received \in Nat /\ index \in PieceIndices /\ blocks_received < blocks_total
    BY <2>2, Zenon DEF DownloaderInv, TypeOK, CountersSound
  <2>4. m.kind = "Piece"
    BY <2>1, <2>3, Zenon DEF Handles, GoesOn
  <2>5. GoesOn(blocks_received + 1, Copy(m)) /\ spoilt' = (spoilt \/ ~m.good)
    BY <2>1, <2>4, Zenon DEF Handles, Overruns
  <2>6. ~(blocks_received + 1 < blocks_total) /\ Copy(m) # Content(index)
    BY <2>5, Zenon DEF GoesOn, Returns
  <2>7. blocks_received + 1 >= blocks_total
    BY <2>3, <2>6, BlockCount
  <2>8. QED
    BY <2>2, <2>4, <2>5, <2>6, <2>7, LastBlock, Zenon
<1>2. QED
  BY <1>1, DownloaderInvariant, PTL DEF Spec, CorruptIsThePeers
=============================================================================
