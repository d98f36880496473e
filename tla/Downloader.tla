----------------------------- MODULE Downloader -----------------------------
(***************************************************************************)
(* Downloader: downloads pieces from one peer, over a connection that is   *)
(* made when needed and kept between the calls of try_download.  The peer  *)
(* answers the requests it gets while it does not choke us, in any order,  *)
(* with good or corrupt bytes, and forgets them when it chokes us.  It may *)
(* talk for ever, and send blocks of the piece that it was not asked for,  *)
(* an answer for the second time among them.  What it tells of its pieces  *)
(* is true, and within the torrent.  Messages of a connection arrive in    *)
(* order.                                                                  *)
(*                                                                         *)
(* What Socket does in an operation is one step here, with the outcomes    *)
(* that Socket shows: done, done but too late (the socket is then closed), *)
(* timed out, failed.                                                      *)
(***************************************************************************)
EXTENDS Bitfield, FiniteSets, Functions

CONSTANTS
  length,              \* of the torrent
  piece_length,
  BLOCK_SIZE,
  PIPELINE_SIZE_MAX,
  MaxUnderWay,         \* bound: messages under way when the peer sends one by itself
  MaxStrays            \* bound: blocks per connection that were not asked for

ASSUME DownloaderAssumption ==
  /\ length \in Nat \ {0}
  /\ piece_length \in Nat \ {0}
  /\ BLOCK_SIZE \in Nat \ {0}
  /\ PIPELINE_SIZE_MAX \in Nat \ {0}
  /\ MaxUnderWay \in Nat
  /\ MaxStrays \in Nat
  /\ ByteSize \in Nat \ {0}

VARIABLES
  phase,               \* where ensure_connected or try_download is
  socket,              \* none, open, or closed (by a timeout)
  choked,
  bitfield,            \* a Bitfield, or NoBitfield
  index,               \* of the piece that is downloaded
  blocks_requested,
  blocks_received,
  piece,               \* the buffer, a function on the offsets
  result,              \* of the last call
  outbox,              \* from us to the peer, on the connection
  inbox,               \* from the peer to us
  has,                 \* the pieces the peer has
  choking,             \* the peer chokes us
  greeted,             \* the peer has sent its first message
  pending,             \* the requests that the peer is going to answer
  dropped,             \* history: requests of this call that the peer forgot
  spoilt,              \* history: a corrupt block was received in this call
  strays,              \* history: blocks on this connection that were not asked for
  missed               \* history: pieces we were told of when we took no notice

callVars == <<index, blocks_requested, blocks_received, piece, dropped, spoilt>>
peerVars == <<has, choking, greeted, pending>>
linkVars == <<strays, missed>>
vars == <<phase, socket, choked, bitfield, result, callVars, outbox, inbox, peerVars, linkVars>>

-----------------------------------------------------------------------------
(* The arithmetic of try_download *)

pieces_count == (length + piece_length - 1) \div piece_length

PieceIndices == 0 .. pieces_count - 1

PieceLength(i) ==
  IF i = pieces_count - 1 THEN length - (pieces_count - 1) * piece_length
                          ELSE piece_length

blocks_total == (PieceLength(index) + BLOCK_SIZE - 1) \div BLOCK_SIZE

\* Fault: the last block is as long as the others.
FullRequest(b) ==
  [kind |-> "Request", index |-> index, begin |-> b * BLOCK_SIZE, length |-> BLOCK_SIZE]

\* The request for block b of the piece.
Request(b) ==
  [kind |-> "Request", index |-> index, begin |-> b * BLOCK_SIZE,
   length |-> IF b = blocks_total - 1 THEN PieceLength(index) - b * BLOCK_SIZE
                                      ELSE BLOCK_SIZE]

\* What the buffer has to hold: the byte at offset x of piece i is <<i, x>>.
Content(i) == [x \in 0 .. PieceLength(i) - 1 |-> <<i, x>>]

Corrupt == <<-1, 0>>   \* a byte that is not in the torrent
Zero == <<-1, 1>>      \* a byte that was not written yet

NoBitfield == BitfieldOf(<<>>, 0)

Init ==
  /\ phase = "idle"
  /\ socket = "none"
  /\ choked = TRUE
  /\ bitfield = NoBitfield
  /\ index = 0
  /\ blocks_requested = 0
  /\ blocks_received = 0
  /\ piece = <<>>
  /\ result = "none"
  /\ outbox = <<>>
  /\ inbox = <<>>
  /\ has = {}
  /\ choking = TRUE
  /\ greeted = FALSE
  /\ pending = {}
  /\ dropped = 0
  /\ spoilt = FALSE
  /\ strays = 0
  /\ missed = {}

-----------------------------------------------------------------------------
(* Steps of the methods *)

\* The connection is gone, with everything under way on it.
HangUp ==
  /\ outbox' = <<>>
  /\ inbox' = <<>>
  /\ pending' = {}
  /\ choking' = TRUE
  /\ greeted' = FALSE

\* The next connection has no history.
ForgetsLink == strays' = 0 /\ missed' = {}

\* What only this call used is forgotten.
ForgetsCall ==
  /\ blocks_requested' = 0
  /\ blocks_received' = 0
  /\ piece' = <<>>
  /\ dropped' = 0
  /\ UNCHANGED index

\* try_download returns.
Returns(r) ==
  /\ phase' = "idle"
  /\ result' = r
  /\ ForgetsCall

\* A block is written beyond the buffer: what the program does then is not
\* defined, and not modelled.
Overruns ==
  /\ phase' = "undefined"
  /\ UNCHANGED result
  /\ ForgetsCall

\* destroy_socket, after which try_download returns.
Fails(r) ==
  /\ socket' = "none"
  /\ HangUp
  /\ ForgetsLink
  /\ Returns(r)
  /\ UNCHANGED <<choked, bitfield, has, spoilt>>

\* try_download, called with a piece of the torrent: ensure_connected keeps
\* the connection if the socket is open, else starts from scratch.
Call(i) ==
  /\ phase = "idle"
  /\ index' = i
  /\ IF socket = "open"
       THEN /\ phase' = "connected"
            /\ UNCHANGED <<socket, choked, linkVars>>
       ELSE /\ phase' = "connect"
            /\ socket' = "none"
            /\ choked' = TRUE
            /\ ForgetsLink
  /\ result' = "none"
  /\ dropped' = 0
  /\ spoilt' = FALSE
  /\ UNCHANGED <<bitfield, blocks_requested, blocks_received, piece, outbox, inbox, peerVars>>

\* connect, and the handshake with the same info hash, in time or too late.
\* The peer may have other pieces than on the last connection.
Connects ==
  /\ phase = "connect"
  /\ socket' \in {"open", "closed"}
  /\ phase' = "first_message"
  /\ has' \in SUBSET PieceIndices
  /\ UNCHANGED <<choked, bitfield, result, callVars, outbox, inbox, choking,
                 greeted, pending, linkVars>>

ConnectFails ==
  /\ phase = "connect"
  /\ \E r \in {"SocketTimeout", "SocketOther", "DifferentInfoHash"} : Fails(r)

\* Fault: the limit is on the blocks requested.
MayRequestUnbounded == ~choked /\ blocks_requested < blocks_total

\* The condition of the loop that fills the pipeline.
MayRequest ==
  /\ ~choked
  /\ blocks_requested - blocks_received < PIPELINE_SIZE_MAX
  /\ blocks_requested < blocks_total

WaitingForMessage == phase \in {"first_message", "await_unchoke", "await"}

Sending == phase = "greet" \/ (phase = "request" /\ MayRequest)

\* Fault: a receive that is timed out is tried again.
IOTriesAgain ==
  \/ WaitingForMessage /\ socket = "open" /\ UNCHANGED vars
  \/ (WaitingForMessage \/ Sending) /\ socket = "closed" /\ Fails("SocketOther")

\* A send or receive that is timed out or fails, by itself or because the
\* socket is already closed, or a message that cannot be decoded.
IOFails ==
  /\ WaitingForMessage \/ Sending
  /\ \E r \in {"SocketTimeout", "SocketOther", "InvalidMessage"} :
       /\ r = "SocketTimeout" => socket = "open"
       /\ r = "InvalidMessage" => WaitingForMessage /\ socket = "open"
       /\ Fails(r)

\* The socket after an operation that succeeded: closed, if it was too late.
SocketAfter == socket = "open" /\ socket' \in {"open", "closed"}

\* recv_message takes the next message from the connection.  If the socket is
\* closed then nothing more arrives.
Receives(m) ==
  /\ inbox # <<>>
  /\ m = Head(inbox)
  /\ SocketAfter
  /\ IF socket' = "open"
       THEN inbox' = Tail(inbox) /\ UNCHANGED <<outbox, choking, greeted, pending>>
       ELSE HangUp
  /\ UNCHANGED <<has, strays>>

\* The first message must be the bitfield.
FirstMessage(m) ==
  /\ phase = "first_message"
  /\ IF m.kind = "Bitfield"
       THEN /\ Receives(m)
            /\ bitfield' = BitfieldOf(m.bitfield, pieces_count)
            /\ phase' = "greet"
            /\ UNCHANGED <<choked, result, callVars, missed>>
       ELSE inbox # <<>> /\ m = Head(inbox) /\ Fails("NoBitfield")

\* Sends Unchoke and Interested, which the peer need not see for what follows.
Greets ==
  /\ phase = "greet"
  /\ SocketAfter
  /\ choked' = TRUE
  /\ phase' = "await_unchoke"
  /\ IF socket' = "open" THEN UNCHANGED <<outbox, inbox, choking, greeted, pending>>
                         ELSE HangUp
  /\ UNCHANGED <<bitfield, result, callVars, has, linkVars>>

\* Waits to be unchoked and takes no notice of any other message.
AwaitUnchoke(m) ==
  /\ phase = "await_unchoke"
  /\ Receives(m)
  /\ choked' = (m.kind # "Unchoke")
  /\ phase' = IF m.kind = "Unchoke" THEN "connected" ELSE phase
  /\ missed' = IF m.kind = "Have" THEN missed \union {m.index} ELSE missed
  /\ UNCHANGED <<bitfield, result, callVars>>

\* ensure_connected has returned OK: is the piece there?
MissingPiece ==
  /\ phase = "connected"
  /\ ~BitfieldGet(bitfield, index)
  /\ Returns("MissingPiece")
  /\ UNCHANGED <<socket, choked, bitfield, spoilt, outbox, inbox, peerVars, linkVars>>

Starts ==
  /\ phase = "connected"
  /\ BitfieldGet(bitfield, index)
  /\ piece' = [x \in 0 .. PieceLength(index) - 1 |-> Zero]
  /\ blocks_requested' = 0
  /\ blocks_received' = 0
  /\ phase' = "request"
  /\ UNCHANGED <<socket, choked, bitfield, result, index, dropped, spoilt,
                 outbox, inbox, peerVars, linkVars>>

SendsRequest ==
  /\ phase = "request"
  /\ MayRequest
  /\ SocketAfter
  /\ blocks_requested' = blocks_requested + 1
  /\ IF socket' = "open"
       THEN /\ outbox' = Append(outbox, Request(blocks_requested))
            /\ UNCHANGED <<inbox, choking, greeted, pending>>
       ELSE HangUp
  /\ UNCHANGED <<phase, choked, bitfield, result, index, blocks_received, piece,
                 dropped, spoilt, has, linkVars>>

\* The pipeline is full, or we are choked: receive.
PipelineFull ==
  /\ phase = "request"
  /\ ~MayRequest
  /\ phase' = "await"
  /\ UNCHANGED <<socket, choked, bitfield, result, callVars, outbox, inbox, peerVars, linkVars>>

\* Fault: blocks are put one after the other, as they come.
CopyInOrder(m) ==
  LET begin == blocks_received * BLOCK_SIZE IN
  [x \in DOMAIN piece |->
     IF begin <= x /\ x < begin + m.length
       THEN IF m.good THEN <<m.index, m.begin + x - begin>> ELSE Corrupt
       ELSE piece[x]]

\* The buffer with the bytes of a Piece message.
Copy(m) ==
  [x \in DOMAIN piece |->
     IF m.begin <= x /\ x < m.begin + m.length
       THEN IF m.good THEN <<m.index, x>> ELSE Corrupt
       ELSE piece[x]]

\* Fault: the loop ends when every block was requested.
GoesOnUntilRequested(received, buffer) ==
  IF received < blocks_total /\ blocks_requested < blocks_total
    THEN /\ phase' = "request"
         /\ blocks_received' = received
         /\ piece' = buffer
         /\ UNCHANGED <<result, index, blocks_requested, dropped>>
    ELSE Returns(IF buffer = Content(index) THEN "OK" ELSE "CorruptPiece")

\* What follows a message that was handled: the loop goes on, or the piece
\* is verified and the call returns.
GoesOn(received, buffer) ==
  IF received < blocks_total
    THEN /\ phase' = "request"
         /\ blocks_received' = received
         /\ piece' = buffer
         /\ UNCHANGED <<result, index, blocks_requested, dropped>>
    ELSE Returns(IF buffer = Content(index) THEN "OK" ELSE "CorruptPiece")

\* The loop of try_download handles a message.
Handles(m) ==
  /\ phase = "await"
  /\ Receives(m)
  /\ UNCHANGED missed
  /\ \/ /\ m.kind \in {"Choke", "Unchoke"}
        /\ choked' = (m.kind = "Choke")
        /\ GoesOn(blocks_received, piece)
        /\ UNCHANGED <<bitfield, spoilt>>
     \/ /\ m.kind = "Have"
        /\ bitfield' = BitfieldSet(bitfield, m.index)
        /\ GoesOn(blocks_received, piece)
        /\ UNCHANGED <<choked, spoilt>>
     \/ /\ m.kind = "Piece"
        /\ IF m.begin + m.length <= PieceLength(index)
             THEN GoesOn(blocks_received + 1, Copy(m))
             ELSE Overruns
        /\ spoilt' = (spoilt \/ ~m.good)
        /\ UNCHANGED <<choked, bitfield>>
     \/ /\ m.kind \in {"Bitfield", "Other"}
        /\ GoesOn(blocks_received, piece)
        /\ UNCHANGED <<choked, bitfield, spoilt>>

-----------------------------------------------------------------------------
(* The peer *)

Sends(m) == inbox' = Append(inbox, m)

\* The payload for a set of pieces: byte by byte, most significant bit first.
Payload(pieces) ==
  [k \in 1 .. (pieces_count + ByteSize - 1) \div ByteSize |->
     {k * ByteSize - 1 - i : i \in pieces \cap ((k - 1) * ByteSize .. k * ByteSize - 1)}]

\* The first message of the peer is its bitfield, or it is another one.
PeerGreets ==
  /\ socket = "open" /\ ~greeted
  /\ greeted' = TRUE
  /\ \E m \in {[kind |-> "Bitfield", bitfield |-> Payload(has)], [kind |-> "Other"]} : Sends(m)
  /\ UNCHANGED <<phase, socket, choked, bitfield, result, callVars, outbox, has,
                 choking, pending, linkVars>>

PeerUnchokes ==
  /\ socket = "open" /\ greeted /\ choking
  /\ choking' = FALSE
  /\ Sends([kind |-> "Unchoke"])
  /\ UNCHANGED <<phase, socket, choked, bitfield, result, callVars, outbox, has,
                 greeted, pending, linkVars>>

\* The peer may send a message of its own accord.
MaySpeak == socket = "open" /\ greeted /\ Len(inbox) < MaxUnderWay

\* Forgets the requests it has not answered.
PeerChokes ==
  /\ MaySpeak /\ ~choking
  /\ choking' = TRUE
  /\ pending' = {}
  /\ dropped' = dropped + Cardinality(pending)
  /\ Sends([kind |-> "Choke"])
  /\ UNCHANGED <<phase, socket, choked, bitfield, result, index, blocks_requested,
                 blocks_received, piece, spoilt, outbox, has, greeted, linkVars>>

\* Gets a new piece, or sends something that does not matter.
PeerTells ==
  /\ MaySpeak
  /\ \/ \E i \in PieceIndices \ has :
          has' = has \union {i} /\ Sends([kind |-> "Have", index |-> i])
     \/ Sends([kind |-> "Other"]) /\ UNCHANGED has
  /\ UNCHANGED <<phase, socket, choked, bitfield, result, callVars, outbox,
                 choking, greeted, pending, linkVars>>

\* A request arrives; it is discarded if we are choked.
PeerTakesRequest ==
  /\ outbox # <<>>
  /\ outbox' = Tail(outbox)
  /\ IF choking THEN dropped' = dropped + 1 /\ UNCHANGED pending
                ELSE pending' = pending \union {Head(outbox)} /\ UNCHANGED dropped
  /\ UNCHANGED <<phase, socket, choked, bitfield, result, index, blocks_requested,
                 blocks_received, piece, spoilt, inbox, has, choking, greeted, linkVars>>

SendsBlock(r) ==
  \E good \in BOOLEAN :
    Sends([kind |-> "Piece", index |-> r.index, begin |-> r.begin,
           length |-> r.length, good |-> good])

PeerAnswers(r) ==
  /\ pending' = pending \ {r}
  /\ SendsBlock(r)
  /\ UNCHANGED <<phase, socket, choked, bitfield, result, callVars, outbox, has,
                 choking, greeted, linkVars>>

\* Sends block b of the piece without being asked, or not any more.
PeerStrays(b) ==
  /\ MaySpeak
  /\ strays < MaxStrays
  /\ strays' = strays + 1
  /\ SendsBlock(Request(b))
  /\ UNCHANGED <<phase, socket, choked, bitfield, result, callVars, outbox, peerVars, missed>>

-----------------------------------------------------------------------------
Runs ==
  \/ Connects
  \/ ConnectFails
  \/ IOFails
  \/ \E m \in Range(inbox) : FirstMessage(m) \/ AwaitUnchoke(m) \/ Handles(m)
  \/ Greets
  \/ MissingPiece
  \/ Starts
  \/ SendsRequest
  \/ PipelineFull

Peer ==
  \/ PeerGreets
  \/ PeerUnchokes
  \/ PeerChokes
  \/ PeerTells
  \/ PeerTakesRequest
  \/ \E r \in pending : PeerAnswers(r)
  \/ \E b \in 0 .. blocks_total - 1 : PeerStrays(b)

Undefined == phase = "undefined" /\ UNCHANGED vars

Next == (\E i \in PieceIndices : Call(i)) \/ Runs \/ Peer \/ Undefined

\* A call goes on: every operation of the socket ends, in time or not.
Spec == Init /\ [][Next]_vars /\ WF_vars(Runs)

-----------------------------------------------------------------------------
(* Properties *)

PiecesIn(box) == {k \in DOMAIN box : box[k].kind = "Piece"}

Outstanding == Len(outbox) + Cardinality(pending) + Cardinality(PiecesIn(inbox))

\* The counters of try_download account for every request on an open
\* connection: it is on its way to the peer, with the peer, answered and on
\* its way back, or the peer has forgotten it while choking us.  So the call
\* waits for nothing that cannot come unless a choke took its requests.  This
\* and what follows from it is lost with the first block that was not asked
\* for, which counts as an answer; and is true again of the next connection.
RequestsAccounted ==
  strays = 0 /\ socket = "open" /\ phase \in {"request", "await"} =>
    /\ blocks_requested - blocks_received = Outstanding + dropped
    /\ Outstanding <= PIPELINE_SIZE_MAX

\* Between two calls nothing of a piece is under way on a connection that is
\* kept: the next call does not read an answer to the last one.
ConnectionIsClean ==
  strays = 0 /\ socket = "open" /\ phase \notin {"request", "await"} => Outstanding = 0

\* Every block that arrives during a call is of its piece and inside the
\* buffer it is copied to, which is not tested; and nothing was copied beyond
\* a buffer before.
BlocksFit ==
  strays = 0 =>
    /\ phase # "undefined"
    /\ phase \in {"request", "await"} =>
         \A k \in PiecesIn(inbox) :
           /\ inbox[k].index = index
           /\ inbox[k].begin + inbox[k].length <= PieceLength(index)

\* A piece is called corrupt only if the peer sent corrupt bytes, or blocks
\* that it was not asked for: blocks in any order, across chokes and on a
\* connection used before, are put together correctly, the short last block
\* of the short last piece too.
CorruptIsThePeers ==
  [][result' = "CorruptPiece" /\ result # "CorruptPiece" => spoilt' \/ strays > 0]_vars

\* The peer's word that it has got piece i is under way.
ToldOf(i) == \E k \in DOMAIN inbox : inbox[k] = [kind |-> "Have", index |-> i]

\* The bitfield that is consulted is the one of this connection, read bit by
\* bit as the peer wrote it, with the pieces it has told us of since then.  It
\* never shows a piece that the peer does not have, and hides only those of
\* which the peer told us when we waited to be unchoked, or is telling us.
BitfieldIsCurrent ==
  socket # "none" /\ phase \notin {"connect", "first_message", "undefined"} =>
    \A i \in PieceIndices :
      /\ BitfieldGet(bitfield, i) => i \in has
      /\ socket = "open" /\ i \in has => BitfieldGet(bitfield, i) \/ i \in missed \/ ToldOf(i)

\* The peer goes on for ever with messages that nobody asked for.
TalksForever == []<><<PeerTells \/ PeerChokes>>_vars

\* Every call of try_download returns, even if the peer never sends another
\* byte.  Only a peer that never stops talking can hold it: every message
\* gives the next one the full timeout.
CallsReturn == TalksForever \/ (phase # "idle" ~> phase \in {"idle", "undefined"})
=============================================================================
