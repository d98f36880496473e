------------------------------- MODULE Pieces -------------------------------
(***************************************************************************)
(* Torrent::pieces: the pieces of a torrent are laid over its files, laid  *)
(* end to end, and cut into subpieces at the ends of the files.  One step  *)
(* is one iteration of the loop over the pieces or of the loop that cuts a *)
(* piece.  Files are numbered from 1; the bytes of the torrent have        *)
(* positions from 0.                                                       *)
(***************************************************************************)
EXTENDS Integers, Sequences, Functions

CONSTANTS
  Descriptors,   \* [files: lengths of the files, piece_length]
  Garbage        \* what the vector may hold behind its last file

\* touch refuses an empty file, so add_torrent never gets here with one.
ASSUME DescriptorsAssumption ==
  \A d \in Descriptors :
    /\ d.files \in Seq(Nat \ {0})
    /\ d.files # <<>>
    /\ d.piece_length \in Nat \ {0}

VARIABLES
  descriptor,          \* _descriptor
  index,               \* the piece that is cut
  cur_file,
  cur_file_tot_size,
  cur_file_rem_size,
  piece_rem_len,       \* of the piece that is cut into several, else 0
  subpieces,           \* of the current piece
  pieces               \* the pieces so far: a sequence of subpieces each

vars == <<descriptor, index, cur_file, cur_file_tot_size, cur_file_rem_size,
          piece_rem_len, subpieces, pieces>>

\* The positions of the first bytes of the files, and of the end.
Starts(d) ==
  LET start[f \in 1 .. Len(d.files) + 1] ==
        IF f = 1 THEN 0 ELSE start[f - 1] + d.files[f - 1]
  IN start

Start(d, f) == Starts(d)[f]

Length(d) == Start(d, Len(d.files) + 1)

\* The ceiling that the constructor of TorrentFile computes, and insists on.
PiecesCount(d) == (Length(d) + d.piece_length - 1) \div d.piece_length

\* The last piece has what is left.
PieceLength(d, i) ==
  IF i = PiecesCount(d) - 1
    THEN Length(d) - (PiecesCount(d) - 1) * d.piece_length
    ELSE d.piece_length

Init ==
  /\ descriptor \in Descriptors
  /\ index = 0
  /\ cur_file = 1
  /\ cur_file_tot_size = descriptor.files[1]
  /\ cur_file_rem_size = cur_file_tot_size
  /\ piece_rem_len = 0
  /\ subpieces = <<>>
  /\ pieces = <<>>

Done == index = PiecesCount(descriptor)

\* A subpiece of len bytes at the current place of the current file.
Cut(len) == [file |-> cur_file, offset |-> cur_file_tot_size - cur_file_rem_size,
             len |-> len]

\* The piece ends within the current file.
WholePiece ==
  LET len == PieceLength(descriptor, index) IN
  /\ ~Done
  /\ piece_rem_len = 0
  /\ cur_file_rem_size >= len
  /\ pieces' = Append(pieces, <<Cut(len)>>)
  /\ cur_file_rem_size' = cur_file_rem_size - len
  /\ index' = index + 1
  /\ UNCHANGED <<descriptor, cur_file, cur_file_tot_size, piece_rem_len, subpieces>>

\* The piece does not end within the current file: enters the inner loop.
BeginCutting ==
  LET len == PieceLength(descriptor, index) IN
  /\ ~Done
  /\ piece_rem_len = 0
  /\ cur_file_rem_size < len
  /\ piece_rem_len' = len
  /\ subpieces' = <<>>
  /\ UNCHANGED <<descriptor, index, cur_file, cur_file_tot_size,
                 cur_file_rem_size, pieces>>

\* Leaves the inner loop, if nothing of the piece remains.
Finish(rem, subs) ==
  /\ piece_rem_len' = rem
  /\ IF rem > 0
       THEN subpieces' = subs /\ UNCHANGED <<index, pieces>>
       ELSE /\ subpieces' = <<>>
            /\ pieces' = Append(pieces, subs)
            /\ index' = index + 1

\* Fault: the size of the next file is not looked up.
TakeRestKeepSize ==
  /\ piece_rem_len > 0
  /\ cur_file_rem_size <= piece_rem_len
  /\ Finish(piece_rem_len - cur_file_rem_size,
            Append(subpieces, Cut(cur_file_rem_size)))
  /\ cur_file' = cur_file + 1
  /\ cur_file_rem_size' = cur_file_tot_size
  /\ UNCHANGED <<descriptor, cur_file_tot_size>>

\* The rest of the file fits into the piece: on to the next file, whose
\* length is read even when there is none.
TakeRestOfFile ==
  /\ piece_rem_len > 0
  /\ cur_file_rem_size <= piece_rem_len
  /\ Finish(piece_rem_len - cur_file_rem_size,
            Append(subpieces, Cut(cur_file_rem_size)))
  /\ cur_file' = cur_file + 1
  /\ cur_file_tot_size' \in IF cur_file' \in DOMAIN descriptor.files
                              THEN {descriptor.files[cur_file']}
                              ELSE Garbage
  /\ cur_file_rem_size' = cur_file_tot_size'
  /\ UNCHANGED descriptor

\* Fault: the else branch is missing.
TakeNothing ==
  /\ piece_rem_len > 0
  /\ cur_file_rem_size > piece_rem_len
  /\ UNCHANGED vars

\* The rest of the piece fits into the file.
TakeRestOfPiece ==
  /\ piece_rem_len > 0
  /\ cur_file_rem_size > piece_rem_len
  /\ Finish(0, Append(subpieces, Cut(piece_rem_len)))
  /\ cur_file_rem_size' = cur_file_rem_size - piece_rem_len
  /\ UNCHANGED <<descriptor, cur_file, cur_file_tot_size>>

\* pieces has returned.
Returned == Done /\ UNCHANGED vars

Next ==
  \/ WholePiece
  \/ BeginCutting
  \/ TakeRestOfFile
  \/ TakeRestOfPiece
  \/ Returned

-----------------------------------------------------------------------------
(* Properties *)

\* The position in torrent d of the first byte of a subpiece.
Position(d, s) == Start(d, s.file) + s.offset

\* The subpieces ss lie inside the files of d and cover, in this order and
\* without gap or overlap, the bytes from position a up to position b.
Covers(d, ss, a, b) ==
  /\ \A s \in Range(ss) :
       /\ s.file \in DOMAIN d.files
       /\ 0 <= s.offset /\ s.offset + s.len <= d.files[s.file]
  /\ \A j \in DOMAIN ss :
       Position(d, ss[j]) =
         IF j = 1 THEN a ELSE Position(d, ss[j-1]) + ss[j-1].len
  /\ IF ss = <<>>
       THEN a = b
       ELSE Position(d, ss[Len(ss)]) + ss[Len(ss)].len = b

\* The subpieces of every piece cover exactly the bytes of the piece,
\* whatever is behind the last file.
PiecesCoverFiles ==
  \A i \in DOMAIN pieces :
    LET a == (i - 1) * descriptor.piece_length IN
    Covers(descriptor, pieces[i], a, a + PieceLength(descriptor, i - 1))

\* pieces returns, with a piece for each hash.
PiecesReturns == <>(Done /\ Len(pieces) = PiecesCount(descriptor))
=============================================================================
