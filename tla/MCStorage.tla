----------------------------- MODULE MCStorage ------------------------------
(***************************************************************************)
(* Storage for small torrents: of one file with many pieces, and of up to  *)
(* three files with pieces that are shorter and longer than a file.        *)
(***************************************************************************)
EXTENDS Storage

CONSTANTS MaxFileLength, MaxPieceLength, MaxFiles, MaxLength, MaxTotal

OneFile == [files : [1 .. 1 -> 1 .. MaxFileLength], piece_length : 1 .. MaxPieceLength]

\* At most three pieces and MaxTotal bytes, to keep the orders of their writes few.
SeveralFiles ==
  {d \in UNION {[files : [1 .. n -> 1 .. MaxLength], piece_length : 1 .. MaxPieceLength] :
                 n \in 2 .. MaxFiles} : PiecesCount(d) <= 3 /\ Length(d) <= MaxTotal}

SmallDescriptors == OneFile \cup SeveralFiles

SmallGarbage == -1 .. 1
=============================================================================
