------------------------------ MODULE Storage -------------------------------
(***************************************************************************)
(* The files of a torrent on disk: created by touch, filled by             *)
(* PieceTask::save, called by several workers for different pieces.  A     *)
(* byte of a file is the position in the torrent of the byte it holds, or  *)
(* Blank; the downloaded content of a piece is its positions in order (the *)
(* hash of the piece has been verified).  The files are touched before the *)
(* pieces are cut, and saved to afterwards.                                *)
(***************************************************************************)
EXTENDS Pieces

CONSTANTS
  Workers,
  Blank

VARIABLES
  disk,     \* the bytes of each file, a sequence
  saving,   \* what each worker saves: piece and the subpieces written, or None
  saved,    \* the pieces of which process has returned completed
  lost      \* history: the pieces of which write_bytes said it wrote more than it did

storageVars == <<disk, saving, saved, lost>>

None == [piece |-> 0, written |-> 0]

\* The content of piece i, counted from 1 here.
Content(i) ==
  [j \in 1 .. PieceLength(descriptor, i - 1) |->
     (i - 1) * descriptor.piece_length + j - 1]

\* touch: the file has its full size, nothing is in it.
Touched(len) == [j \in 1 .. len |-> Blank]

\* Fault: the file is truncated when it is opened.
TruncateAndWrite(file, offset, bytes) ==
  [j \in 1 .. offset + Len(bytes) |->
     IF j > offset THEN bytes[j - offset] ELSE Blank]

\* write_bytes: overwrites from the offset on, and extends the file if the
\* bytes go beyond its end.
Overwrite(file, offset, bytes) ==
  LET end == offset + Len(bytes) IN
  [j \in 1 .. (IF end > Len(file) THEN end ELSE Len(file)) |->
     IF j > offset /\ j <= end THEN bytes[j - offset] ELSE file[j]]

StorageInit ==
  /\ Init
  /\ disk = [f \in DOMAIN descriptor.files |-> Touched(descriptor.files[f])]
  /\ saving = [w \in Workers |-> None]
  /\ saved = {}
  /\ lost = {}

\* One iteration of the loops of pieces, before the tasks are queued.
Prepare == Next /\ UNCHANGED storageVars

\* A worker has downloaded a piece and calls save; a piece is at most one
\* worker's task.
BeginSave(w, i) ==
  /\ Done
  /\ saving[w] = None
  /\ i \notin saved
  /\ \A v \in Workers : saving[v].piece # i
  /\ saving' = [saving EXCEPT ![w] = [piece |-> i, written |-> 0]]
  /\ UNCHANGED <<vars, disk, saved, lost>>

\* The loop of save: the downloaded content goes to the offset of the next
\* subpiece of its file, all of it.
WriteSubpiece(w) ==
  LET s == saving[w]
      sub == pieces[s.piece][s.written + 1]
  IN
  /\ s # None
  /\ s.written < Len(pieces[s.piece])
  /\ disk' = [disk EXCEPT ![sub.file] = Overwrite(@, sub.offset, Content(s.piece))]
  /\ saving' = [saving EXCEPT ![w].written = @ + 1]
  /\ UNCHANGED <<vars, saved, lost>>

\* The write fails after n bytes.  save returns false; the worker downloads
\* the piece again.
WriteFails(w, n) ==
  LET s == saving[w]
      sub == pieces[s.piece][s.written + 1]
  IN
  /\ s # None
  /\ s.written < Len(pieces[s.piece])
  /\ n < Len(Content(s.piece))
  /\ disk' = [disk EXCEPT ![sub.file] =
                Overwrite(@, sub.offset, SubSeq(Content(s.piece), 1, n))]
  /\ saving' = [saving EXCEPT ![w] = None]
  /\ UNCHANGED <<vars, saved, lost>>

\* write_bytes looks at the stream before it is closed.  What the stream still
\* holds is flushed by its destructor, which tells nobody that only n bytes
\* came to the file: save goes on.
FlushFails(w, n) ==
  LET s == saving[w]
      sub == pieces[s.piece][s.written + 1]
  IN
  /\ s # None
  /\ s.written < Len(pieces[s.piece])
  /\ n < Len(Content(s.piece))
  /\ disk' = [disk EXCEPT ![sub.file] =
                Overwrite(@, sub.offset, SubSeq(Content(s.piece), 1, n))]
  /\ saving' = [saving EXCEPT ![w].written = @ + 1]
  /\ lost' = lost \union {s.piece}
  /\ UNCHANGED <<vars, saved>>

\* Fault: save returns true before it has written every subpiece.
EndSaveEarly(w) ==
  /\ saving[w] # None
  /\ saved' = saved \union {saving[w].piece}
  /\ saving' = [saving EXCEPT ![w] = None]
  /\ UNCHANGED <<vars, disk, lost>>

\* Every subpiece is written: save returns true.
EndSave(w) ==
  /\ saving[w] # None
  /\ saving[w].written = Len(pieces[saving[w].piece])
  /\ saved' = saved \union {saving[w].piece}
  /\ saving' = [saving EXCEPT ![w] = None]
  /\ UNCHANGED <<vars, disk, lost>>

StorageNext ==
  \/ Prepare
  \/ \E w \in Workers :
       \/ \E i \in DOMAIN pieces : BeginSave(w, i)
       \/ WriteSubpiece(w)
       \/ \E n \in 0 .. descriptor.piece_length : WriteFails(w, n) \/ FlushFails(w, n)
       \/ EndSave(w)

StorageSpec == StorageInit /\ [][StorageNext]_<<vars, storageVars>>

\* The loops of pieces run on; a worker may stay in a save for ever.
FairStorageSpec == StorageSpec /\ WF_<<vars, storageVars>>(Prepare)

-----------------------------------------------------------------------------
(* Properties *)

\* The bytes of a piece that process has reported as completed are on disk,
\* each in its place of its file, whatever other workers write or fail to
\* write meanwhile; except where write_bytes reported a write that the system
\* did not do.
SavedIsOnDisk ==
  \A i \in saved \ lost : \A s \in Range(pieces[i]) : \A j \in 1 .. s.len :
    disk[s.file][s.offset + j] = Position(descriptor, s) + j - 1

SingleFile == Len(descriptor.files) = 1

\* In a torrent of one file the bytes of every completed piece are on disk,
\* in their places, although other workers write, fail and write again, and
\* although flushes of other pieces fail unseen.
SingleFileSaved == SingleFile => SavedIsOnDisk

\* In a torrent of one file no write changes the size of the file, and no
\* byte of it is ever one of another place, not even after a failed write or
\* flush: what such a piece loses is its own.
SingleFileIntact ==
  SingleFile =>
    /\ Len(disk[1]) = descriptor.files[1]
    /\ \A j \in DOMAIN disk[1] : disk[1][j] \in {Blank, j - 1}
=============================================================================
