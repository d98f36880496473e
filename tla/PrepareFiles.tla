---------------------------- MODULE PrepareFiles ----------------------------
(***************************************************************************)
(* prepare_torrent_files: where the files of an added torrent go, step by  *)
(* step of its calls of the file system.  Only the main thread runs it, so *)
(* the steps of two calls do not interleave, but the process may be killed *)
(* between two of them, and the folders outlive it.  A folder is the name  *)
(* of a torrent and the number of times " COPY" is appended to it.         *)
(***************************************************************************)
EXTENDS Integers, Sequences, FiniteSets, Functions

CONSTANTS
  Torrents,            \* descriptors [name, files, room], where room is how
                       \* often " COPY" can be appended before the path is
                       \* too long for the file system
  MAX_COPY_ATTEMPTS,
  MaxAdds,             \* bound: calls of prepare_torrent_files
  MaxLeft              \* bound: folders per name left by earlier sessions

ASSUME PrepareAssumption ==
  /\ MAX_COPY_ATTEMPTS \in Nat
  /\ MaxAdds \in Nat
  /\ MaxLeft \in Nat
  /\ \A t \in Torrents :
       t.files \in Seq(Range(t.files)) \ {<<>>} /\ t.room \in Nat

VARIABLES
  folders,    \* the folders on disk: for each the owners of its files, by file
  phase,      \* idle, probing, making, touching, cleaning
  add,        \* number of the current call: the identity of the torrent
  torrent,    \* its descriptor
  attempts,
  touched,    \* how many files the current call has created
  prepared    \* for each successful call its number, torrent and folder_name

prepareVars == <<folders, phase, add, torrent, attempts, touched, prepared>>

Base == <<torrent.name, attempts>>

\* What n earlier downloads of each name left: the files of call 0.
Left(n) ==
  [f \in {<<t.name, k>> : t \in Torrents, k \in 0 .. n - 1} |->
     LET t == CHOOSE u \in Torrents : u.name = f[1]
     IN  [g \in Range(t.files) |-> 0]]

PrepareInit ==
  /\ \E n \in 0 .. MaxLeft : folders = Left(n)
  /\ phase = "idle"
  /\ add = 0
  /\ torrent \in Torrents
  /\ attempts = 0
  /\ touched = 0
  /\ prepared = {}

\* add_torrent calls prepare_torrent_files.
BeginPrepare(t) ==
  /\ phase = "idle"
  /\ add < MaxAdds
  /\ add' = add + 1
  /\ torrent' = t
  /\ attempts' = 0
  /\ touched' = 0
  /\ phase' = "probing"
  /\ UNCHANGED <<folders, prepared>>

\* io::exists: an answer, or an error for a path that is too long.
Exists(folder) == folder \in DOMAIN folders

TooLong(folder) == folder[2] > torrent.room

\* Fault: the new path is not looked up.
ProbeOnce ==
  /\ phase = "probing"
  /\ attempts' = IF Exists(Base) THEN attempts + 1 ELSE attempts
  /\ phase' = "making"
  /\ UNCHANGED <<folders, add, torrent, touched, prepared>>

\* The loop that appends " COPY" until the path does not exist, cannot be
\* looked up or has been extended MAX_COPY_ATTEMPTS times.  The test that
\* follows it, attempts > MAX_COPY_ATTEMPTS, is never true.
Probe ==
  /\ phase = "probing"
  /\ IF attempts < MAX_COPY_ATTEMPTS /\ ~TooLong(Base) /\ Exists(Base)
       THEN attempts' = attempts + 1 /\ phase' = phase
       ELSE attempts' = attempts /\ phase' = "making"
  /\ UNCHANGED <<folders, add, torrent, touched, prepared>>

\* create_directories is content with a directory that exists.
MakeFolder ==
  /\ phase = "making"
  /\ ~TooLong(Base)
  /\ folders' = IF Exists(Base) THEN folders
                ELSE [f \in DOMAIN folders \union {Base} |->
                        IF f = Base THEN <<>> ELSE folders[f]]
  /\ phase' = "touching"
  /\ UNCHANGED <<add, torrent, attempts, touched, prepared>>

\* create_directories fails: prepare_torrent_files returns false.
MakeFolderFails ==
  /\ phase = "making"
  /\ phase' = "idle"
  /\ UNCHANGED <<folders, add, torrent, attempts, touched, prepared>>

\* The folders when the current call has created a file.
WithFile(file) ==
  [folders EXCEPT ![Base] =
     [f \in DOMAIN @ \union {file} |-> IF f = file THEN add ELSE @[f]]]

\* Creates the next file, with full size: it must not exist.
Touch ==
  LET file == torrent.files[touched + 1] IN
  /\ phase = "touching"
  /\ touched < Len(torrent.files)
  /\ file \notin DOMAIN folders[Base]
  /\ folders' = WithFile(file)
  /\ touched' = touched + 1
  /\ UNCHANGED <<phase, add, torrent, attempts, prepared>>

\* The file exists, it or its folder cannot be created, or the file cannot
\* be given its size.
TouchFails ==
  LET file == torrent.files[touched + 1] IN
  /\ phase = "touching"
  /\ touched < Len(torrent.files)
  /\ \/ UNCHANGED folders
     \/ /\ file \notin DOMAIN folders[Base]
        /\ folders' = WithFile(file)
  /\ phase' = "cleaning"
  /\ UNCHANGED <<add, torrent, attempts, touched, prepared>>

\* Fault: a failed touch is reported as success.
SucceedEarly ==
  /\ phase = "touching"
  /\ prepared' = prepared \union
       {[add |-> add, torrent |-> torrent, folder |-> Base]}
  /\ phase' = "idle"
  /\ UNCHANGED <<folders, add, torrent, attempts, touched>>

\* Every file is created: returns true, descriptor.folder_name is set.
Succeed ==
  /\ phase = "touching"
  /\ touched = Len(torrent.files)
  /\ prepared' = prepared \union
       {[add |-> add, torrent |-> torrent, folder |-> Base]}
  /\ phase' = "idle"
  /\ UNCHANGED <<folders, add, torrent, attempts, touched>>

\* Fault: removes the folder of the name, not the one with the suffix.
CleanupBase ==
  /\ phase = "cleaning"
  /\ folders' = [f \in DOMAIN folders \ {<<torrent.name, 0>>} |-> folders[f]]
  /\ phase' = "idle"
  /\ UNCHANGED <<add, torrent, attempts, touched, prepared>>

\* io::remove of the folder and all that is in it.
Cleanup ==
  /\ phase = "cleaning"
  /\ folders' = [f \in DOMAIN folders \ {Base} |-> folders[f]]
  /\ phase' = "idle"
  /\ UNCHANGED <<add, torrent, attempts, touched, prepared>>

\* io::remove fails, having removed some of the files.  No one looks.
CleanupFails ==
  /\ phase = "cleaning"
  /\ \E kept \in SUBSET DOMAIN folders[Base] :
       folders' = [folders EXCEPT ![Base] = [f \in kept |-> @[f]]]
  /\ phase' = "idle"
  /\ UNCHANGED <<add, torrent, attempts, touched, prepared>>

\* The process is killed, or ended by the exception that touch throws once it
\* has created an empty file, and started again: no torrent is remembered, the
\* folders stay as they are.
Restart ==
  /\ phase' = "idle"
  /\ prepared' = {}
  /\ UNCHANGED <<folders, add, torrent, attempts, touched>>

PrepareNext ==
  \/ \E t \in Torrents : BeginPrepare(t)
  \/ Probe
  \/ MakeFolder
  \/ MakeFolderFails
  \/ Touch
  \/ TouchFails
  \/ Succeed
  \/ Cleanup
  \/ CleanupFails
  \/ Restart

PrepareSpec == PrepareInit /\ [][PrepareNext]_prepareVars

-----------------------------------------------------------------------------
(* Properties *)

\* Two torrents of a session never save to the same folder, even when they
\* have the same name and whatever an earlier session left.
FoldersDistinct ==
  \A p, q \in prepared : p # q => p.folder # q.folder

\* A torrent for which prepare_torrent_files returned true has each of its
\* files, created for it, whatever later calls do, failing ones included.
FilesStay ==
  \A p \in prepared :
    /\ p.folder \in DOMAIN folders
    /\ \A f \in Range(p.torrent.files) :
         f \in DOMAIN folders[p.folder] /\ folders[p.folder][f] = p.add

\* A call that fails removes no file that another call created.
RemovesOnlyCreated ==
  [][\A f \in DOMAIN folders : \A g \in DOMAIN folders[f] :
       \/ f \in DOMAIN folders' /\ g \in DOMAIN folders'[f]
       \/ folders[f][g] = add]_prepareVars
=============================================================================
