---------------------------- MODULE Disk_proofs -----------------------------
(***************************************************************************)
(* What is on disk.  For every torrent with at least one file and no empty *)
(* file: the pieces that Torrent::pieces cuts cover exactly their bytes of *)
(* the files, and, when the torrent has one file, what save reports as     *)
(* completed is on disk, whatever several workers write, fail to write and *)
(* write again.  As long as a free name is left, torrents never share a    *)
(* folder and keep their files, for any torrents, any number of calls of   *)
(* prepare_torrent_files and any folders left by earlier sessions,         *)
(* whichever calls of the file system fail and whenever the process is     *)
(* restarted.                                                              *)
(***************************************************************************)
EXTENDS Storage, PrepareFiles, WellFoundedInduction, SequenceTheorems, TLAPS

-----------------------------------------------------------------------------
(* The inductive invariant *)

Subpieces == [file : Nat, offset : Int, len : Int]

\* The position where piece i, counted from 0, begins; of the piece behind
\* the last, the end of the torrent.
Begin(d, i) ==
  IF i = PiecesCount(d) THEN Length(d) ELSE i * d.piece_length

\* The position the loops have come to.
At ==
  IF cur_file \in DOMAIN descriptor.files
    THEN Start(descriptor, cur_file) + cur_file_tot_size - cur_file_rem_size
    ELSE Length(descriptor)

\* The subpiece of the i-th piece of a torrent of one file.
OnlySubpiece(d, i) ==
  [file |-> 1, offset |-> Begin(d, i - 1), len |-> PieceLength(d, i - 1)]

\* The locals of Torrent::pieces, as far as the loops rely on them.
TypeOK ==
  /\ descriptor \in Descriptors
  /\ index \in 0 .. PiecesCount(descriptor)
  /\ cur_file \in 1 .. Len(descriptor.files) + 1
  /\ piece_rem_len \in Nat
  /\ subpieces \in Seq(Subpieces)
  /\ pieces \in Seq(Seq(Subpieces))

\* Where the loops are in the files agrees with where they are in the
\* pieces; the loops leave the last file only with the last piece.
InStep ==
  /\ IF cur_file \in DOMAIN descriptor.files
       THEN /\ cur_file_tot_size = descriptor.files[cur_file]
            /\ cur_file_rem_size \in 0 .. cur_file_tot_size
       ELSE Done /\ piece_rem_len = 0
  /\ IF piece_rem_len = 0
       THEN At = Begin(descriptor, index)
       ELSE ~Done /\ At = Begin(descriptor, index + 1) - piece_rem_len

\* What is cut so far covers what the loops have passed.
CutSoFar ==
  /\ Len(pieces) = index
  /\ \A i \in DOMAIN pieces :
       Covers(descriptor, pieces[i], Begin(descriptor, i - 1), Begin(descriptor, i))
  /\ piece_rem_len # 0 =>
       Covers(descriptor, subpieces, Begin(descriptor, index), At)

\* A torrent of one file is never cut within a piece.
OneFileCut ==
  SingleFile =>
    /\ piece_rem_len = 0
    /\ \A i \in DOMAIN pieces : pieces[i] = <<OnlySubpiece(descriptor, i)>>

PiecesInv == TypeOK /\ InStep /\ CutSoFar /\ OneFileCut

\* The bytes of piece i of a torrent of one file are in their places.
OnDisk(i) ==
  \A j \in 1 .. PieceLength(descriptor, i - 1) :
    LET p == Begin(descriptor, i - 1) + j IN disk[1][p] = p - 1

\* They are, or write_bytes lost some of them unseen.
Stored(i) == i \in lost \/ OnDisk(i)

\* What a worker saves is a piece, stored once its subpiece is written.
SavingSound(w) ==
  saving[w] # None =>
    /\ saving[w].piece \in DOMAIN pieces
    /\ saving[w].written = 1 => Stored(saving[w].piece)

\* Several workers write at any time, but only right bytes; a piece is
\* reported once its subpiece has been written.
OneFileStored ==
  SingleFile =>
    /\ disk \in [{1} -> Seq(Nat \union {Blank})]
    /\ SingleFileIntact
    /\ saving \in [Workers -> [piece : Nat, written : 0 .. 1]]
    /\ \A w \in Workers : SavingSound(w)
    /\ saved \in SUBSET DOMAIN pieces
    /\ \A i \in saved : Stored(i)

StorageInv == PiecesInv /\ OneFileStored

-----------------------------------------------------------------------------
(* Positions in a torrent *)

\* Used for inductions along the files: a set of numbers has a least one.
LEMMA LeastNumber ==
  ASSUME NEW S, S \subseteq Nat, S # {}
  PROVE  \E n \in S : \A m \in S : n <= m
<1> DEFINE R == OpToRel(<, Nat)
<1>1. R = {rr \in Nat \X Nat : rr[1] < rr[2]}
  BY Zenon DEF OpToRel
<1>2. IsWellFoundedOn(R, Nat)
  BY NatLessThanWellFounded, Zenon
<1>3. \A m \in Nat, n \in Nat : m < n => <<m, n>> \in R
  BY <1>1, Zenon
<1> HIDE DEF R
<1>4. PICK n \in S : \A m \in S : ~ (<<m, n>> \in R)
  BY <1>2, WFMin, Zenon
<1>5. ASSUME NEW m \in S PROVE n <= m
  <2>1. m \in Nat /\ n \in Nat /\ ~ (m < n)
    BY <1>3, <1>4, Zenon
  <2> QED
    BY <2>1
<1> QED
  BY <1>5, Zenon

\* g holds the first positions of the first n - 1 files, and where the next
\* begins.
IsStarts(d, g, n) ==
  g = [f \in 1 .. n |-> IF f = 1 THEN 0 ELSE g[f - 1] + d.files[f - 1]]

\* The sum that the constructor of TorrentFile accumulates exists for every
\* number of files.
LEMMA StartsExist ==
  ASSUME NEW d \in Descriptors,
         NEW n \in 1 .. Len(d.files) + 1
  PROVE  \E g : IsStarts(d, g, n)
<1> DEFINE Bad == {k \in Nat : k \in 1 .. Len(d.files) + 1 /\ ~ \E g : IsStarts(d, g, k)}
<1>1. SUFFICES ASSUME Bad # {} PROVE FALSE
  BY DescriptorsAssumption
<1>2. PICK k \in Bad : \A m \in Bad : k <= m
  BY <1>1, LeastNumber, Zenon
<1>3. k \in Nat /\ k \in 1 .. Len(d.files) + 1 /\ ~ \E g : IsStarts(d, g, k)
  BY <1>2, Zenon
<1>4. k # 1
  <2>1. IsStarts(d, [f \in 1 .. 1 |-> 0], 1)
    BY DEF IsStarts
  <2> QED
    BY <1>3, <2>1, Zenon
<1>5. k - 1 \in Nat /\ k - 1 \in 1 .. Len(d.files) + 1 /\ k - 1 \notin Bad
  <2> HIDE DEF Bad
  <2>1. Len(d.files) \in Nat
    BY DescriptorsAssumption
  <2> QED
    BY <1>2, <1>3, <1>4, <2>1
<1>6. PICK g : IsStarts(d, g, k - 1)
  BY <1>5, Zenon
<1> DEFINE h == [f \in 1 .. k |-> IF f = k THEN g[k - 1] + d.files[k - 1] ELSE g[f]]
<1>7. IsStarts(d, h, k)
  <2>1. \A f \in 1 .. k - 1 :
          g[f] = IF f = 1 THEN 0 ELSE g[f - 1] + d.files[f - 1]
    BY <1>6, Zenon DEF IsStarts
  <2>2. ASSUME NEW f \in 1 .. k
        PROVE  h[f] = IF f = 1 THEN 0 ELSE h[f - 1] + d.files[f - 1]
    BY <1>3, <1>4, <2>1
  <2> QED
    BY <2>2, Zenon DEF IsStarts
<1> QED
  BY <1>3, <1>7, Zenon

\* A file begins where the file before it ends.
LEMMA StartNext ==
  ASSUME NEW d \in Descriptors
  PROVE  /\ Start(d, 1) = 0
         /\ \A f \in 1 .. Len(d.files) : Start(d, f + 1) = Start(d, f) + d.files[f]
<1> DEFINE n == Len(d.files) + 1
<1>1. n \in Nat \ {0}
  BY DescriptorsAssumption
<1>2. IsStarts(d, Starts(d), n)
  BY <1>1, StartsExist DEF Starts, IsStarts
<1>3. \A f \in 1 .. n :
        Starts(d)[f] = IF f = 1 THEN 0 ELSE Starts(d)[f - 1] + d.files[f - 1]
  BY <1>2, Zenon DEF IsStarts
<1>4. ASSUME NEW f \in 1 .. Len(d.files)
      PROVE  Start(d, f + 1) = Start(d, f) + d.files[f]
  BY <1>1, <1>3 DEF Start
<1> QED
  BY <1>1, <1>3, <1>4 DEF Start

\* No position is negative, and every file begins before the end of the
\* torrent.
LEMMA StartFacts ==
  ASSUME NEW d \in Descriptors
  PROVE  /\ Length(d) \in Nat \ {0}
         /\ \A f \in 1 .. Len(d.files) + 1 : Start(d, f) \in 0 .. Length(d)
         /\ \A f \in 1 .. Len(d.files) : Start(d, f) < Length(d)
<1> DEFINE n == Len(d.files)
<1>1. n \in Nat \ {0} /\ \A f \in 1 .. n : d.files[f] \in Nat \ {0}
  BY DescriptorsAssumption
<1>2. Start(d, 1) = 0 /\ \A f \in 1 .. n : Start(d, f + 1) = Start(d, f) + d.files[f]
  BY StartNext, Zenon
<1> HIDE DEF n
<1>3. \A f \in 1 .. n + 1 : Start(d, f) \in Nat
  <2> DEFINE Bad == {f \in Nat : f \in 1 .. n + 1 /\ Start(d, f) \notin Nat}
  <2>1. SUFFICES ASSUME Bad # {} PROVE FALSE
    BY <1>1
  <2>2. PICK f \in Bad : \A g \in Bad : f <= g
    BY <2>1, LeastNumber, Zenon
  <2>3. f \in 1 .. n + 1 /\ Start(d, f) \notin Nat
    BY Zenon
  <2>4. f # 1
    BY <1>2, <2>3
  <2>5. f - 1 \in 1 .. n /\ f - 1 \notin Bad
    <3> HIDE DEF Bad
    <3> QED
      BY <1>1, <2>2, <2>3, <2>4
  <2>6. Start(d, f - 1) \in Nat /\ Start(d, (f - 1) + 1) = Start(d, f - 1) + d.files[f - 1]
    BY <1>1, <1>2, <2>5
  <2>7. (f - 1) + 1 = f
    BY <1>1, <2>3
  <2> QED
    BY <1>1, <2>3, <2>5, <2>6, <2>7
<1>4. \A f \in 1 .. n : Start(d, f) < Start(d, n + 1)
  <2> DEFINE Bad == {k \in Nat : k \in 1 .. n /\ ~ (Start(d, n + 1 - k) < Start(d, n + 1))}
  <2>1. Bad = {}
    <3>1. SUFFICES ASSUME Bad # {} PROVE FALSE
      BY Zenon
    <3>2. PICK k \in Bad : \A g \in Bad : k <= g
      BY <3>1, LeastNumber, Zenon
    <3>3. k \in 1 .. n /\ ~ (Start(d, n + 1 - k) < Start(d, n + 1))
      BY Zenon
    <3>4. n + 1 - k \in 1 .. n
      BY <1>1, <3>3
    <3>5. Start(d, (n + 1 - k) + 1) = Start(d, n + 1 - k) + d.files[n + 1 - k]
      BY <1>2, <3>4, Zenon
    <3>6. /\ Start(d, n + 1) \in Nat
          /\ Start(d, n + 1 - k) \in Nat
          /\ d.files[n + 1 - k] \in Nat \ {0}
      BY <1>1, <1>3, <3>4
    <3>7. CASE k = 1
      <4>1. (n + 1 - k) + 1 = n + 1
        BY <1>1, <3>7
      <4> QED
        BY <3>3, <3>5, <3>6, <4>1
    <3>8. CASE k # 1
      <4>1. k - 1 \in Nat /\ k - 1 \in 1 .. n /\ k - 1 \notin Bad
        <5> HIDE DEF Bad
        <5> QED
          BY <1>1, <3>2, <3>3, <3>8
      <4>2. Start(d, n + 1 - (k - 1)) < Start(d, n + 1)
        BY <4>1, Zenon
      <4>3. (n + 1 - k) + 1 = n + 1 - (k - 1)
        BY <1>1, <3>3
      <4>4. Start(d, n + 1 - k) + d.files[n + 1 - k] < Start(d, n + 1)
        BY <3>5, <4>2, <4>3, Zenon
      <4> QED
        BY <3>3, <3>6, <4>4
    <3> QED
      BY <3>7, <3>8, Zenon
  <2>2. ASSUME NEW f \in 1 .. n
        PROVE  Start(d, f) < Start(d, n + 1)
    <3>1. n + 1 - f \in Nat /\ n + 1 - f \in 1 .. n /\ n + 1 - (n + 1 - f) = f
      BY <1>1
    <3> QED
      BY <2>1, <3>1, Zenon
  <2> QED
    BY <2>2, Zenon
<1>5. Length(d) = Start(d, n + 1)
  BY Zenon DEF Length, n
<1>6. ASSUME NEW f \in 1 .. n + 1
      PROVE  Start(d, f) \in 0 .. Length(d)
  <2>1. CASE f = n + 1
    BY <1>1, <1>3, <1>5, <2>1
  <2>2. CASE f # n + 1
    <3>1. f \in 1 .. n
      BY <1>1, <2>2
    <3> QED
      BY <1>1, <1>3, <1>4, <1>5, <3>1
  <2> QED
    BY <2>1, <2>2, Zenon
<1>7. Length(d) \in Nat \ {0}
  BY <1>1, <1>2, <1>3, <1>4, <1>5
<1> QED
  BY <1>4, <1>5, <1>6, <1>7, Zenon DEF n

\* A torrent of one file is as long as the file.
LEMMA OneFileLength ==
  ASSUME NEW d \in Descriptors, Len(d.files) = 1
  PROVE  Start(d, 1) = 0 /\ Length(d) = d.files[1] /\ Length(d) \in Nat
<1>1. 1 \in 1 .. Len(d.files) /\ Len(d.files) + 1 = 1 + 1
  OBVIOUS
<1>2. Start(d, 1) = 0 /\ Start(d, 1 + 1) = Start(d, 1) + d.files[1]
  BY <1>1, StartNext, Zenon
<1>3. d.files[1] \in Nat
  BY <1>1, DescriptorsAssumption
<1> QED
  BY <1>1, <1>2, <1>3 DEF Length

\* The number of pieces is the one for which the last piece is not empty.
LEMMA CountFacts ==
  ASSUME NEW d \in Descriptors
  PROVE  /\ PiecesCount(d) \in Nat \ {0}
         /\ (PiecesCount(d) - 1) * d.piece_length < Length(d)
         /\ Length(d) <= PiecesCount(d) * d.piece_length
<1> DEFINE l == Length(d)
           p == d.piece_length
<1>1. l \in Nat \ {0} /\ p \in Nat \ {0}
  BY StartFacts, DescriptorsAssumption, Zenon
<1>2. PiecesCount(d) = (l + p - 1) \div p
  BY Zenon DEF PiecesCount
<1> HIDE DEF l, p
<1> DEFINE q == (l + p - 1) \div p
<1>3. q \in Int /\ p * q <= l + p - 1 /\ l + p - 1 < p * q + p
  BY <1>1
<1> HIDE DEF q
<1>4. q >= 1
  BY <1>1, <1>3
<1>5. (q - 1) * p = p * q - p /\ q * p = p * q
  BY <1>1, <1>3
<1>6. (q - 1) * p < l /\ l <= q * p
  BY <1>1, <1>3, <1>5
<1> QED
  BY <1>2, <1>3, <1>4, <1>6 DEF l, p, q

\* A piece ends where the next begins, and only the last ends with the
\* torrent.
LEMMA PieceFacts ==
  ASSUME NEW d \in Descriptors,
         NEW i \in 0 .. PiecesCount(d) - 1
  PROVE  /\ Begin(d, i) = i * d.piece_length
         /\ Begin(d, i) \in Nat
         /\ PieceLength(d, i) \in Nat \ {0}
         /\ Begin(d, i + 1) = Begin(d, i) + PieceLength(d, i)
         /\ Begin(d, i + 1) \in Nat
         /\ Begin(d, i + 1) <= Length(d)
         /\ i + 1 # PiecesCount(d) => Begin(d, i + 1) < Length(d)
<1> DEFINE l == Length(d)
           p == d.piece_length
           c == PiecesCount(d)
<1>1. l \in Nat \ {0} /\ p \in Nat \ {0} /\ c \in Nat \ {0}
  BY StartFacts, CountFacts, DescriptorsAssumption, Zenon
<1>2. (c - 1) * p < l /\ l <= c * p
  BY CountFacts, Zenon
<1>3. Begin(d, i) = i * p
  BY <1>1 DEF Begin
<1>4. Begin(d, i + 1) = IF i + 1 = c THEN l ELSE (i + 1) * p
  BY Zenon DEF Begin
<1>5. PieceLength(d, i) = IF i = c - 1 THEN l - (c - 1) * p ELSE p
  BY Zenon DEF PieceLength
<1>6. i \in Nat /\ i <= c - 1
  BY <1>1
<1> HIDE DEF l, p, c
<1>7. i * p \in Nat /\ (i + 1) * p = i * p + p
  BY <1>1, <1>6
<1>8. CASE i = c - 1
  BY <1>1, <1>2, <1>3, <1>4, <1>5, <1>6, <1>7, <1>8 DEF l, p, c
<1>9. CASE i # c - 1
  <2>1. i + 1 <= c - 1
    BY <1>1, <1>6, <1>9
  <2>2. (i + 1) * p <= (c - 1) * p
    BY <1>1, <1>6, <2>1
  <2>3. (c - 1) * p \in Int /\ (i + 1) * p < l
    BY <1>1, <1>2, <1>6, <2>2
  <2> QED
    BY <1>1, <1>3, <1>4, <1>5, <1>6, <1>7, <1>9, <2>3 DEF l, p, c
<1> QED
  BY <1>8, <1>9, Zenon

-----------------------------------------------------------------------------
(* Covering *)

\* A subpiece that begins where the covered bytes end makes them longer.
LEMMA CoversAppend ==
  ASSUME NEW d \in Descriptors,
         NEW ss \in Seq(Subpieces), NEW s \in Subpieces,
         NEW a \in Int, NEW b \in Int,
         Covers(d, ss, a, b),
         s.file \in DOMAIN d.files,
         0 <= s.offset, s.offset + s.len <= d.files[s.file],
         Position(d, s) = b
  PROVE  Covers(d, Append(ss, s), a, b + s.len)
<1> DEFINE tt == Append(ss, s)
<1>1. /\ tt \in Seq(Subpieces) /\ tt # <<>>
      /\ Len(tt) = Len(ss) + 1 /\ Len(ss) \in Nat
      /\ DOMAIN tt = 1 .. Len(ss) + 1 /\ DOMAIN ss = 1 .. Len(ss)
      /\ tt[Len(ss) + 1] = s
      /\ \A j \in 1 .. Len(ss) : tt[j] = ss[j]
  OBVIOUS
<1>2. ASSUME NEW t \in Range(tt)
      PROVE  /\ t.file \in DOMAIN d.files
             /\ 0 <= t.offset /\ t.offset + t.len <= d.files[t.file]
  <2>1. PICK j \in DOMAIN tt : t = tt[j]
    BY Zenon DEF Range
  <2>2. t = s \/ t \in Range(ss)
    BY <1>1, <2>1 DEF Range
  <2> QED
    BY <2>2, Zenon DEF Covers
<1>3. ASSUME NEW j \in DOMAIN tt
      PROVE  Position(d, tt[j]) =
               IF j = 1 THEN a ELSE Position(d, tt[j-1]) + tt[j-1].len
  <2>1. CASE j = Len(ss) + 1 /\ ss = <<>>
    BY <1>1, <2>1 DEF Covers
  <2>2. CASE j = Len(ss) + 1 /\ ss # <<>>
    <3>1. Len(ss) \in 1 .. Len(ss) /\ j # 1 /\ j - 1 = Len(ss)
      BY <1>1, <2>2
    <3>2. tt[j] = s /\ tt[j-1] = ss[Len(ss)]
      BY <1>1, <2>2, <3>1, Zenon
    <3>3. Position(d, ss[Len(ss)]) + ss[Len(ss)].len = b
      BY <2>2, Zenon DEF Covers
    <3> QED
      BY <3>1, <3>2, <3>3, Zenon
  <2>3. CASE j # Len(ss) + 1
    <3>1. j \in DOMAIN ss /\ tt[j] = ss[j] /\ (j # 1 => tt[j-1] = ss[j-1])
      BY <1>1, <2>3
    <3> QED
      BY <3>1, Zenon DEF Covers
  <2> QED
    BY <2>1, <2>2, <2>3, Zenon
<1>4. Position(d, tt[Len(tt)]) + tt[Len(tt)].len = b + s.len
  BY <1>1, Zenon
<1> HIDE DEF tt
<1>5. Covers(d, tt, a, b + s.len)
  BY <1>1, <1>2, <1>3, <1>4, Zenon DEF Covers
<1> QED
  BY <1>5, Zenon DEF tt

\* No subpiece covers nothing.
LEMMA CoversNothing ==
  ASSUME NEW d, NEW a
  PROVE  Covers(d, <<>>, a, a)
BY DEF Covers, Range

-----------------------------------------------------------------------------
(* The steps of the loops *)

\* The state with which the loops begin.
LEMMA PiecesInit == Init => PiecesInv
<1> SUFFICES ASSUME Init PROVE PiecesInv
  BY Zenon
<1> DEFINE d == descriptor
<1>1. d \in Descriptors /\ index = 0 /\ cur_file = 1 /\ piece_rem_len = 0
      /\ subpieces = <<>> /\ pieces = <<>>
      /\ cur_file_tot_size = d.files[1] /\ cur_file_rem_size = d.files[1]
  BY Zenon DEF Init
<1>2. Len(d.files) \in Nat \ {0} /\ DOMAIN d.files = 1 .. Len(d.files)
      /\ d.files[1] \in Nat \ {0}
  BY <1>1, DescriptorsAssumption
<1>3. PiecesCount(d) \in Nat \ {0} /\ Start(d, 1) = 0
  BY <1>1, CountFacts, StartNext, Zenon
<1>4. Begin(d, 0) = 0
  BY <1>1, <1>3, DescriptorsAssumption DEF Begin
<1>5. At = 0
  BY <1>1, <1>2, <1>3 DEF At
<1>6. TypeOK
  BY <1>1, <1>2, <1>3, EmptySeq DEF TypeOK
<1>7. InStep
  BY <1>1, <1>2, <1>4, <1>5 DEF InStep
<1>8. CutSoFar /\ OneFileCut
  BY <1>1 DEF CutSoFar, OneFileCut
<1> QED
  BY <1>6, <1>7, <1>8, Zenon DEF PiecesInv

\* What the steps use of the invariant: the loops are in a file.
LEMMA InAFile ==
  ASSUME PiecesInv, ~Done
  PROVE  /\ cur_file \in 1 .. Len(descriptor.files)
         /\ Len(descriptor.files) \in Nat
         /\ DOMAIN descriptor.files = 1 .. Len(descriptor.files)
         /\ index \in 0 .. PiecesCount(descriptor) - 1
         /\ cur_file_tot_size = descriptor.files[cur_file]
         /\ cur_file_tot_size \in Nat
         /\ cur_file_rem_size \in 0 .. cur_file_tot_size
         /\ Start(descriptor, cur_file) \in Nat
         /\ At = Start(descriptor, cur_file) + cur_file_tot_size - cur_file_rem_size
<1>1. descriptor \in Descriptors /\ index \in 0 .. PiecesCount(descriptor)
      /\ cur_file \in 1 .. Len(descriptor.files) + 1
  BY Zenon DEF PiecesInv, TypeOK
<1>2. Len(descriptor.files) \in Nat
      /\ DOMAIN descriptor.files = 1 .. Len(descriptor.files)
      /\ \A f \in DOMAIN descriptor.files : descriptor.files[f] \in Nat
  BY <1>1, DescriptorsAssumption
<1>3. cur_file \in DOMAIN descriptor.files
  BY Zenon DEF PiecesInv, InStep
<1>4. cur_file_tot_size = descriptor.files[cur_file]
      /\ cur_file_rem_size \in 0 .. cur_file_tot_size
  BY <1>3, Zenon DEF PiecesInv, InStep
<1>5. PiecesCount(descriptor) \in Nat
  BY <1>1, CountFacts, Zenon
<1>6. index \in 0 .. PiecesCount(descriptor) - 1
  BY <1>1, <1>5 DEF Done
<1>7. Start(descriptor, cur_file) \in Nat
  BY <1>1, <1>2, <1>3, StartFacts
<1> QED
  BY <1>2, <1>3, <1>4, <1>6, <1>7, Zenon DEF At

\* A subpiece at the current place of the current file, not longer than what
\* remains of the file, goes on where the loops are.
LEMMA CutCovers ==
  ASSUME PiecesInv, ~Done,
         NEW ss \in Seq(Subpieces), NEW a \in Int, NEW len \in Nat,
         Covers(descriptor, ss, a, At),
         len <= cur_file_rem_size
  PROVE  /\ Cut(len) \in Subpieces
         /\ Append(ss, Cut(len)) \in Seq(Subpieces)
         /\ Covers(descriptor, Append(ss, Cut(len)), a, At + len)
<1> DEFINE s == [file |-> cur_file, offset |-> cur_file_tot_size - cur_file_rem_size,
                 len |-> len]
<1>1. Cut(len) = s
  BY Zenon DEF Cut
<1>2. s \in Subpieces
  BY InAFile DEF Subpieces
<1>3. /\ s.file = cur_file
      /\ s.offset = cur_file_tot_size - cur_file_rem_size
      /\ s.len = len
  BY Zenon
<1> HIDE DEF s
<1>4. s.file \in DOMAIN descriptor.files /\ 0 <= s.offset
      /\ s.offset + s.len <= descriptor.files[s.file]
  <2>1. cur_file \in DOMAIN descriptor.files /\ cur_file_tot_size = descriptor.files[cur_file]
    BY InAFile, Zenon
  <2>2. PICK n \in Nat : n = cur_file_tot_size
    BY InAFile, Zenon
  <2>3. PICK r \in 0 .. n : r = cur_file_rem_size /\ len <= r
    BY <2>2, InAFile, Zenon
  <2>4. 0 <= n - r /\ (n - r) + len <= n
    BY <2>3
  <2> QED
    BY <1>3, <2>1, <2>2, <2>3, <2>4, Zenon
<1>5. Position(descriptor, s) = At /\ At \in Int
  BY <1>3, InAFile DEF Position
<1>6. descriptor \in Descriptors
  BY Zenon DEF PiecesInv, TypeOK
<1>7. Covers(descriptor, Append(ss, s), a, At + s.len)
  BY <1>2, <1>4, <1>5, <1>6, CoversAppend, Zenon
<1> QED
  BY <1>1, <1>2, <1>3, <1>7

\* The end of an iteration of the loop over the pieces: a piece that covers
\* its bytes is pushed.
LEMMA PiecePushed ==
  ASSUME PiecesInv, ~Done,
         NEW ss \in Seq(Subpieces),
         Covers(descriptor, ss, Begin(descriptor, index), Begin(descriptor, index + 1)),
         SingleFile => ss = <<OnlySubpiece(descriptor, index + 1)>>,
         descriptor' = descriptor,
         pieces' = Append(pieces, ss),
         index' = index + 1,
         piece_rem_len' = 0,
         subpieces' \in Seq(Subpieces),
         cur_file' \in 1 .. Len(descriptor.files) + 1
  PROVE  TypeOK' /\ CutSoFar' /\ OneFileCut'
<1>1. pieces \in Seq(Seq(Subpieces)) /\ Len(pieces) = index
      /\ descriptor \in Descriptors
  BY Zenon DEF PiecesInv, TypeOK, CutSoFar
<1>2. /\ pieces' \in Seq(Seq(Subpieces)) /\ Len(pieces') = index'
      /\ DOMAIN pieces' = 1 .. index + 1 /\ DOMAIN pieces = 1 .. index
      /\ pieces'[index + 1] = ss
      /\ \A i \in DOMAIN pieces : pieces'[i] = pieces[i]
      /\ index \in Nat
  BY <1>1
<1>3. index + 1 \in 0 .. PiecesCount(descriptor) /\ (index + 1) - 1 = index
  <2>1. index \in 0 .. PiecesCount(descriptor) - 1
    BY InAFile, Zenon
  <2>2. PiecesCount(descriptor) \in Nat
    BY <1>1, CountFacts, Zenon
  <2> QED
    BY <2>1, <2>2
<1>4. TypeOK'
  BY <1>1, <1>2, <1>3, Zenon DEF TypeOK
<1>5. ASSUME NEW i \in DOMAIN pieces'
      PROVE  i \in DOMAIN pieces \/ i = index + 1
  BY <1>2
<1>6. CutSoFar'
  <2>1. ASSUME NEW i \in DOMAIN pieces'
        PROVE  Covers(descriptor, pieces'[i], Begin(descriptor, i - 1), Begin(descriptor, i))
    <3>1. CASE i \in DOMAIN pieces
      BY <1>2, <3>1, Zenon DEF PiecesInv, CutSoFar
    <3>2. CASE i = index + 1
      BY <1>2, <1>3, <3>2, Zenon
    <3> QED
      BY <1>5, <3>1, <3>2, Zenon
  <2> QED
    BY <1>2, <2>1, Zenon DEF CutSoFar
<1>7. OneFileCut'
  <2>1. ASSUME SingleFile, NEW i \in DOMAIN pieces'
        PROVE  pieces'[i] = <<OnlySubpiece(descriptor, i)>>
    <3>1. CASE i \in DOMAIN pieces
      BY <1>2, <2>1, <3>1, Zenon DEF PiecesInv, OneFileCut
    <3>2. CASE i = index + 1
      BY <1>2, <2>1, <3>2, Zenon
    <3> QED
      BY <1>5, <3>1, <3>2, Zenon
  <2> QED
    BY <2>1, Zenon DEF OneFileCut, SingleFile
<1> QED
  BY <1>4, <1>6, <1>7, Zenon

\* In a torrent of one file, the place in the file is the place in the
\* torrent.
LEMMA OnePlace ==
  ASSUME PiecesInv, ~Done, SingleFile
  PROVE  /\ cur_file = 1
         /\ cur_file_tot_size = Length(descriptor)
         /\ At = cur_file_tot_size - cur_file_rem_size
<1>1. cur_file = 1
  BY InAFile DEF SingleFile
<1>2. descriptor \in Descriptors
  BY Zenon DEF PiecesInv, TypeOK
<1>3. Start(descriptor, 1) = 0 /\ Length(descriptor) = descriptor.files[1]
  BY <1>2, OneFileLength, Zenon DEF SingleFile
<1>4. /\ cur_file_tot_size = descriptor.files[cur_file]
      /\ cur_file_tot_size \in Nat /\ cur_file_rem_size \in 0 .. cur_file_tot_size
      /\ At = Start(descriptor, cur_file) + cur_file_tot_size - cur_file_rem_size
  BY InAFile, Zenon
<1> QED
  BY <1>1, <1>3, <1>4

\* A piece that ends within the current file keeps the invariant.
LEMMA WholePieceStep ==
  ASSUME PiecesInv, WholePiece
  PROVE  PiecesInv'
<1> DEFINE len == PieceLength(descriptor, index)
<1>1. ~Done /\ piece_rem_len = 0 /\ cur_file_rem_size >= len
  BY Zenon DEF WholePiece
<1>2. /\ pieces' = Append(pieces, <<Cut(len)>>)
      /\ cur_file_rem_size' = cur_file_rem_size - len
      /\ index' = index + 1
      /\ descriptor' = descriptor /\ cur_file' = cur_file
      /\ cur_file_tot_size' = cur_file_tot_size
      /\ piece_rem_len' = 0 /\ subpieces' = subpieces
  BY <1>1, Zenon DEF WholePiece
<1>3. descriptor \in Descriptors /\ subpieces \in Seq(Subpieces)
      /\ cur_file \in 1 .. Len(descriptor.files) + 1
  BY Zenon DEF PiecesInv, TypeOK
<1>4. /\ len \in Nat \ {0}
      /\ Begin(descriptor, index) \in Nat
      /\ Begin(descriptor, index + 1) = Begin(descriptor, index) + len
  BY <1>1, <1>3, InAFile, PieceFacts, Zenon
<1>5. At = Begin(descriptor, index)
  BY <1>1, Zenon DEF PiecesInv, InStep
<1>6. cur_file_tot_size \in Nat /\ cur_file_rem_size \in 0 .. cur_file_tot_size
       /\ Start(descriptor, cur_file) \in Nat
       /\ At = Start(descriptor, cur_file) + cur_file_tot_size - cur_file_rem_size
  BY <1>1, InAFile, Zenon
<1> HIDE DEF len
<1>7. /\ <<Cut(len)>> \in Seq(Subpieces)
      /\ Covers(descriptor, <<Cut(len)>>, Begin(descriptor, index),
                Begin(descriptor, index + 1))
  <2>1. Covers(descriptor, <<>>, Begin(descriptor, index), At)
    BY <1>5, CoversNothing, Zenon
  <2>2. /\ Cut(len) \in Subpieces
        /\ Covers(descriptor, Append(<<>>, Cut(len)), Begin(descriptor, index), At + len)
    <3>1. <<>> \in Seq(Subpieces)
      BY EmptySeq, Zenon
    <3>2. len \in Nat /\ len <= cur_file_rem_size /\ Begin(descriptor, index) \in Int
      BY <1>1, <1>4, <1>6
    <3> QED
      BY <1>1, <2>1, <3>1, <3>2, CutCovers, Zenon
  <2>3. Append(<<>>, Cut(len)) = <<Cut(len)>>
    BY <2>2
  <2> QED
    BY <1>4, <1>5, <2>2, <2>3
<1>8. SingleFile => <<Cut(len)>> = <<OnlySubpiece(descriptor, index + 1)>>
  <2>1. SUFFICES ASSUME SingleFile PROVE Cut(len) = OnlySubpiece(descriptor, index + 1)
    BY Zenon
  <2>2. cur_file = 1 /\ cur_file_tot_size - cur_file_rem_size = Begin(descriptor, index)
    BY <1>1, <1>5, <2>1, OnePlace, Zenon
  <2>3. (index + 1) - 1 = index
    BY <1>1, InAFile
  <2> QED
    BY <2>2, <2>3, Zenon DEF Cut, OnlySubpiece, len
<1>9. TypeOK' /\ CutSoFar' /\ OneFileCut'
  <2>1. PICK ss \in Seq(Subpieces) : ss = <<Cut(len)>>
    BY <1>7, Zenon
  <2> QED
    BY <1>1, <1>2, <1>3, <1>7, <1>8, <2>1, PiecePushed, Zenon
<1>10. InStep'
  <2>1. cur_file_rem_size' \in 0 .. cur_file_tot_size
    BY <1>1, <1>2, <1>4, <1>6
  <2>2. At' = Begin(descriptor, index + 1)
    <3>1. At' = Start(descriptor, cur_file) + cur_file_tot_size - cur_file_rem_size'
      BY <1>1, <1>2, InAFile, Zenon DEF At
    <3> QED
      BY <1>2, <1>4, <1>5, <1>6, <3>1
  <2>3. cur_file' \in DOMAIN descriptor'.files
        /\ cur_file_tot_size' = descriptor'.files[cur_file']
    BY <1>1, <1>2, InAFile, Zenon
  <2> QED
    BY <1>2, <2>1, <2>2, <2>3, Zenon DEF InStep
<1> QED
  BY <1>9, <1>10, Zenon DEF PiecesInv

\* Entering the inner loop keeps the invariant; a torrent of one file never
\* enters it.
LEMMA BeginCuttingStep ==
  ASSUME PiecesInv, BeginCutting
  PROVE  PiecesInv'
<1> DEFINE len == PieceLength(descriptor, index)
<1>1. ~Done /\ piece_rem_len = 0 /\ cur_file_rem_size < len
  BY Zenon DEF BeginCutting
<1>2. /\ piece_rem_len' = len /\ subpieces' = <<>>
      /\ descriptor' = descriptor /\ index' = index /\ cur_file' = cur_file
      /\ cur_file_tot_size' = cur_file_tot_size
      /\ cur_file_rem_size' = cur_file_rem_size /\ pieces' = pieces
  BY Zenon DEF BeginCutting
<1>3. descriptor \in Descriptors
  BY Zenon DEF PiecesInv, TypeOK
<1>4. /\ len \in Nat \ {0}
      /\ Begin(descriptor, index) \in Nat
      /\ Begin(descriptor, index + 1) = Begin(descriptor, index) + len
      /\ Begin(descriptor, index + 1) <= Length(descriptor)
      /\ Length(descriptor) \in Nat
  BY <1>1, <1>3, InAFile, PieceFacts, StartFacts, Zenon
<1>5. At = Begin(descriptor, index) /\ At' = At
  BY <1>1, <1>2, Zenon DEF PiecesInv, InStep, At
<1> HIDE DEF len
<1>6. TypeOK'
  BY <1>2, <1>4, EmptySeq, Zenon DEF PiecesInv, TypeOK
<1>7. InStep'
  <2>1. At' = Begin(descriptor', index' + 1) - piece_rem_len'
    BY <1>2, <1>4, <1>5
  <2>2. ~Done' /\ piece_rem_len' # 0
    BY <1>1, <1>2, <1>4, Zenon DEF Done
  <2>3. cur_file' \in DOMAIN descriptor'.files
        /\ cur_file_tot_size' = descriptor'.files[cur_file']
        /\ cur_file_rem_size' \in 0 .. cur_file_tot_size'
    BY <1>1, <1>2, InAFile, Zenon
  <2> QED
    BY <2>1, <2>2, <2>3, Zenon DEF InStep
<1>8. CutSoFar'
  <2>1. Covers(descriptor, <<>>, Begin(descriptor, index), At)
    BY <1>5, CoversNothing, Zenon
  <2> QED
    BY <1>2, <1>5, <2>1, Zenon DEF PiecesInv, CutSoFar
<1>9. ~SingleFile
  <2>1. SUFFICES ASSUME SingleFile PROVE FALSE
    BY Zenon
  <2>2. At = Length(descriptor) - cur_file_rem_size
    BY <1>1, <2>1, OnePlace, Zenon
  <2>3. cur_file_rem_size \in Nat
    BY <1>1, InAFile
  <2>4. Begin(descriptor, index) = Length(descriptor) - cur_file_rem_size
    BY <1>5, <2>2, Zenon
  <2> QED
    BY <1>1, <1>4, <2>3, <2>4
<1>10. OneFileCut'
  BY <1>2, <1>9, Zenon DEF OneFileCut, SingleFile
<1> QED
  BY <1>6, <1>7, <1>8, <1>10, Zenon DEF PiecesInv

\* The rest of the file goes into the piece: the loops go on at the start of
\* the next file, or stop behind the last.
LEMMA TakeRestOfFileStep ==
  ASSUME PiecesInv, TakeRestOfFile
  PROVE  PiecesInv'
<1> DEFINE d == descriptor
           rem == piece_rem_len - cur_file_rem_size
           subs == Append(subpieces, Cut(cur_file_rem_size))
<1>1. /\ piece_rem_len > 0 /\ cur_file_rem_size <= piece_rem_len
      /\ Finish(rem, subs)
      /\ cur_file' = cur_file + 1
      /\ cur_file_rem_size' = cur_file_tot_size'
      /\ descriptor' = d
      /\ cur_file' \in DOMAIN d.files => cur_file_tot_size' = d.files[cur_file']
  BY Zenon DEF TakeRestOfFile
<1>2. d \in Descriptors /\ subpieces \in Seq(Subpieces) /\ piece_rem_len \in Nat
  BY Zenon DEF PiecesInv, TypeOK
<1>3. ~Done /\ At = Begin(d, index + 1) - piece_rem_len
      /\ Covers(d, subpieces, Begin(d, index), At)
  BY <1>1, <1>2 DEF PiecesInv, InStep, CutSoFar
<1>4. /\ cur_file \in 1 .. Len(d.files) /\ Len(d.files) \in Nat
      /\ DOMAIN d.files = 1 .. Len(d.files)
      /\ index \in 0 .. PiecesCount(d) - 1
      /\ cur_file_tot_size = d.files[cur_file]
      /\ cur_file_tot_size \in Nat /\ cur_file_rem_size \in 0 .. cur_file_tot_size
      /\ Start(d, cur_file) \in Nat
      /\ At = Start(d, cur_file) + cur_file_tot_size - cur_file_rem_size
  BY <1>3, InAFile, Zenon
<1>5. /\ Begin(d, index) \in Nat
      /\ Begin(d, index + 1) \in Nat
      /\ Begin(d, index + 1) <= Length(d)
      /\ index + 1 # PiecesCount(d) => Begin(d, index + 1) < Length(d)
  BY <1>2, <1>4, PieceFacts, Zenon
<1>6. Length(d) \in Nat /\ Length(d) = Start(d, Len(d.files) + 1)
  BY <1>2, StartFacts, Zenon DEF Length
<1>7. At + cur_file_rem_size = Start(d, cur_file + 1)
  <2>1. Start(d, cur_file + 1) = Start(d, cur_file) + cur_file_tot_size
    BY <1>2, <1>4, StartNext, Zenon
  <2> QED
    <3>1. /\ Start(d, cur_file) \in Int
          /\ cur_file_tot_size \in Int /\ cur_file_rem_size \in Int
          /\ At = Start(d, cur_file) + cur_file_tot_size - cur_file_rem_size
      BY <1>4
    <3> QED
      BY <2>1, <3>1
<1>8. Start(d, cur_file + 1) = Begin(d, index + 1) - rem /\ rem \in Nat
  BY <1>1, <1>2, <1>3, <1>4, <1>5, <1>7
<1>9. subs \in Seq(Subpieces) /\ Covers(d, subs, Begin(d, index), Start(d, cur_file + 1))
  <2>1. cur_file_rem_size \in Nat /\ cur_file_rem_size <= cur_file_rem_size
        /\ Begin(d, index) \in Int
    BY <1>4, <1>5
  <2> QED
    BY <1>2, <1>3, <1>7, <2>1, CutCovers, Zenon
<1>10. ~SingleFile
  BY <1>1, <1>2 DEF PiecesInv, OneFileCut
<1>11. cur_file + 1 \in 1 .. Len(d.files) + 1
  BY <1>4
<1>12. At' = Start(d, cur_file + 1)
  <2>1. CASE cur_file + 1 \in DOMAIN d.files
    <3>1. At' = Start(d, cur_file + 1) + cur_file_tot_size' - cur_file_tot_size'
      BY <1>1, <2>1, Zenon DEF At
    <3>2. cur_file_tot_size' \in Nat /\ Start(d, cur_file + 1) \in Nat
      BY <1>1, <1>2, <1>11, <2>1, StartFacts, DescriptorsAssumption
    <3> QED
      BY <3>1, <3>2
  <2>2. CASE cur_file + 1 \notin DOMAIN d.files
    <3>1. cur_file + 1 = Len(d.files) + 1
      BY <1>4, <2>2
    <3>2. At' = Length(d)
      BY <1>1, <2>2, Zenon DEF At
    <3> QED
      BY <1>6, <3>1, <3>2, Zenon
  <2> QED
    BY <2>1, <2>2, Zenon
<1>13. cur_file' \in DOMAIN d.files =>
         /\ cur_file_tot_size' = d.files[cur_file']
         /\ cur_file_rem_size' \in 0 .. cur_file_tot_size'
  BY <1>1, <1>2, DescriptorsAssumption
<1> HIDE DEF rem, subs
<1>14. CASE rem > 0
  <2>1. /\ piece_rem_len' = rem /\ subpieces' = subs
        /\ index' = index /\ pieces' = pieces
    BY <1>1, <1>14, Zenon DEF Finish
  <2>2. cur_file' \in DOMAIN d.files
    <3>1. Start(d, cur_file + 1) # Length(d)
      BY <1>5, <1>6, <1>8, <1>14
    <3> QED
      BY <1>1, <1>4, <1>6, <1>11, <3>1
  <2>3. TypeOK'
    BY <1>1, <1>8, <1>9, <1>11, <2>1, Zenon DEF PiecesInv, TypeOK
  <2>4. InStep'
    <3>1. piece_rem_len' # 0 /\ ~Done'
      BY <1>1, <1>3, <1>8, <1>14, <2>1 DEF Done
    <3>2. At' = Begin(descriptor', index' + 1) - piece_rem_len'
      BY <1>1, <1>8, <1>12, <2>1, Zenon
    <3> QED
      BY <1>1, <1>13, <2>2, <3>1, <3>2, Zenon DEF InStep
  <2>5. CutSoFar'
    BY <1>1, <1>9, <1>12, <2>1, Zenon DEF PiecesInv, CutSoFar
  <2>6. OneFileCut'
    BY <1>1, <1>10, Zenon DEF OneFileCut, SingleFile
  <2> QED
    BY <2>3, <2>4, <2>5, <2>6, Zenon DEF PiecesInv
<1>15. CASE rem = 0
  <2>1. /\ piece_rem_len' = 0 /\ subpieces' = <<>>
        /\ index' = index + 1 /\ pieces' = Append(pieces, subs)
    BY <1>1, <1>15 DEF Finish
  <2>2. Start(d, cur_file + 1) = Begin(d, index + 1)
    BY <1>5, <1>8, <1>15
  <2>3. TypeOK' /\ CutSoFar' /\ OneFileCut'
    <3>1. PICK ss \in Seq(Subpieces) : ss = subs
      BY <1>9, Zenon
    <3>2. subpieces' \in Seq(Subpieces)
      BY <2>1, EmptySeq, Zenon
    <3> QED
      BY <1>1, <1>3, <1>9, <1>10, <1>11, <2>1, <2>2, <3>1, <3>2, PiecePushed, Zenon
  <2>4. InStep'
    <3>1. At' = Begin(descriptor', index')
      BY <1>1, <1>12, <2>1, <2>2, Zenon
    <3>2. ASSUME cur_file' \notin DOMAIN d.files
          PROVE  Done'
      <4>1. cur_file + 1 = Len(d.files) + 1
        BY <1>1, <1>4, <3>2
      <4>2. index + 1 = PiecesCount(d)
        BY <1>5, <1>6, <2>2, <4>1
      <4> QED
        BY <1>1, <2>1, <4>2, Zenon DEF Done
    <3> QED
      BY <1>1, <1>13, <2>1, <3>1, <3>2, Zenon DEF InStep
  <2> QED
    BY <2>3, <2>4, Zenon DEF PiecesInv
<1> QED
  BY <1>8, <1>14, <1>15

\* The rest of the piece goes into the file: the piece is pushed.
LEMMA TakeRestOfPieceStep ==
  ASSUME PiecesInv, TakeRestOfPiece
  PROVE  PiecesInv'
<1> DEFINE d == descriptor
           subs == Append(subpieces, Cut(piece_rem_len))
<1>1. /\ piece_rem_len > 0 /\ cur_file_rem_size > piece_rem_len
      /\ piece_rem_len' = 0 /\ subpieces' = <<>>
      /\ index' = index + 1 /\ pieces' = Append(pieces, subs)
      /\ cur_file_rem_size' = cur_file_rem_size - piece_rem_len
      /\ descriptor' = d /\ cur_file' = cur_file
      /\ cur_file_tot_size' = cur_file_tot_size
  BY DEF TakeRestOfPiece, Finish
<1>2. d \in Descriptors /\ subpieces \in Seq(Subpieces) /\ piece_rem_len \in Nat
  BY Zenon DEF PiecesInv, TypeOK
<1>3. ~Done /\ At = Begin(d, index + 1) - piece_rem_len
      /\ Covers(d, subpieces, Begin(d, index), At)
  BY <1>1, <1>2 DEF PiecesInv, InStep, CutSoFar
<1>4. /\ cur_file \in 1 .. Len(d.files) /\ Len(d.files) \in Nat
      /\ DOMAIN d.files = 1 .. Len(d.files)
      /\ index \in 0 .. PiecesCount(d) - 1
      /\ cur_file_tot_size = d.files[cur_file]
      /\ cur_file_tot_size \in Nat /\ cur_file_rem_size \in 0 .. cur_file_tot_size
      /\ Start(d, cur_file) \in Nat
      /\ At = Start(d, cur_file) + cur_file_tot_size - cur_file_rem_size
  BY <1>3, InAFile, Zenon
<1>5. Begin(d, index) \in Nat /\ Begin(d, index + 1) \in Nat
  BY <1>2, <1>4, PieceFacts, Zenon
<1>6. At + piece_rem_len = Begin(d, index + 1)
  BY <1>2, <1>3, <1>5
<1>7. subs \in Seq(Subpieces)
      /\ Covers(d, subs, Begin(d, index), Begin(d, index + 1))
  <2>1. piece_rem_len <= cur_file_rem_size /\ Begin(d, index) \in Int
    BY <1>1, <1>2, <1>4, <1>5
  <2> QED
    BY <1>2, <1>3, <1>6, <2>1, CutCovers, Zenon
<1>8. ~SingleFile
  BY <1>1, <1>2 DEF PiecesInv, OneFileCut
<1>9. TypeOK' /\ CutSoFar' /\ OneFileCut'
  <2> HIDE DEF subs
  <2>1. PICK ss \in Seq(Subpieces) : ss = subs
    BY <1>7, Zenon
  <2>2. subpieces' \in Seq(Subpieces) /\ cur_file' \in 1 .. Len(d.files) + 1
    BY <1>1, <1>4, EmptySeq
  <2> QED
    BY <1>1, <1>3, <1>7, <1>8, <2>1, <2>2, PiecePushed, Zenon
<1>10. InStep'
  <2>1. cur_file_rem_size' \in 0 .. cur_file_tot_size'
    <3>1. PICK n \in Nat : n = cur_file_tot_size
      BY <1>4, Zenon
    <3>2. PICK r \in 0 .. n : r = cur_file_rem_size
      BY <1>4, <3>1, Zenon
    <3>3. PICK q \in Nat : q = piece_rem_len /\ r > q
      BY <1>1, <1>2, <3>2, Zenon
    <3>4. r - q \in 0 .. n
      BY <3>3
    <3> QED
      BY <1>1, <3>1, <3>2, <3>3, <3>4, Zenon
  <2>2. At' = Begin(descriptor', index')
    <3>1. At' = Start(d, cur_file) + cur_file_tot_size - (cur_file_rem_size - piece_rem_len)
      BY <1>1, <1>4, Zenon DEF At
    <3>2. At' = At + piece_rem_len
      <4>1. /\ Start(d, cur_file) \in Int /\ piece_rem_len \in Int
            /\ cur_file_tot_size \in Int /\ cur_file_rem_size \in Int
            /\ At = Start(d, cur_file) + cur_file_tot_size - cur_file_rem_size
        BY <1>2, <1>4
      <4> QED
        BY <3>1, <4>1
    <3> QED
      BY <1>1, <1>6, <3>2, Zenon
  <2> QED
    BY <1>1, <1>4, <2>1, <2>2, Zenon DEF InStep
<1> QED
  BY <1>9, <1>10, Zenon DEF PiecesInv

\* Every step of the loops keeps the invariant.
LEMMA PiecesStep ==
  ASSUME PiecesInv, Next \/ UNCHANGED vars
  PROVE  PiecesInv'
<1>1. CASE UNCHANGED vars
  BY <1>1, Zenon DEF vars, PiecesInv, TypeOK, InStep, CutSoFar, OneFileCut, At, Done, SingleFile
<1>2. Returned => UNCHANGED vars
  BY Zenon DEF Returned
<1> QED
  BY <1>1, <1>2, WholePieceStep, BeginCuttingStep, TakeRestOfFileStep,
     TakeRestOfPieceStep, Zenon DEF Next

\* What is cut so far is what PiecesCoverFiles speaks of.
LEMMA InvariantCovers == PiecesInv => PiecesCoverFiles
<1> SUFFICES ASSUME PiecesInv, NEW i \in DOMAIN pieces
             PROVE  LET a == (i - 1) * descriptor.piece_length IN
                    Covers(descriptor, pieces[i], a, a + PieceLength(descriptor, i - 1))
  BY Zenon DEF PiecesCoverFiles
<1>1. descriptor \in Descriptors /\ PiecesCount(descriptor) \in Nat
      /\ index \in 0 .. PiecesCount(descriptor) /\ DOMAIN pieces = 1 .. index
  BY CountFacts DEF PiecesInv, TypeOK, CutSoFar
<1>2. i - 1 \in 0 .. PiecesCount(descriptor) - 1 /\ (i - 1) + 1 = i
  BY <1>1
<1>3. /\ Begin(descriptor, i - 1) = (i - 1) * descriptor.piece_length
      /\ Begin(descriptor, (i - 1) + 1)
           = Begin(descriptor, i - 1) + PieceLength(descriptor, i - 1)
  BY <1>1, <1>2, PieceFacts, Zenon
<1>4. Covers(descriptor, pieces[i], Begin(descriptor, i - 1), Begin(descriptor, i))
  BY Zenon DEF PiecesInv, CutSoFar
<1> QED
  BY <1>2, <1>3, <1>4, Zenon

-----------------------------------------------------------------------------
(* Writing the file of a torrent of one file *)

\* A file is as before, but for right bytes behind position b.
RightlyWritten(old, b, bytes, new) ==
  /\ new \in Seq(Nat \union {Blank})
  /\ Len(new) = Len(old)
  /\ \A j \in 1 .. Len(old) :
       /\ new[j] \in {Blank, j - 1}
       /\ old[j] = j - 1 => new[j] = j - 1
  /\ \A k \in 1 .. Len(bytes) : new[b + k] = b + k - 1

\* write_bytes with bytes that belong where they are written: the file keeps
\* its size, a right byte stays right, and every byte written is right.
LEMMA RightBytes ==
  ASSUME NEW old \in Seq(Nat \union {Blank}),
         NEW b \in Nat,
         NEW bytes \in Seq(Nat),
         b + Len(bytes) <= Len(old),
         \A k \in 1 .. Len(bytes) : bytes[k] = b + k - 1,
         \A j \in 1 .. Len(old) : old[j] \in {Blank, j - 1}
  PROVE  RightlyWritten(old, b, bytes, Overwrite(old, b, bytes))
<1> DEFINE new == Overwrite(old, b, bytes)
<1> DEFINE n == Len(old)
           e == b + Len(bytes)
<1>1. n \in Nat /\ Len(bytes) \in Nat /\ e \in Nat /\ e <= n
  OBVIOUS
<1>2. new = [j \in 1 .. n |-> IF j > b /\ j <= e THEN bytes[j - b] ELSE old[j]]
  BY <1>1 DEF Overwrite
<1>3. \A j \in 1 .. n : new[j] = IF j > b /\ j <= e THEN bytes[j - b] ELSE old[j]
  BY <1>2, Zenon
<1>4. ASSUME NEW j \in 1 .. n
      PROVE  new[j] = j - 1 \/ new[j] = old[j]
  <2>1. CASE j > b /\ j <= e
    <3>1. j - b \in 1 .. Len(bytes) /\ b + (j - b) - 1 = j - 1
      BY <1>1, <2>1
    <3>2. bytes[j - b] = b + (j - b) - 1
      BY <3>1, Zenon
    <3> QED
      BY <1>3, <2>1, <3>1, <3>2, Zenon
  <2>2. CASE ~(j > b /\ j <= e)
    BY <1>3, <2>2, Zenon
  <2> QED
    BY <2>1, <2>2, Zenon
<1>5. ASSUME NEW k \in 1 .. Len(bytes)
      PROVE  new[b + k] = b + k - 1
  <2>1. b + k \in 1 .. n /\ b + k > b /\ b + k <= e /\ (b + k) - b = k
    BY <1>1
  <2> QED
    BY <1>3, <2>1, Zenon
<1>6. \A j \in 1 .. n : new[j] \in Nat \union {Blank}
  <2>1. \A j \in 1 .. n : old[j] \in Nat \union {Blank} /\ j - 1 \in Nat
    BY <1>1
  <2> QED
    BY <1>4, <2>1, Zenon
<1>7. new \in Seq(Nat \union {Blank}) /\ Len(new) = n
  BY <1>1, <1>2, <1>6, IsASeq
<1> HIDE DEF new
<1>8. RightlyWritten(old, b, bytes, new)
  BY <1>4, <1>5, <1>7, Zenon DEF RightlyWritten
<1> QED
  BY <1>8, Zenon DEF new

\* A write of the beginning of piece i, or of all of it.
LEMMA Written ==
  ASSUME StorageInv, SingleFile, UNCHANGED vars,
         NEW i \in DOMAIN pieces, NEW bytes \in Seq(Nat),
         Len(bytes) <= PieceLength(descriptor, i - 1),
         \A k \in 1 .. Len(bytes) : bytes[k] = Begin(descriptor, i - 1) + k - 1,
         disk' = [disk EXCEPT ![1] = Overwrite(@, Begin(descriptor, i - 1), bytes)]
  PROVE  /\ disk' \in [{1} -> Seq(Nat \union {Blank})]
         /\ SingleFileIntact'
         /\ \A m \in DOMAIN pieces : OnDisk(m) => OnDisk(m)'
         /\ Len(bytes) = PieceLength(descriptor, i - 1) => OnDisk(i)'
<1> DEFINE d == descriptor
<1>1. d \in Descriptors /\ PiecesCount(d) \in Nat /\ pieces \in Seq(Seq(Subpieces))
      /\ index \in 0 .. PiecesCount(d) /\ DOMAIN pieces = 1 .. index
  BY CountFacts DEF StorageInv, PiecesInv, TypeOK, CutSoFar
<1>2. ASSUME NEW m \in DOMAIN pieces
      PROVE  /\ Begin(d, m - 1) \in Nat
             /\ PieceLength(d, m - 1) \in Nat
             /\ Begin(d, m - 1) + PieceLength(d, m - 1) <= Length(d)
  <2>1. m - 1 \in 0 .. PiecesCount(d) - 1
    BY <1>1
  <2> QED
    BY <1>1, <2>1, PieceFacts, Zenon
<1>3. Length(d) = d.files[1] /\ Length(d) \in Nat
  BY <1>1, OneFileLength, Zenon DEF SingleFile
<1>4. /\ disk \in [{1} -> Seq(Nat \union {Blank})]
      /\ Len(disk[1]) = Length(d)
      /\ \A j \in 1 .. Length(d) : disk[1][j] \in {Blank, j - 1}
  <2>1. disk \in [{1} -> Seq(Nat \union {Blank})] /\ SingleFileIntact
    BY Zenon DEF StorageInv, OneFileStored
  <2>2. DOMAIN disk[1] = 1 .. Len(disk[1])
    BY <2>1
  <2> QED
    BY <1>3, <2>1, <2>2, Zenon DEF SingleFileIntact
<1>5. PICK old \in Seq(Nat \union {Blank}) : old = disk[1]
  BY <1>4, Zenon
<1>6. PICK b \in Nat : b = Begin(d, i - 1)
  BY <1>2, Zenon
<1>7. PICK new : new = Overwrite(old, b, bytes)
  BY Zenon
<1>8. disk' = [disk EXCEPT ![1] = new] /\ disk'[1] = new
  BY <1>4, <1>5, <1>6, <1>7, Zenon
<1>9. b + Len(bytes) <= Len(old) /\ Len(old) = Length(d) /\ Len(bytes) \in Nat
  BY <1>2, <1>3, <1>4, <1>5, <1>6
<1>10. /\ new \in Seq(Nat \union {Blank})
       /\ Len(new) = Length(d)
       /\ \A j \in 1 .. Length(d) :
            /\ new[j] \in {Blank, j - 1}
            /\ old[j] = j - 1 => new[j] = j - 1
       /\ \A k \in 1 .. Len(bytes) : new[b + k] = b + k - 1
  <2>1. \A k \in 1 .. Len(bytes) : bytes[k] = b + k - 1
    BY <1>6, Zenon
  <2>2. \A j \in 1 .. Len(old) : old[j] \in {Blank, j - 1}
    BY <1>4, <1>5, Zenon
  <2> QED
    <3>1. RightlyWritten(old, b, bytes, Overwrite(old, b, bytes))
      BY <1>9, <2>1, <2>2, RightBytes, Zenon
    <3> QED
      BY <1>7, <1>9, <3>1, Zenon DEF RightlyWritten
<1>11. disk' \in [{1} -> Seq(Nat \union {Blank})]
  BY <1>4, <1>8, <1>10, Zenon
<1>12. SingleFileIntact'
  <2>1. DOMAIN new = 1 .. Length(d)
    BY <1>10
  <2>2. descriptor' = d
    BY Zenon DEF vars
  <2> QED
    BY <1>3, <1>8, <1>10, <2>1, <2>2, Zenon DEF SingleFileIntact
<1>13. ASSUME NEW m \in DOMAIN pieces, OnDisk(m)
       PROVE  OnDisk(m)'
  <2>1. ASSUME NEW j \in 1 .. PieceLength(d, m - 1)
        PROVE  new[Begin(d, m - 1) + j] = (Begin(d, m - 1) + j) - 1
    <3>1. Begin(d, m - 1) + j \in 1 .. Length(d)
      <4>1. PICK x \in Nat, y \in Nat, l \in Nat :
              x = Begin(d, m - 1) /\ y = PieceLength(d, m - 1) /\ l = Length(d) /\ x + y <= l
        BY <1>2, <1>3, Zenon
      <4>2. \A z \in 1 .. y : x + z \in 1 .. l
        BY <4>1
      <4> QED
        BY <4>1, <4>2, Zenon
    <3>2. old[Begin(d, m - 1) + j] = (Begin(d, m - 1) + j) - 1
      BY <1>5, <1>13, Zenon DEF OnDisk
    <3> QED
      BY <1>10, <3>1, <3>2, Zenon
  <2> QED
    BY <1>8, <2>1, Zenon DEF OnDisk, vars
<1>14. Len(bytes) = PieceLength(d, i - 1) => OnDisk(i)'
  <2>1. SUFFICES ASSUME Len(bytes) = PieceLength(d, i - 1) PROVE OnDisk(i)'
    BY Zenon
  <2>2. \A j \in 1 .. PieceLength(d, i - 1) : disk'[1][b + j] = b + j - 1
    BY <1>8, <1>10, <2>1, Zenon
  <2>3. descriptor' = d
    BY Zenon DEF vars
  <2> QED
    BY <1>6, <2>2, <2>3 DEF OnDisk
<1> QED
  BY <1>11, <1>12, <1>13, <1>14, Zenon

-----------------------------------------------------------------------------
(* The steps of the workers *)

\* The state in which touch leaves the files.
LEMMA StorageStart == StorageInit => StorageInv
<1> SUFFICES ASSUME StorageInit PROVE StorageInv
  BY Zenon
<1>1. PiecesInv
  BY PiecesInit, Zenon DEF StorageInit
<1>2. ASSUME SingleFile
      PROVE  /\ disk \in [{1} -> Seq(Nat \union {Blank})]
             /\ SingleFileIntact
  <2>1. descriptor \in Descriptors /\ Len(descriptor.files) = 1
    BY <1>1, <1>2, Zenon DEF PiecesInv, TypeOK, SingleFile
  <2>2. DOMAIN descriptor.files = {1} /\ descriptor.files[1] \in Nat
    BY <2>1, DescriptorsAssumption
  <2>3. disk = [f \in {1} |-> Touched(descriptor.files[f])]
    BY <2>2, Zenon DEF StorageInit
  <2>4. PICK n \in Nat : n = descriptor.files[1]
    BY <2>2, Zenon
  <2>5. /\ Touched(n) \in Seq(Nat \union {Blank}) /\ Len(Touched(n)) = n
        /\ \A j \in DOMAIN Touched(n) : Touched(n)[j] = Blank
    BY IsASeq DEF Touched
  <2>6. disk[1] = Touched(n)
    BY <2>3, <2>4, Zenon
  <2> QED
    BY <2>3, <2>4, <2>5, <2>6, Zenon DEF SingleFileIntact
<1>3. OneFileStored
  BY <1>2 DEF StorageInit, OneFileStored, SavingSound, None
<1> QED
  BY <1>1, <1>3, Zenon DEF StorageInv

\* The loops of pieces run before anything is saved, and disturb nothing.
LEMMA PrepareStep ==
  ASSUME StorageInv, Prepare
  PROVE  StorageInv'
<1>1. Next /\ disk' = disk /\ saving' = saving /\ saved' = saved /\ lost' = lost
  BY Zenon DEF Prepare, storageVars
<1>2. PiecesInv'
  BY <1>1, PiecesStep, Zenon DEF StorageInv
<1>3. descriptor' = descriptor
  BY <1>1, Zenon DEF Next, WholePiece, BeginCutting, TakeRestOfFile, TakeRestOfPiece,
     Returned, vars
<1>4. DOMAIN pieces \subseteq DOMAIN pieces'
  <2>1. pieces \in Seq(Seq(Subpieces)) /\ pieces' \in Seq(Seq(Subpieces))
        /\ Len(pieces) = index /\ Len(pieces') = index' /\ index \in Nat
    BY <1>2 DEF StorageInv, PiecesInv, TypeOK, CutSoFar
  <2>2. index' = index \/ index' = index + 1
    BY <1>1, Zenon DEF Next, WholePiece, BeginCutting, TakeRestOfFile, TakeRestOfPiece,
       Finish, Returned, vars
  <2> QED
    BY <2>1, <2>2
<1>5. OneFileStored'
  BY <1>1, <1>3, <1>4, Zenon
  DEF StorageInv, OneFileStored, SingleFile, SingleFileIntact, SavingSound, Stored, OnDisk
<1> QED
  BY <1>2, <1>5, Zenon DEF StorageInv

\* What a step of a worker keeps for a torrent of one file it keeps for all.
LEMMA WorkerStep ==
  ASSUME StorageInv, UNCHANGED vars,
         SingleFile => OneFileStored'
  PROVE  StorageInv'
<1>1. PiecesInv'
  BY PiecesStep, Zenon DEF StorageInv
<1>2. OneFileStored'
  <2>1. SingleFile' => SingleFile
    BY Zenon DEF SingleFile, vars
  <2> QED
    BY <2>1, Zenon DEF OneFileStored
<1> QED
  BY <1>1, <1>2, Zenon DEF StorageInv

\* A worker begins to save a piece.
LEMMA BeginSaveStep ==
  ASSUME StorageInv, NEW w \in Workers, NEW i \in DOMAIN pieces, BeginSave(w, i)
  PROVE  StorageInv'
<1>1. UNCHANGED vars /\ disk' = disk /\ saved' = saved /\ lost' = lost
      /\ saving' = [saving EXCEPT ![w] = [piece |-> i, written |-> 0]]
  BY Zenon DEF BeginSave
<1>2. ASSUME SingleFile PROVE OneFileStored'
  <2>1. i \in Nat
    BY DEF StorageInv, PiecesInv, TypeOK
  <2>2. saving \in [Workers -> [piece : Nat, written : 0 .. 1]]
    BY <1>2, Zenon DEF StorageInv, OneFileStored
  <2>3. saving' \in [Workers -> [piece : Nat, written : 0 .. 1]]
    BY <1>1, <2>1, <2>2
  <2>4. /\ saving'[w].piece = i /\ saving'[w].written = 0
        /\ \A v \in Workers \ {w} : saving'[v] = saving[v]
    BY <1>1, <2>2, Zenon
  <2>5. descriptor' = descriptor /\ pieces' = pieces
    BY <1>1, Zenon DEF vars
  <2>6. SingleFileIntact' /\ \A m : Stored(m) => Stored(m)'
    BY <1>1, <1>2, <2>5, Zenon
    DEF StorageInv, OneFileStored, SingleFile, SingleFileIntact, Stored, OnDisk
  <2>7. ASSUME NEW v \in Workers
        PROVE  SavingSound(v)'
    <3>1. CASE v = w
      BY <2>4, <2>5, <3>1 DEF SavingSound
    <3>2. CASE v # w
      BY <1>1, <1>2, <2>4, <2>5, <3>2, Zenon
      DEF StorageInv, OneFileStored, SavingSound, Stored, OnDisk, None
    <3> QED
      BY <3>1, <3>2, Zenon
  <2> QED
    BY <1>1, <1>2, <2>3, <2>5, <2>6, <2>7, Zenon DEF StorageInv, OneFileStored
<1> QED
  BY <1>1, <1>2, WorkerStep, Zenon

\* What save writes for a piece of a torrent of one file.
LEMMA ContentFacts ==
  ASSUME StorageInv, NEW i \in DOMAIN pieces
  PROVE  /\ Content(i) \in Seq(Nat)
         /\ Len(Content(i)) = PieceLength(descriptor, i - 1)
         /\ Len(Content(i)) \in Nat
         /\ \A k \in 1 .. Len(Content(i)) : Content(i)[k] = Begin(descriptor, i - 1) + k - 1
<1>1. descriptor \in Descriptors /\ PiecesCount(descriptor) \in Nat
      /\ index \in 0 .. PiecesCount(descriptor) /\ DOMAIN pieces = 1 .. index
  BY CountFacts DEF StorageInv, PiecesInv, TypeOK, CutSoFar
<1>2. i - 1 \in 0 .. PiecesCount(descriptor) - 1
  BY <1>1
<1>3. /\ Begin(descriptor, i - 1) = (i - 1) * descriptor.piece_length
      /\ Begin(descriptor, i - 1) \in Nat /\ PieceLength(descriptor, i - 1) \in Nat
  BY <1>1, <1>2, PieceFacts, Zenon
<1>4. PICK b \in Nat, n \in Nat :
        b = Begin(descriptor, i - 1) /\ n = PieceLength(descriptor, i - 1)
  BY <1>3, Zenon
<1>5. Content(i) = [k \in 1 .. n |-> b + k - 1]
  BY <1>3, <1>4, Zenon DEF Content
<1>6. \A k \in 1 .. n : b + k - 1 \in Nat
  BY <1>4
<1>7. Content(i) \in Seq(Nat) /\ Len(Content(i)) = n
  BY <1>4, <1>5, <1>6, IsASeq
<1> QED
  BY <1>4, <1>5, <1>7, Zenon

\* The worker that saves a piece of a torrent of one file, and has still to
\* write, writes the only subpiece of the piece.
LEMMA SavesOnly ==
  ASSUME StorageInv, SingleFile, NEW w \in Workers, saving[w] # None
  PROVE  /\ saving \in [Workers -> [piece : Nat, written : 0 .. 1]]
         /\ saving[w].piece \in DOMAIN pieces
         /\ Len(pieces[saving[w].piece]) = 1
         /\ saving[w].written < Len(pieces[saving[w].piece]) =>
              /\ saving[w].written = 0
              /\ pieces[saving[w].piece][saving[w].written + 1].file = 1
              /\ pieces[saving[w].piece][saving[w].written + 1].offset
                   = Begin(descriptor, saving[w].piece - 1)
         /\ saving[w].written = 1 => Stored(saving[w].piece)
<1>1. saving \in [Workers -> [piece : Nat, written : 0 .. 1]] /\ SavingSound(w)
  BY Zenon DEF StorageInv, OneFileStored
<1>2. /\ saving[w].piece \in DOMAIN pieces
      /\ saving[w].written = 1 => Stored(saving[w].piece)
  BY <1>1, Zenon DEF SavingSound
<1>3. PICK i \in DOMAIN pieces : i = saving[w].piece
  BY <1>2, Zenon
<1>4. pieces[i] = <<OnlySubpiece(descriptor, i)>>
  BY Zenon DEF StorageInv, PiecesInv, OneFileCut
<1>5. Len(pieces[i]) = 1 /\ pieces[i][0 + 1] = OnlySubpiece(descriptor, i)
  BY <1>4
<1>6. saving[w].written \in 0 .. 1
  BY <1>1, Zenon
<1>7. saving[w].written < 1 => saving[w].written = 0
  BY <1>6
<1> QED
  BY <1>1, <1>2, <1>3, <1>5, <1>7 DEF OnlySubpiece

\* A write of save keeps the invariant: of a whole subpiece, after which the
\* piece is on disk, or of its beginning, after which the worker gives up or
\* the piece is lost.
LEMMA WriteStep ==
  ASSUME StorageInv, SingleFile, NEW w \in Workers, UNCHANGED vars, saved' = saved,
         NEW i \in DOMAIN pieces, NEW bytes \in Seq(Nat),
         saving[w] # None, saving[w].piece = i,
         Len(bytes) <= PieceLength(descriptor, i - 1),
         \A k \in 1 .. Len(bytes) : bytes[k] = Begin(descriptor, i - 1) + k - 1,
         disk' = [disk EXCEPT ![1] = Overwrite(@, Begin(descriptor, i - 1), bytes)],
         lost \subseteq lost',
         \/ saving' = [saving EXCEPT ![w] = None]
         \/ /\ saving' = [saving EXCEPT ![w].written = @ + 1]
            /\ saving[w].written = 0
            /\ i \in lost' \/ Len(bytes) = PieceLength(descriptor, i - 1)
  PROVE  OneFileStored'
<1>1. /\ disk' \in [{1} -> Seq(Nat \union {Blank})]
      /\ SingleFileIntact'
      /\ \A m \in DOMAIN pieces : Stored(m) => Stored(m)'
      /\ Len(bytes) = PieceLength(descriptor, i - 1) => OnDisk(i)'
  BY Written, Zenon DEF Stored
<1>2. pieces' = pieces /\ descriptor' = descriptor
  BY Zenon DEF vars
<1>3. saving \in [Workers -> [piece : Nat, written : 0 .. 1]]
      /\ \A v \in Workers : SavingSound(v)
      /\ saved \in SUBSET DOMAIN pieces /\ \A m \in saved : Stored(m)
  BY Zenon DEF StorageInv, OneFileStored
<1>4. saving' \in [Workers -> [piece : Nat, written : 0 .. 1]]
  <2>1. CASE saving' = [saving EXCEPT ![w] = None]
    BY <1>3, <2>1 DEF None
  <2>2. CASE /\ saving' = [saving EXCEPT ![w].written = @ + 1]
             /\ saving[w].written = 0
    <3>1. saving[w] \in [piece : Nat, written : 0 .. 1]
      BY <1>3, Zenon
    <3>2. saving[w].written + 1 \in 0 .. 1
      BY <2>2
    <3>3. [saving[w] EXCEPT !.written = @ + 1] \in [piece : Nat, written : 0 .. 1]
      BY <3>1, <3>2, Zenon
    <3> QED
      BY <1>3, <2>2, <3>3, Zenon
  <2> QED
    BY <2>1, <2>2, Zenon
<1>5. ASSUME NEW v \in Workers
      PROVE  SavingSound(v)'
  <2>1. CASE v # w
    <3>1. saving'[v] = saving[v]
      BY <1>3, <2>1, Zenon
    <3>2. SUFFICES ASSUME saving[v] # None
                   PROVE  /\ saving[v].piece \in DOMAIN pieces
                          /\ saving[v].written = 1 =>
                               \E m \in DOMAIN pieces : m = saving[v].piece /\ Stored(m)'
      BY <1>2, <3>1 DEF SavingSound, None, Stored, OnDisk
    <3> QED
      BY <1>1, <1>3, <3>2, Zenon DEF SavingSound
  <2>2. CASE v = w /\ saving' = [saving EXCEPT ![w] = None]
    BY <1>3, <2>2, Zenon DEF SavingSound, None
  <2>3. CASE /\ v = w
             /\ saving' = [saving EXCEPT ![w].written = @ + 1]
             /\ i \in lost' \/ Len(bytes) = PieceLength(descriptor, i - 1)
    <3>1. saving'[w].piece = i
      BY <1>3, <2>3, Zenon
    <3>2. Stored(i)'
      BY <1>1, <2>3, Zenon DEF Stored
    <3> QED
      BY <1>2, <2>3, <3>1, <3>2 DEF SavingSound, Stored, OnDisk
  <2> QED
    BY <2>1, <2>2, <2>3, Zenon
<1> QED
  BY <1>1, <1>2, <1>3, <1>4, <1>5, Zenon DEF OneFileStored

\* A worker writes the next subpiece.
LEMMA WriteSubpieceStep ==
  ASSUME StorageInv, NEW w \in Workers, WriteSubpiece(w)
  PROVE  StorageInv'
<1>1. UNCHANGED vars /\ saved' = saved /\ lost' = lost /\ saving[w] # None
      /\ saving[w].written < Len(pieces[saving[w].piece])
      /\ saving' = [saving EXCEPT ![w].written = @ + 1]
  BY Zenon DEF WriteSubpiece
<1>2. ASSUME SingleFile PROVE OneFileStored'
  <2>1. PICK i \in DOMAIN pieces : i = saving[w].piece
    BY <1>1, <1>2, SavesOnly, Zenon
  <2>2. saving[w].written = 0
    BY <1>1, <1>2, SavesOnly, Zenon
  <2>3. disk' = [disk EXCEPT ![1] = Overwrite(@, Begin(descriptor, i - 1), Content(i))]
    BY <1>1, <1>2, <2>1, SavesOnly, Zenon DEF WriteSubpiece
  <2>4. PICK bytes \in Seq(Nat) : bytes = Content(i)
    BY ContentFacts, Zenon
  <2>5. /\ Len(bytes) = PieceLength(descriptor, i - 1)
        /\ Len(bytes) <= PieceLength(descriptor, i - 1)
        /\ \A k \in 1 .. Len(bytes) : bytes[k] = Begin(descriptor, i - 1) + k - 1
    BY <2>4, ContentFacts
  <2> QED
    BY <1>1, <1>2, <2>1, <2>2, <2>3, <2>4, <2>5, WriteStep, Zenon
<1> QED
  BY <1>1, <1>2, WorkerStep, Zenon

\* A worker's write fails after n bytes, seen or unseen.
LEMMA WriteFailsStep ==
  ASSUME StorageInv, NEW w \in Workers, NEW n \in Nat, WriteFails(w, n) \/ FlushFails(w, n)
  PROVE  StorageInv'
<1>1. UNCHANGED vars /\ saved' = saved /\ saving[w] # None
      /\ saving[w].written < Len(pieces[saving[w].piece])
      /\ n < Len(Content(saving[w].piece))
      /\ lost \subseteq lost'
      /\ \/ saving' = [saving EXCEPT ![w] = None]
         \/ /\ saving' = [saving EXCEPT ![w].written = @ + 1]
            /\ saving[w].piece \in lost'
  BY Zenon DEF WriteFails, FlushFails
<1>2. ASSUME SingleFile PROVE OneFileStored'
  <2>1. PICK i \in DOMAIN pieces : i = saving[w].piece
    BY <1>1, <1>2, SavesOnly, Zenon
  <2>2. disk' = [disk EXCEPT ![1] = Overwrite(@, Begin(descriptor, i - 1),
                                              SubSeq(Content(i), 1, n))]
    BY <1>1, <1>2, <2>1, SavesOnly, Zenon DEF WriteFails, FlushFails
  <2>3. PICK content \in Seq(Nat) : content = Content(i)
    BY ContentFacts, Zenon
  <2>4. /\ Len(content) = PieceLength(descriptor, i - 1)
        /\ Len(content) \in Nat
        /\ \A k \in 1 .. Len(content) : content[k] = Begin(descriptor, i - 1) + k - 1
    BY <2>3, ContentFacts, Zenon
  <2>5. n < Len(content)
    BY <1>1, <2>1, <2>3, Zenon
  <2>6. PICK bytes \in Seq(Nat) : bytes = SubSeq(content, 1, n)
    <3>1. \A k \in 1 .. n : content[k] \in Nat
      BY <2>4, <2>5
    <3>2. SubSeq(content, 1, n) \in Seq(Nat)
      BY <3>1, SubSeqProperties
    <3> QED
      BY <3>2, Zenon
  <2>7. Len(bytes) = n /\ \A k \in 1 .. n : bytes[k] = content[k]
    BY <2>4, <2>5, <2>6
  <2>8. /\ Len(bytes) <= PieceLength(descriptor, i - 1)
        /\ \A k \in 1 .. Len(bytes) : bytes[k] = Begin(descriptor, i - 1) + k - 1
    BY <2>4, <2>5, <2>7
  <2>9. saving[w].written = 0
    BY <1>1, <1>2, SavesOnly, Zenon
  <2> QED
    BY <1>1, <1>2, <2>1, <2>2, <2>3, <2>6, <2>8, <2>9, WriteStep, Zenon
<1> QED
  BY <1>1, <1>2, WorkerStep, Zenon

\* save returns true.
LEMMA EndSaveStep ==
  ASSUME StorageInv, NEW w \in Workers, EndSave(w)
  PROVE  StorageInv'
<1>1. UNCHANGED vars /\ disk' = disk /\ lost' = lost /\ saving[w] # None
      /\ saving[w].written = Len(pieces[saving[w].piece])
      /\ saved' = saved \union {saving[w].piece}
      /\ saving' = [saving EXCEPT ![w] = None]
  BY Zenon DEF EndSave
<1>2. ASSUME SingleFile PROVE OneFileStored'
  <2>1. /\ saving \in [Workers -> [piece : Nat, written : 0 .. 1]]
        /\ saving[w].piece \in DOMAIN pieces
        /\ Stored(saving[w].piece)
    BY <1>1, <1>2, SavesOnly, Zenon
  <2>2. pieces' = pieces /\ descriptor' = descriptor
    BY <1>1, Zenon DEF vars
  <2>3. SingleFileIntact' /\ disk' \in [{1} -> Seq(Nat \union {Blank})]
    BY <1>1, <1>2, <2>2, Zenon DEF StorageInv, OneFileStored, SingleFile, SingleFileIntact
  <2>4. \A m : Stored(m) => Stored(m)'
    BY <1>1, <2>2, Zenon DEF Stored, OnDisk
  <2>5. saving' \in [Workers -> [piece : Nat, written : 0 .. 1]]
    BY <1>1, <2>1 DEF None
  <2>6. ASSUME NEW v \in Workers PROVE SavingSound(v)'
    <3>1. SavingSound(v)
      BY <1>2, Zenon DEF StorageInv, OneFileStored
    <3> QED
      BY <1>1, <2>1, <2>2, <3>1, Zenon DEF SavingSound, Stored, OnDisk, None
  <2>7. saved' \in SUBSET DOMAIN pieces' /\ \A m \in saved' : Stored(m)'
    BY <1>1, <1>2, <2>1, <2>2, <2>4, Zenon DEF StorageInv, OneFileStored
  <2> QED
    BY <2>3, <2>5, <2>6, <2>7, Zenon DEF OneFileStored
<1> QED
  BY <1>1, <1>2, WorkerStep, Zenon

-----------------------------------------------------------------------------
(* Theorems *)

\* The invariant of the loops of Torrent::pieces and of the saves.
THEOREM StorageInvariant == StorageSpec => []StorageInv
<1>1. ASSUME StorageInv, [StorageNext]_<<vars, storageVars>>
      PROVE  StorageInv'
  <2>1. CASE UNCHANGED <<vars, storageVars>>
    <3>1. UNCHANGED vars /\ disk' = disk /\ saving' = saving /\ saved' = saved /\ lost' = lost
      BY <2>1, Zenon DEF storageVars
    <3>2. SingleFile => OneFileStored'
      BY <1>1, <3>1, Zenon DEF StorageInv, OneFileStored, SingleFile, SingleFileIntact,
         SavingSound, Stored, OnDisk, None, vars
    <3> QED
      BY <1>1, <3>1, <3>2, WorkerStep, Zenon
  <2>2. CASE Prepare
    BY <1>1, <2>2, PrepareStep, Zenon
  <2>3. ASSUME NEW w \in Workers,
               \/ \E i \in DOMAIN pieces : BeginSave(w, i)
               \/ WriteSubpiece(w)
               \/ \E n \in 0 .. descriptor.piece_length : WriteFails(w, n) \/ FlushFails(w, n)
               \/ EndSave(w)
        PROVE  StorageInv'
    BY <1>1, <2>3, BeginSaveStep, WriteSubpieceStep, WriteFailsStep, EndSaveStep
  <2> QED
    BY <1>1, <2>1, <2>2, <2>3, Zenon DEF StorageNext
<1> QED
  BY <1>1, StorageStart, PTL DEF StorageSpec

\* Torrent::pieces cuts every piece into subpieces that lie inside the files
\* and cover exactly the bytes of the piece, in order, for files and pieces
\* of any length and whatever is read behind the last file.
THEOREM PiecesAlwaysCover == StorageSpec => []PiecesCoverFiles
<1>1. StorageInv => PiecesCoverFiles
  BY InvariantCovers, Zenon DEF StorageInv
<1> QED
  BY <1>1, StorageInvariant, PTL

\* In a torrent of one file, the bytes of every piece that process has
\* reported as completed are on disk, for any number of workers, unless
\* write_bytes reported a write of that very piece that was not done.
THEOREM SingleFileStaysSaved == StorageSpec => []SingleFileSaved
<1>1. StorageInv => SingleFileSaved
  <2> SUFFICES ASSUME StorageInv, SingleFile, NEW i \in saved \ lost,
                      NEW s \in Range(pieces[i]), NEW j \in 1 .. s.len
               PROVE  disk[s.file][s.offset + j] = Position(descriptor, s) + j - 1
    BY Zenon DEF SingleFileSaved, SavedIsOnDisk
  <2>1. i \in DOMAIN pieces /\ OnDisk(i)
    BY Zenon DEF StorageInv, OneFileStored, Stored
  <2>2. s = OnlySubpiece(descriptor, i)
    BY <2>1 DEF StorageInv, PiecesInv, OneFileCut, Range
  <2>3. s.file = 1 /\ s.offset = Begin(descriptor, i - 1)
        /\ s.len = PieceLength(descriptor, i - 1)
    BY <2>2, Zenon DEF OnlySubpiece
  <2>4. disk[1][Begin(descriptor, i - 1) + j] = (Begin(descriptor, i - 1) + j) - 1
    BY <2>1, <2>3, Zenon DEF OnDisk
  <2>5. Start(descriptor, 1) = 0
    BY StartNext, Zenon DEF StorageInv, PiecesInv, TypeOK
  <2>6. Begin(descriptor, i - 1) \in Nat
    <3>1. descriptor \in Descriptors /\ PiecesCount(descriptor) \in Nat
          /\ index \in 0 .. PiecesCount(descriptor) /\ DOMAIN pieces = 1 .. index
      BY CountFacts DEF StorageInv, PiecesInv, TypeOK, CutSoFar
    <3>2. i - 1 \in 0 .. PiecesCount(descriptor) - 1
      BY <2>1, <3>1
    <3> QED
      BY <3>1, <3>2, PieceFacts, Zenon
  <2>7. Position(descriptor, s) = Begin(descriptor, i - 1)
    BY <2>3, <2>5, <2>6 DEF Position
  <2>8. (Begin(descriptor, i - 1) + j) - 1 = Begin(descriptor, i - 1) + j - 1
    BY <2>6
  <2> QED
    BY <2>3, <2>4, <2>7, <2>8, Zenon
<1> QED
  BY <1>1, StorageInvariant, PTL

\* In a torrent of one file, no write of any worker, failed or not, changes
\* the size of the file or leaves a byte where it does not belong.
THEOREM SingleFileStaysIntact == StorageSpec => []SingleFileIntact
<1>1. StorageInv => SingleFileIntact
  BY Zenon DEF StorageInv, OneFileStored, SingleFileIntact
<1> QED
  BY <1>1, StorageInvariant, PTL

-----------------------------------------------------------------------------
(* prepare_torrent_files *)

\* The names " COPY" can make suffice: every call finds one that is free.  The
\* run prepare_cleanup shows that the theorems need it.
NamesSuffice == MaxLeft + MaxAdds <= MAX_COPY_ATTEMPTS + 1

PrepareTypeOK ==
  /\ add \in 0 .. MaxAdds
  /\ torrent \in Torrents
  /\ attempts \in Nat
  /\ touched \in 0 .. Len(torrent.files)
  /\ phase \in {"idle", "probing", "making", "touching", "cleaning"}
  /\ \A f \in DOMAIN folders : f[2] \in Nat

\* The largest number of suffixes of a folder made before call n.
Used(n) == \A f \in DOMAIN folders : f[2] < MaxLeft + n - 1

\* Each call adds at most one folder, with one suffix more than those before
\* it, so that the loop of a call stops at a free name.
NamesBounded ==
  /\ Used(add + 1)
  /\ phase \in {"probing", "making"} =>
       /\ add > 0 /\ Used(add) /\ attempts <= MaxLeft + add - 1
       /\ touched = 0
  /\ phase = "making" => TooLong(Base) \/ ~Exists(Base)

\* The folder of the current call is its own: all that is in it was created by
\* the call, and no torrent of the session has it.
OwnFolder ==
  phase \in {"touching", "cleaning"} =>
    /\ Exists(Base)
    /\ \A g \in DOMAIN folders[Base] : folders[Base][g] = add
    /\ \A p \in prepared : p.folder # Base
    /\ \A k \in 1 .. touched : torrent.files[k] \in DOMAIN folders[Base]

PrepareInv ==
  PrepareTypeOK /\ NamesBounded /\ OwnFolder /\ FoldersDistinct /\ FilesStay

-----------------------------------------------------------------------------

\* Whatever earlier sessions left, nothing is prepared yet.
LEMMA NothingPrepared ==
  ASSUME PrepareInit
  PROVE  PrepareInv
<1> USE PrepareAssumption
<1>1. PICK n \in 0 .. MaxLeft : folders = Left(n)
  BY Zenon DEF PrepareInit
<1>2. \A f \in DOMAIN folders : f[2] \in 0 .. n - 1
  BY <1>1 DEF Left
<1>3. PrepareTypeOK
  BY <1>2 DEF PrepareInit, PrepareTypeOK
<1>4. NamesBounded
  BY <1>2 DEF PrepareInit, NamesBounded, Used
<1>5. OwnFolder /\ FoldersDistinct /\ FilesStay
  BY Zenon DEF PrepareInit, OwnFolder, FoldersDistinct, FilesStay
<1>6. QED
  BY <1>3, <1>4, <1>5, Zenon DEF PrepareInv

\* A call begins, and looks for a name: no folder changes.
LEMMA LoopSteps ==
  ASSUME NamesSuffice, PrepareInv, (\E t \in Torrents : BeginPrepare(t)) \/ Probe
  PROVE  PrepareInv'
<1> USE PrepareAssumption DEF PrepareInv
<1>1. CASE \E t \in Torrents : BeginPrepare(t)
  <2>1. PrepareTypeOK'
    BY <1>1 DEF BeginPrepare, PrepareTypeOK
  <2>2. NamesBounded'
    BY <1>1 DEF BeginPrepare, PrepareTypeOK, NamesBounded, Used
  <2>3. (OwnFolder /\ FoldersDistinct /\ FilesStay)'
    BY <1>1, Zenon DEF BeginPrepare, OwnFolder, FoldersDistinct, FilesStay
  <2>4. QED
    BY <2>1, <2>2, <2>3, Zenon
<1>2. CASE Probe
  <2>1. Exists(Base) => attempts < MaxLeft + add - 1
    BY <1>2, Zenon DEF Probe, Exists, Base, NamesBounded, Used
  <2>2. Exists(Base) => attempts < MAX_COPY_ATTEMPTS
    BY <2>1 DEF NamesSuffice, PrepareTypeOK
  <2>3. PrepareTypeOK'
    BY <1>2 DEF Probe, PrepareTypeOK
  <2>4. NamesBounded'
    <3>1. Used(add)' /\ Used(add + 1)' /\ add' > 0 /\ touched' = 0
      BY <1>2, Zenon DEF Probe, NamesBounded, Used
    <3>2. attempts' <= MaxLeft + add' - 1
      BY <1>2, <2>1 DEF Probe, PrepareTypeOK, NamesBounded
    <3>3. phase' = "making" => attempts' = attempts /\ (TooLong(Base) \/ ~Exists(Base))
      BY <1>2, <2>2 DEF Probe
    <3>4. phase' = "making" => TooLong(Base)' \/ ~Exists(Base)'
      BY <1>2, <3>3, Zenon DEF Probe, TooLong, Exists, Base
    <3> QED
      BY <3>1, <3>2, <3>4, Zenon DEF NamesBounded
  <2>5. (OwnFolder /\ FoldersDistinct /\ FilesStay)'
    BY <1>2, Zenon DEF Probe, OwnFolder, FoldersDistinct, FilesStay
  <2>6. QED
    BY <2>3, <2>4, <2>5, Zenon
<1>3. QED
  BY <1>1, <1>2, Zenon

\* Steps that leave the folders of the prepared torrents as they are.
LEMMA PreparedKept ==
  ASSUME FoldersDistinct, FilesStay, UNCHANGED prepared,
         \A p \in prepared : p.folder \in DOMAIN folders /\ p.folder # Base,
         \A f \in DOMAIN folders :
           f # Base => f \in DOMAIN folders' /\ folders'[f] = folders[f]
  PROVE  FoldersDistinct' /\ FilesStay'
BY Zenon DEF FoldersDistinct, FilesStay

\* create_directories makes a folder that did not exist.
LEMMA MakeFolderStep ==
  ASSUME PrepareInv, MakeFolder
  PROVE  PrepareInv'
<1> USE PrepareAssumption DEF PrepareInv, MakeFolder
<1>1. ~Exists(Base)
  BY Zenon DEF NamesBounded
<1>2. /\ DOMAIN folders' = DOMAIN folders \union {Base}
      /\ folders'[Base] = <<>>
      /\ \A f \in DOMAIN folders : folders'[f] = folders[f]
  BY <1>1, Zenon DEF Exists
<1>3. DOMAIN folders'[Base] = {}
  BY <1>2
<1>4. \A p \in prepared : p.folder \in DOMAIN folders /\ p.folder # Base
  BY <1>1, Zenon DEF FilesStay, Exists
<1>5. PrepareTypeOK'
  BY <1>2 DEF PrepareTypeOK, Base
<1>6. NamesBounded'
  BY <1>2 DEF PrepareTypeOK, NamesBounded, Used, Base
<1>7. OwnFolder'
  BY <1>2, <1>3, <1>4 DEF OwnFolder, NamesBounded, Exists, Base
<1>8. FoldersDistinct' /\ FilesStay'
  BY <1>2, <1>4, PreparedKept, Zenon
<1>9. QED
  BY <1>5, <1>6, <1>7, <1>8, Zenon

\* A file is created in the folder of the call, for good or before a failure.
LEMMA TouchSteps ==
  ASSUME PrepareInv, Touch \/ TouchFails
  PROVE  PrepareInv'
<1> USE PrepareAssumption DEF PrepareInv
<1> DEFINE file == torrent.files[touched + 1]
<1>1. /\ phase = "touching" /\ touched < Len(torrent.files)
      /\ UNCHANGED <<add, torrent, attempts, prepared>>
      /\ \/ Touch /\ folders' = WithFile(file) /\ touched' = touched + 1 /\ phase' = phase
         \/ /\ folders' = folders \/ folders' = WithFile(file)
            /\ touched' = touched /\ phase' = "cleaning"
  BY Zenon DEF Touch, TouchFails
<1>2. Exists(Base)
  BY <1>1, Zenon DEF OwnFolder
<1>3. /\ DOMAIN folders' = DOMAIN folders
      /\ \A f \in DOMAIN folders : f # Base => folders'[f] = folders[f]
  BY <1>1, <1>2, Zenon DEF WithFile, Exists
<1>4. /\ DOMAIN folders[Base] \subseteq DOMAIN folders'[Base]
      /\ \A g \in DOMAIN folders'[Base] : folders'[Base][g] = add
      /\ touched' = touched + 1 => file \in DOMAIN folders'[Base]
  BY <1>1, <1>2 DEF WithFile, Exists, OwnFolder, PrepareTypeOK
<1>5. \A p \in prepared : p.folder \in DOMAIN folders /\ p.folder # Base
  BY <1>1, Zenon DEF OwnFolder, FilesStay
<1>6. torrent.files \in Seq(Range(torrent.files))
  BY Zenon DEF PrepareTypeOK
<1>7. PrepareTypeOK'
  BY <1>1, <1>3, <1>6 DEF PrepareTypeOK
<1>8. NamesBounded'
  BY <1>1, <1>3, Zenon DEF NamesBounded, Used
<1>9. OwnFolder'
  <2>1. Base' = Base
    BY <1>1, Zenon DEF Base
  <2>2. \A k \in 1 .. touched' : torrent.files[k] \in DOMAIN folders'[Base]
    <3>1. \A k \in 1 .. touched' : k \in 1 .. touched \/ (touched' = touched + 1 /\ k = touched + 1)
      BY <1>1 DEF PrepareTypeOK
    <3>2. QED
      BY <1>1, <1>4, <3>1, Zenon DEF OwnFolder
  <2>3. QED
    BY <1>1, <1>2, <1>3, <1>4, <1>5, <2>1, <2>2, Zenon DEF OwnFolder, Exists
<1>10. FoldersDistinct' /\ FilesStay'
  BY <1>1, <1>3, <1>5, PreparedKept, Zenon
<1>11. QED
  BY <1>7, <1>8, <1>9, <1>10, Zenon

\* prepare_torrent_files returns true: the folder it made is new, with every
\* file of the torrent.
LEMMA SucceedStep ==
  ASSUME PrepareInv, Succeed
  PROVE  PrepareInv'
<1> USE PrepareAssumption DEF PrepareInv, Succeed
<1>1. torrent.files \in Seq(Range(torrent.files))
  BY Zenon DEF PrepareTypeOK
<1>2. \A f \in Range(torrent.files) : f \in DOMAIN folders[Base] /\ folders[Base][f] = add
  <2>1. \A f \in Range(torrent.files) : \E k \in 1 .. touched : f = torrent.files[k]
    BY <1>1 DEF Range
  <2>2. QED
    BY <2>1 DEF OwnFolder
<1>3. FilesStay'
  <2> SUFFICES ASSUME NEW p \in prepared'
               PROVE  /\ p.folder \in DOMAIN folders
                      /\ \A f \in Range(p.torrent.files) :
                           f \in DOMAIN folders[p.folder] /\ folders[p.folder][f] = p.add
    BY Zenon DEF FilesStay
  <2>1. CASE p \in prepared
    BY <2>1, Zenon DEF FilesStay
  <2>2. CASE p = [add |-> add, torrent |-> torrent, folder |-> Base]
    BY <1>2, <2>2, Zenon DEF OwnFolder, Exists
  <2>3. QED
    BY <2>1, <2>2, Zenon
<1>4. FoldersDistinct'
  BY DEF FoldersDistinct, OwnFolder, Base
<1>5. PrepareTypeOK' /\ NamesBounded' /\ OwnFolder'
  BY Zenon DEF PrepareTypeOK, NamesBounded, Used, OwnFolder
<1>6. QED
  BY <1>3, <1>4, <1>5, Zenon

\* The folder of a call that failed is removed, as far as it can be.
LEMMA CleanupSteps ==
  ASSUME PrepareInv, Cleanup \/ CleanupFails
  PROVE  PrepareInv'
<1> USE PrepareAssumption DEF PrepareInv
<1>1. /\ phase = "cleaning" /\ phase' = "idle"
      /\ UNCHANGED <<add, torrent, attempts, touched, prepared>>
  BY Zenon DEF Cleanup, CleanupFails
<1>2. Exists(Base)
  BY <1>1, Zenon DEF OwnFolder
<1>3. /\ DOMAIN folders' \subseteq DOMAIN folders
      /\ \A f \in DOMAIN folders :
           f # Base => f \in DOMAIN folders' /\ folders'[f] = folders[f]
  BY <1>2, Zenon DEF Cleanup, CleanupFails, Exists
<1>4. \A p \in prepared : p.folder \in DOMAIN folders /\ p.folder # Base
  BY <1>1, Zenon DEF OwnFolder, FilesStay
<1>5. PrepareTypeOK' /\ NamesBounded' /\ OwnFolder'
  BY <1>1, <1>3, Zenon DEF PrepareTypeOK, NamesBounded, Used, OwnFolder
<1>6. FoldersDistinct' /\ FilesStay'
  BY <1>1, <1>3, <1>4, PreparedKept, Zenon
<1>7. QED
  BY <1>5, <1>6, Zenon

\* A step of prepare_torrent_files, or a restart, keeps the invariant.
LEMMA PreparedStep ==
  ASSUME NamesSuffice, PrepareInv, [PrepareNext]_prepareVars
  PROVE  PrepareInv'
<1>1. CASE MakeFolderFails \/ Restart \/ UNCHANGED prepareVars
  BY <1>1, Zenon DEF MakeFolderFails, Restart, prepareVars, PrepareInv, PrepareTypeOK, NamesBounded,
    Used, OwnFolder, FoldersDistinct, FilesStay, Exists, TooLong, Base
<1>2. QED
  BY <1>1, LoopSteps, MakeFolderStep, TouchSteps, SucceedStep, CleanupSteps, Zenon DEF PrepareNext

\* The invariant holds as long as there are enough names.
LEMMA PrepareInvariant ==
  ASSUME NamesSuffice
  PROVE  PrepareSpec => []PrepareInv
<1>1. PrepareInit => PrepareInv
  BY NothingPrepared, Zenon
<1>2. PrepareInv /\ [PrepareNext]_prepareVars => PrepareInv'
  BY PreparedStep, Zenon
<1>3. QED
  BY <1>1, <1>2, PTL DEF PrepareSpec

-----------------------------------------------------------------------------

\* With enough names, prepare_torrent_files never gives two torrents of a
\* session the same folder.
THEOREM TorrentsHaveTheirFolders ==
  ASSUME NamesSuffice
  PROVE  PrepareSpec => []FoldersDistinct
<1>1. PrepareInv => FoldersDistinct
  BY Zenon DEF PrepareInv
<1>2. QED
  BY <1>1, PrepareInvariant, PTL

\* With enough names, the files of every torrent for which
\* prepare_torrent_files returned true stay, whatever later calls do.
THEOREM TorrentsKeepTheirFiles ==
  ASSUME NamesSuffice
  PROVE  PrepareSpec => []FilesStay
<1>1. PrepareInv => FilesStay
  BY Zenon DEF PrepareInv
<1>2. QED
  BY <1>1, PrepareInvariant, PTL

\* With enough names, the cleanup after a failed call removes no file that
\* another call created.
THEOREM CleanupRemovesItsOwn ==
  ASSUME NamesSuffice
  PROVE  PrepareSpec => RemovesOnlyCreated
<1> DEFINE Kept(f, g) ==
      \/ f \in DOMAIN folders' /\ g \in DOMAIN folders'[f]
      \/ folders[f][g] = add
<1>1. ASSUME PrepareInv, [PrepareNext]_prepareVars,
             NEW f \in DOMAIN folders, NEW g \in DOMAIN folders[f]
      PROVE  Kept(f, g)
  <2> USE DEF PrepareInv
  <2>1. CASE Cleanup \/ CleanupFails
    BY <1>1, <2>1, Zenon DEF Cleanup, CleanupFails, OwnFolder, Exists
  <2>2. CASE Touch \/ TouchFails
    BY <1>1, <2>2, Zenon DEF Touch, TouchFails, WithFile, OwnFolder, Exists
  <2>3. CASE MakeFolder
    BY <1>1, <2>3, Zenon DEF MakeFolder, Exists
  <2>4. CASE UNCHANGED folders
    BY <1>1, <2>4, Zenon
  <2>5. QED
    BY <1>1, <2>1, <2>2, <2>3, <2>4, Zenon
    DEF PrepareNext, prepareVars, BeginPrepare, Probe, MakeFolderFails, Succeed, Restart
<1>2. PrepareInv /\ [PrepareNext]_prepareVars =>
        [\A f \in DOMAIN folders : \A g \in DOMAIN folders[f] : Kept(f, g)]_prepareVars
  BY <1>1, Zenon
<1>3. QED
  BY <1>2, PrepareInvariant, PTL DEF PrepareSpec, RemovesOnlyCreated
=============================================================================
