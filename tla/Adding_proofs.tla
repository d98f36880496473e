---------------------------- MODULE Adding_proofs ---------------------------
(***************************************************************************)
(* add_torrent makes of every .torrent file what it says, and starts it    *)
(* exactly if its tracker lists a peer: for torrents of any size, whatever *)
(* the alphabet, the texts and the answers.                                *)
(***************************************************************************)
EXTENDS Adding, Bencode_proofs

-----------------------------------------------------------------------------
(* The trees of .torrent files and of answers *)

\* The names are characters, in their order.
LEMMA NameFacts ==
  /\ {"announce", "files", "info", "interval", "length", "name", "path", "peers",
      "piece length", "pieces", "private"} \subseteq Chars
  /\ Rank("announce") < Rank("info") /\ Rank("interval") < Rank("peers")
  /\ Rank("length") < Rank("path") /\ Rank("files") < Rank("name") /\ Rank("length") < Rank("name")
  /\ Rank("name") < Rank("piece length") /\ Rank("piece length") < Rank("pieces")
  /\ Rank("pieces") < Rank("private")
<1>1. /\ DOMAIN Names = 1 .. 11
      /\ Names[1] = "announce" /\ Names[2] = "files" /\ Names[3] = "info" /\ Names[4] = "interval"
      /\ Names[5] = "length" /\ Names[6] = "name" /\ Names[7] = "path" /\ Names[8] = "peers"
      /\ Names[9] = "piece length" /\ Names[10] = "pieces" /\ Names[11] = "private"
  BY DEF Names
<1>2. /\ 1 \in 1 .. 11 /\ 2 \in 1 .. 11 /\ 3 \in 1 .. 11 /\ 4 \in 1 .. 11 /\ 5 \in 1 .. 11
      /\ 6 \in 1 .. 11 /\ 7 \in 1 .. 11 /\ 8 \in 1 .. 11 /\ 9 \in 1 .. 11 /\ 10 \in 1 .. 11
      /\ 11 \in 1 .. 11
      /\ 1 < 3 /\ 4 < 8 /\ 5 < 7 /\ 2 < 6 /\ 5 < 6 /\ 6 < 9 /\ 9 < 10 /\ 10 < 11
  OBVIOUS
<1>3. /\ \A k \in 1 .. 11 : Names[k] \in Chars
      /\ \A j, k \in 1 .. 11 : j < k => Rank(Names[j]) < Rank(Names[k])
  BY <1>1, NamesAssumption, Zenon
<1>4. /\ Names[1] \in Chars /\ Names[2] \in Chars /\ Names[3] \in Chars /\ Names[4] \in Chars
      /\ Names[5] \in Chars /\ Names[6] \in Chars /\ Names[7] \in Chars /\ Names[8] \in Chars
      /\ Names[9] \in Chars /\ Names[10] \in Chars /\ Names[11] \in Chars
  BY <1>2, <1>3, Zenon
<1>5. /\ Rank(Names[1]) < Rank(Names[3]) /\ Rank(Names[4]) < Rank(Names[8])
      /\ Rank(Names[5]) < Rank(Names[7]) /\ Rank(Names[2]) < Rank(Names[6])
      /\ Rank(Names[5]) < Rank(Names[6]) /\ Rank(Names[6]) < Rank(Names[9])
      /\ Rank(Names[9]) < Rank(Names[10]) /\ Rank(Names[10]) < Rank(Names[11])
  BY <1>2, <1>3, Zenon
<1>6. {"announce", "files", "info", "interval", "length", "name", "path", "peers",
       "piece length", "pieces", "private"} \subseteq Chars
  BY <1>1, <1>4, Zenon
<1> QED
  BY <1>1, <1>5, <1>6, Zenon

\* v is a dictionary with two entries.
IsPairDict(v, x, a, y, b) ==
  /\ v[1] = "Dict"
  /\ DOMAIN v[2] = {<<x>>, <<y>>}
  /\ v[2][<<x>>] = a
  /\ v[2][<<y>>] = b

LEMMA TwoEntries ==
  ASSUME NEW x \in Chars, NEW y \in Chars, Rank(x) < Rank(y),
         NEW s, NEW a, Stands(s, a), NEW t, NEW b, Stands(t, b)
  PROVE  /\ AreEntries(<<<<x, s>>, <<y, t>>>>, <<a, b>>)
         /\ InOrder(<<<<x, s>>, <<y, t>>>>)
         /\ Stands(BDict(<<<<x, s>>, <<y, t>>>>), DictFor(<<<<x, s>>, <<y, t>>>>, <<a, b>>))
         /\ IsPairDict(DictFor(<<<<x, s>>, <<y, t>>>>, <<a, b>>), x, a, y, b)
<1> DEFINE p == <<x, s>>
           q == <<y, t>>
           ps == <<p, q>>
           vs == <<a, b>>
<1>1. p[1] = x /\ p[2] = s /\ q[1] = y /\ q[2] = t
  OBVIOUS
<1> HIDE DEF p, q
<1>2. /\ ps \in Seq({p, q}) /\ Len(ps) = 2 /\ ps[1] = p /\ ps[2] = q
      /\ vs \in Seq({a, b}) /\ Len(vs) = 2 /\ vs[1] = a /\ vs[2] = b
  OBVIOUS
<1> HIDE DEF ps, vs
<1>3. \A k \in 1 .. 2 : k = 1 \/ k = 2
  OBVIOUS
<1>4. AreEntries(ps, vs)
  <2>1. ASSUME NEW k \in 1 .. 2 PROVE ps[k][1] \in Chars /\ Stands(ps[k][2], vs[k])
    <3>1. CASE k = 1
      BY <1>1, <1>2, <3>1, Zenon
    <3>2. CASE k = 2
      BY <1>1, <1>2, <3>2, Zenon
    <3> QED
      BY <1>3, <3>1, <3>2, Zenon
  <2> QED
    BY <1>2, <2>1, Zenon DEF AreEntries
<1>5. InOrder(ps)
  <2>1. ASSUME NEW j \in 1 .. 2, NEW k \in 1 .. 2, j < k PROVE Rank(ps[j][1]) < Rank(ps[k][1])
    <3>1. j = 1 /\ k = 2
      BY <2>1
    <3> QED
      BY <1>1, <1>2, <3>1, Zenon
  <2> QED
    BY <1>2, <2>1, Zenon DEF InOrder
<1> DEFINE d == DictOf(EntryPairs(ps, vs))
<1>6. Stands(BDict(ps), DictFor(ps, vs)) /\ IsEntryDict(d, ps, vs)
  BY <1>4, <1>5, StandsDict, EntryDict, Zenon
<1>7. DictFor(ps, vs) = <<"Dict", d>>
  BY Zenon DEF DictFor
<1> HIDE DEF d
<1>8. /\ DOMAIN d = {<<ps[k][1]>> : k \in 1 .. 2}
      /\ \A k \in 1 .. 2 : d[<<ps[k][1]>>] = vs[k]
  BY <1>2, <1>6, Zenon DEF IsEntryDict
<1>9. 1 \in 1 .. 2 /\ 2 \in 1 .. 2
  OBVIOUS
<1>10. d[<<x>>] = a /\ d[<<y>>] = b
  <2>1. d[<<ps[1][1]>>] = vs[1] /\ d[<<ps[2][1]>>] = vs[2]
    BY <1>8, <1>9, Zenon
  <2> QED
    BY <1>1, <1>2, <2>1, Zenon
<1>11. DOMAIN d = {<<x>>, <<y>>}
  <2>1. <<ps[1][1]>> = <<x>> /\ <<ps[2][1]>> = <<y>>
    BY <1>1, <1>2, Zenon
  <2>2. {<<ps[k][1]>> : k \in 1 .. 2} = {<<ps[1][1]>>, <<ps[2][1]>>}
    BY <1>3, <1>9, Zenon
  <2> QED
    BY <1>8, <2>1, <2>2, Zenon
<1>12. <<"Dict", d>>[1] = "Dict" /\ <<"Dict", d>>[2] = d
  OBVIOUS
<1>13. IsPairDict(DictFor(ps, vs), x, a, y, b)
  BY <1>7, <1>10, <1>11, <1>12, Zenon DEF IsPairDict
<1> QED
  BY <1>4, <1>5, <1>6, <1>13, Zenon DEF ps, vs, p, q

\* The file f of a torrent with several.
PathTexts(f) == [k \in DOMAIN f.filepath |-> BString(f.filepath[k])]

PathValues(f) == [k \in DOMAIN f.filepath |-> <<"String", f.filepath[k]>>]

FileEntries(f) == <<<<"length", BInteger(f.length)>>, <<"path", BList(PathTexts(f))>>>>

FileValues(f) == <<<<"Integer", f.length>>, <<"List", PathValues(f)>>>>

FileTree(f) == DictFor(FileEntries(f), FileValues(f))

\* A file as a metainfo describes it.
FileRecords == [length : 0 .. LongMax, filepath : Seq(Seq(Chars))]

LEMMA FileFacts ==
  ASSUME NEW f \in FileRecords
  PROVE  /\ PathTexts(f) \in Seq(Seq(Chars)) /\ Len(PathTexts(f)) = Len(f.filepath)
         /\ DOMAIN f.filepath = 1 .. Len(f.filepath)
         /\ Stands(BInteger(f.length), <<"Integer", f.length>>)
         /\ Stands(BList(PathTexts(f)), <<"List", PathValues(f)>>)
<1> DEFINE p == f.filepath
           n == Len(p)
           ts == PathTexts(f)
           vs == PathValues(f)
<1>1. f.length \in 0 .. LongMax /\ p \in Seq(Seq(Chars))
  BY DEF FileRecords
<1> HIDE DEF p
<1>2. n \in Nat /\ DOMAIN p = 1 .. n
  BY <1>1, LenProperties, Zenon
<1>3. \A k \in 1 .. n : p[k] \in Seq(Chars)
  BY <1>1, <1>2, ElementOfSeq, Zenon
<1> HIDE DEF n
<1>4. ts = [k \in 1 .. n |-> BString(p[k])] /\ vs = [k \in 1 .. n |-> <<"String", p[k]>>]
  BY <1>2, Zenon DEF PathTexts, PathValues, p
<1> HIDE DEF ts, vs
<1>5. \A k \in 1 .. n : BString(p[k]) \in Seq(Chars) /\ Stands(BString(p[k]), <<"String", p[k]>>)
  BY <1>3, StandsString, Zenon DEF Stands
<1>6. ts \in [1 .. n -> Seq(Chars)] /\ vs \in [1 .. n -> {vs[k] : k \in 1 .. n}]
  BY <1>4, <1>5, Zenon
<1>7. ts \in Seq(Seq(Chars)) /\ Len(ts) = n
  BY <1>2, <1>6, FunctionIsSeq, Zenon
<1>8. vs \in Seq({vs[k] : k \in 1 .. n}) /\ Len(vs) = n
  BY <1>2, <1>6, FunctionIsSeq, Zenon
<1>9. \A k \in 1 .. Len(ts) : Stands(ts[k], vs[k])
  BY <1>4, <1>5, <1>7, Zenon
<1>10. Stands(BList(ts), <<"List", vs>>)
  BY <1>7, <1>8, <1>9, StandsList, Zenon
<1>11. Stands(BInteger(f.length), <<"Integer", f.length>>)
  BY <1>1, StandsInteger, Zenon
<1> QED
  BY <1>2, <1>7, <1>10, <1>11, Zenon DEF ts, vs, n, p

LEMMA FileTreeFacts ==
  ASSUME NEW f \in FileRecords
  PROVE  /\ AreEntries(FileEntries(f), FileValues(f)) /\ InOrder(FileEntries(f))
         /\ Stands(FileText(f), FileTree(f))
         /\ IsPairDict(FileTree(f), "length", <<"Integer", f.length>>, "path", <<"List", PathValues(f)>>)
<1> DEFINE x == "length"
           y == "path"
           s == BInteger(f.length)
           t == BList(PathTexts(f))
           a == <<"Integer", f.length>>
           b == <<"List", PathValues(f)>>
<1>1. Stands(s, a) /\ Stands(t, b)
  BY FileFacts, Zenon
<1>2. x \in Chars /\ y \in Chars /\ Rank(x) < Rank(y)
  BY NameFacts, Zenon
<1>3. /\ FileEntries(f) = <<<<x, s>>, <<y, t>>>> /\ FileValues(f) = <<a, b>>
      /\ FileText(f) = BDict(<<<<x, s>>, <<y, t>>>>)
  BY Zenon DEF FileEntries, FileValues, FileText, PathTexts
<1>4. FileTree(f) = DictFor(<<<<x, s>>, <<y, t>>>>, <<a, b>>)
  BY <1>3, Zenon DEF FileTree
<1> HIDE DEF x, y, s, t, a, b
<1>5. /\ AreEntries(<<<<x, s>>, <<y, t>>>>, <<a, b>>)
      /\ InOrder(<<<<x, s>>, <<y, t>>>>)
      /\ Stands(BDict(<<<<x, s>>, <<y, t>>>>), DictFor(<<<<x, s>>, <<y, t>>>>, <<a, b>>))
      /\ IsPairDict(DictFor(<<<<x, s>>, <<y, t>>>>, <<a, b>>), x, a, y, b)
  BY <1>1, <1>2, TwoEntries, Zenon
<1>6. /\ AreEntries(FileEntries(f), FileValues(f)) /\ InOrder(FileEntries(f))
      /\ Stands(FileText(f), FileTree(f))
      /\ IsPairDict(FileTree(f), x, a, y, b)
  BY <1>3, <1>4, <1>5, Zenon
<1> QED
  BY <1>6, Zenon DEF x, y, a, b

\* A sequence of four, or of five.
IsFourOrFive(s, p, a, b, c, d, e) ==
  /\ \E S : s \in Seq(S)
  /\ Len(s) = IF p THEN 5 ELSE 4
  /\ s[1] = a /\ s[2] = b /\ s[3] = c /\ s[4] = d
  /\ p => s[5] = e

\* The info dictionary of the torrent m.
FileTexts(m) == [k \in DOMAIN m.files |-> FileText(m.files[k])]

FileTrees(m) == [k \in DOMAIN m.files |-> FileTree(m.files[k])]

FirstEntry(m) ==
  IF m.multi THEN <<"files", BList(FileTexts(m))>> ELSE <<"length", BInteger(m.files[1].length)>>

FirstValue(m) ==
  IF m.multi THEN <<"List", FileTrees(m)>> ELSE <<"Integer", m.files[1].length>>

InfoEntries(m) ==
  <<FirstEntry(m), <<"name", BString(m.name)>>, <<"piece length", BInteger(m.piece_length)>>,
    <<"pieces", BString(Concat(m.hashes))>>>>
  \o (IF m.private THEN <<<<"private", BInteger(1)>>>> ELSE <<>>)

InfoValues(m) ==
  <<FirstValue(m), <<"String", m.name>>, <<"Integer", m.piece_length>>,
    <<"String", Concat(m.hashes)>>>>
  \o (IF m.private THEN <<<<"Integer", 1>>>> ELSE <<>>)

InfoTree(m) == DictFor(InfoEntries(m), InfoValues(m))

\* The type of a metainfo.
LEMMA MetainfoFacts ==
  ASSUME NEW m, IsMetainfo(m)
  PROVE  /\ m.url \in Seq(Chars) /\ m.name \in Seq(Chars)
         /\ m.multi \in BOOLEAN /\ m.private \in BOOLEAN
         /\ m.files \in Seq(FileRecords)
         /\ ~m.multi => Len(m.files) = 1 /\ m.files[1] \in FileRecords
         /\ m.piece_length \in 0 .. LongMax /\ 1 \in 0 .. LongMax
         /\ m.hashes \in Seq({h \in Seq(Chars) : Len(h) = HashSize})
         /\ Concat(m.hashes) \in Seq(Chars)
<1>1. /\ m.url \in Seq(Chars) /\ m.name \in Seq(Chars)
      /\ m.multi \in BOOLEAN /\ m.private \in BOOLEAN
      /\ m.files \in Seq(FileRecords)
      /\ ~m.multi => m.files = <<[length |-> m.files[1].length, filepath |-> <<m.name>>]>>
      /\ m.piece_length \in 1 .. IntMax
      /\ m.hashes \in Seq({h \in Seq(Chars) : Len(h) = HashSize})
  BY Zenon DEF IsMetainfo, FileRecords
<1>2. HashSize \in Nat \ {0} /\ IntMax \in 0 .. LongMax /\ LongMax \in Nat
  BY MetainfosAssumption, LongAssumption, Zenon
<1>3. m.piece_length \in 0 .. LongMax /\ 1 \in 0 .. LongMax
  BY <1>1, <1>2
<1>4. HashSize \in Nat
  BY <1>2
<1>5. Concat(m.hashes) \in Seq(Chars)
  BY <1>1, <1>4, ConcatFixed, Zenon DEF HasInPlace
<1>6. ASSUME ~m.multi PROVE Len(m.files) = 1 /\ m.files[1] \in FileRecords
  <2>1. \A x : Len(<<x>>) = 1
    OBVIOUS
  <2>2. Len(m.files) = 1
    BY <1>1, <1>6, <2>1, Zenon
  <2>3. 1 \in 1 .. 1
    OBVIOUS
  <2>4. 1 \in 1 .. Len(m.files)
    BY <2>2, <2>3, Zenon
  <2>5. m.files[1] \in FileRecords
    BY <1>1, <2>4, ElementOfSeq, Zenon
  <2> QED
    BY <2>2, <2>5, Zenon
<1> QED
  BY <1>1, <1>3, <1>5, <1>6, Zenon

\* The files, or the length of the only one.
LEMMA FirstEntryFacts ==
  ASSUME NEW m, IsMetainfo(m)
  PROVE  /\ FirstEntry(m)[1] = IF m.multi THEN "files" ELSE "length"
         /\ FirstEntry(m)[2] = IF m.multi THEN BList(FileTexts(m)) ELSE BInteger(m.files[1].length)
         /\ Stands(FirstEntry(m)[2], FirstValue(m))
<1>1. /\ m.multi \in BOOLEAN /\ m.files \in Seq(FileRecords)
      /\ ~m.multi => Len(m.files) = 1 /\ m.files[1] \in FileRecords
  BY MetainfoFacts, Zenon
<1>3. CASE m.multi
  <2> DEFINE n == Len(m.files)
             ts == FileTexts(m)
             vs == FileTrees(m)
  <2>1. FirstEntry(m) = <<"files", BList(ts)>> /\ FirstValue(m) = <<"List", vs>>
    BY <1>3, Zenon DEF FirstEntry, FirstValue
  <2>2. n \in Nat /\ DOMAIN m.files = 1 .. n
    BY <1>1, LenProperties, Zenon
  <2>3. \A k \in 1 .. n : m.files[k] \in FileRecords
    BY <1>1, <2>2, ElementOfSeq, Zenon
  <2> HIDE DEF n
  <2>4. ts = [k \in 1 .. n |-> FileText(m.files[k])] /\ vs = [k \in 1 .. n |-> FileTree(m.files[k])]
    BY <2>2, Zenon DEF FileTexts, FileTrees
  <2> HIDE DEF ts, vs
  <2>5. \A k \in 1 .. n : FileText(m.files[k]) \in Seq(Chars) /\ Stands(FileText(m.files[k]), FileTree(m.files[k]))
    BY <2>3, FileTreeFacts, Zenon DEF Stands
  <2>6. ts \in [1 .. n -> Seq(Chars)] /\ vs \in [1 .. n -> {vs[k] : k \in 1 .. n}]
    BY <2>4, <2>5, Zenon
  <2>7. ts \in Seq(Seq(Chars)) /\ Len(ts) = n
    BY <2>2, <2>6, FunctionIsSeq, Zenon
  <2>8. vs \in Seq({vs[k] : k \in 1 .. n}) /\ Len(vs) = n
    BY <2>2, <2>6, FunctionIsSeq, Zenon
  <2>9. \A k \in 1 .. Len(ts) : Stands(ts[k], vs[k])
    BY <2>4, <2>5, <2>7, Zenon
  <2>10. Stands(BList(ts), <<"List", vs>>)
    BY <2>7, <2>8, <2>9, StandsList, Zenon
  <2>11. FirstEntry(m)[1] = "files" /\ FirstEntry(m)[2] = BList(ts)
    <3>1. <<"files", BList(ts)>>[1] = "files" /\ <<"files", BList(ts)>>[2] = BList(ts)
      OBVIOUS
    <3> QED
      BY <2>1, <3>1, Zenon
  <2> QED
    BY <1>3, <2>1, <2>10, <2>11, Zenon DEF ts
<1>4. CASE ~m.multi
  <2> DEFINE l == m.files[1].length
  <2>1. FirstEntry(m) = <<"length", BInteger(l)>> /\ FirstValue(m) = <<"Integer", l>>
    BY <1>4, Zenon DEF FirstEntry, FirstValue
  <2>2. Stands(BInteger(l), <<"Integer", l>>)
    BY <1>1, <1>4, FileFacts, Zenon
  <2>3. FirstEntry(m)[1] = "length" /\ FirstEntry(m)[2] = BInteger(l)
    <3>1. <<"length", BInteger(l)>>[1] = "length" /\ <<"length", BInteger(l)>>[2] = BInteger(l)
      OBVIOUS
    <3> QED
      BY <2>1, <3>1, Zenon
  <2> QED
    BY <1>4, <2>1, <2>2, <2>3, Zenon
<1> QED
  BY <1>3, <1>4, Zenon

\* The entries of the info dictionary, by their places.
AreInfo(m, ps, vs) ==
  /\ Len(ps) = IF m.private THEN 5 ELSE 4
  /\ ps[1] = FirstEntry(m) /\ vs[1] = FirstValue(m)
  /\ ps[2][1] = "name" /\ ps[2][2] = BString(m.name) /\ vs[2] = <<"String", m.name>>
  /\ ps[3][1] = "piece length" /\ ps[3][2] = BInteger(m.piece_length)
  /\ vs[3] = <<"Integer", m.piece_length>>
  /\ ps[4][1] = "pieces" /\ ps[4][2] = BString(Concat(m.hashes)) /\ vs[4] = <<"String", Concat(m.hashes)>>
  /\ m.private => ps[5][1] = "private" /\ ps[5][2] = BInteger(1) /\ vs[5] = <<"Integer", 1>>

LEMMA InfoEntryFacts ==
  \A m :
    IsMetainfo(m) =>
      /\ AreInfo(m, InfoEntries(m), InfoValues(m))
      /\ AreEntries(InfoEntries(m), InfoValues(m))
      /\ InOrder(InfoEntries(m))

<1>FourOrFive. ASSUME NEW p \in BOOLEAN, NEW a, NEW b, NEW c, NEW d, NEW e
               PROVE  IsFourOrFive(<<a, b, c, d>> \o (IF p THEN <<e>> ELSE <<>>), p, a, b, c, d, e)
  <2> DEFINE C == {a, b, c, d, e}
             q == <<a, b, c, d>>
             r == IF p THEN <<e>> ELSE <<>>
             s == q \o r
  <2>1. q \in Seq(C) /\ Len(q) = 4 /\ q[1] = a /\ q[2] = b /\ q[3] = c /\ q[4] = d
    OBVIOUS
  <2>2. r \in Seq(C) /\ Len(r) = (IF p THEN 1 ELSE 0) /\ (p => r[1] = e)
    <3>1. <<e>> \in Seq(C) /\ Len(<<e>>) = 1 /\ <<e>>[1] = e /\ <<>> \in Seq(C) /\ Len(<<>>) = 0
      OBVIOUS
    <3>2. CASE p
      <4>1. r = <<e>>
        BY <3>2, Zenon
      <4> HIDE DEF r, C
      <4> QED
        BY <3>1, <3>2, <4>1
    <3>3. CASE ~p
      <4>1. r = <<>>
        BY <3>3, Zenon
      <4> HIDE DEF r, C
      <4> QED
        BY <3>1, <3>3, <4>1
    <3> QED
      BY <3>2, <3>3, Zenon
  <2> HIDE DEF q, r, C
  <2>3. IsJoined(s, C, q, r)
    BY <2>1, <2>2, Joined, Zenon
  <2> HIDE DEF s
  <2>4. s \in Seq(C) /\ Len(s) = 4 + Len(r) /\ (\A k \in 1 .. 4 : s[k] = q[k]) /\ \A k \in 1 .. Len(r) : s[4 + k] = r[k]
    BY <2>1, <2>3, Zenon DEF IsJoined
  <2>5. s[1] = a /\ s[2] = b /\ s[3] = c /\ s[4] = d
    BY <2>1, <2>4
  <2>6. Len(s) = (IF p THEN 5 ELSE 4) /\ (p => s[5] = e)
    BY <2>2, <2>4
  <2>7. IsFourOrFive(s, p, a, b, c, d, e)
    BY <2>4, <2>5, <2>6, Zenon DEF IsFourOrFive
  <2> QED
    BY <2>7, Zenon DEF s, q, r

<1> SUFFICES ASSUME NEW m, IsMetainfo(m)
             PROVE  /\ AreInfo(m, InfoEntries(m), InfoValues(m))
                    /\ AreEntries(InfoEntries(m), InfoValues(m))
                    /\ InOrder(InfoEntries(m))
  BY Zenon
<1> DEFINE ps == InfoEntries(m)
           vs == InfoValues(m)
           p1 == FirstEntry(m)
           p2 == <<"name", BString(m.name)>>
           p3 == <<"piece length", BInteger(m.piece_length)>>
           p4 == <<"pieces", BString(Concat(m.hashes))>>
           p5 == <<"private", BInteger(1)>>
           v1 == FirstValue(m)
           v2 == <<"String", m.name>>
           v3 == <<"Integer", m.piece_length>>
           v4 == <<"String", Concat(m.hashes)>>
           v5 == <<"Integer", 1>>
           n == IF m.private THEN 5 ELSE 4
<1>1. /\ m.private \in BOOLEAN /\ m.name \in Seq(Chars) /\ m.piece_length \in 0 .. LongMax
      /\ 1 \in 0 .. LongMax /\ Concat(m.hashes) \in Seq(Chars)
  BY MetainfoFacts, Zenon
<1>2. /\ p2[1] = "name" /\ p2[2] = BString(m.name)
      /\ p3[1] = "piece length" /\ p3[2] = BInteger(m.piece_length)
      /\ p4[1] = "pieces" /\ p4[2] = BString(Concat(m.hashes))
      /\ p5[1] = "private" /\ p5[2] = BInteger(1)
  OBVIOUS
<1>3. /\ Stands(p1[2], v1) /\ p1[1] = IF m.multi THEN "files" ELSE "length"
  BY FirstEntryFacts, Zenon
<1>4. /\ Stands(BString(m.name), v2) /\ Stands(BInteger(m.piece_length), v3)
      /\ Stands(BString(Concat(m.hashes)), v4) /\ Stands(BInteger(1), v5)
  BY <1>1, StandsString, StandsInteger, Zenon
<1>5. /\ ps = <<p1, p2, p3, p4>> \o (IF m.private THEN <<p5>> ELSE <<>>)
      /\ vs = <<v1, v2, v3, v4>> \o (IF m.private THEN <<v5>> ELSE <<>>)
  BY Zenon DEF InfoEntries, InfoValues
<1> HIDE DEF p1, p2, p3, p4, p5, v1, v2, v3, v4, v5, ps, vs
<1>6. IsFourOrFive(ps, m.private, p1, p2, p3, p4, p5) /\ IsFourOrFive(vs, m.private, v1, v2, v3, v4, v5)
  BY <1>1, <1>5, <1>FourOrFive, Zenon
<1>7. /\ (\E P : ps \in Seq(P)) /\ (\E V : vs \in Seq(V)) /\ Len(ps) = n /\ Len(vs) = n
      /\ ps[1] = p1 /\ ps[2] = p2 /\ ps[3] = p3 /\ ps[4] = p4 /\ (m.private => ps[5] = p5)
      /\ vs[1] = v1 /\ vs[2] = v2 /\ vs[3] = v3 /\ vs[4] = v4 /\ (m.private => vs[5] = v5)
  BY <1>6, Zenon DEF IsFourOrFive
<1>8. /\ ps[1][1] \in Chars /\ ps[2][1] \in Chars /\ ps[3][1] \in Chars /\ ps[4][1] \in Chars
      /\ m.private => ps[5][1] \in Chars
  BY <1>2, <1>3, <1>7, NameFacts, Zenon
<1>9. /\ Stands(ps[1][2], vs[1]) /\ Stands(ps[2][2], vs[2]) /\ Stands(ps[3][2], vs[3])
      /\ Stands(ps[4][2], vs[4]) /\ (m.private => Stands(ps[5][2], vs[5]))
  BY <1>2, <1>3, <1>4, <1>7, Zenon
<1>10. n \in Nat /\ \A k \in 1 .. n : k = 1 \/ k = 2 \/ k = 3 \/ k = 4 \/ (k = 5 /\ m.private)
  BY <1>1
<1> HIDE DEF n
<1>11. AreEntries(ps, vs)
  <2>1. ASSUME NEW k \in 1 .. n PROVE ps[k][1] \in Chars /\ Stands(ps[k][2], vs[k])
    BY <1>8, <1>9, <1>10, Zenon
  <2> QED
    BY <1>7, <2>1, Zenon DEF AreEntries
<1>12. InOrder(ps)
  <2> DEFINE r1 == Rank(ps[1][1])
             r2 == Rank(ps[2][1])
             r3 == Rank(ps[3][1])
             r4 == Rank(ps[4][1])
             r5 == Rank(ps[5][1])
  <2>1. r1 < r2 /\ r2 < r3 /\ r3 < r4 /\ (m.private => r4 < r5)
    BY <1>2, <1>3, <1>7, NameFacts, Zenon
  <2>2. r1 \in Nat /\ r2 \in Nat /\ r3 \in Nat /\ r4 \in Nat /\ (m.private => r5 \in Nat)
    <3>1. ASSUME NEW c \in Chars PROVE Rank(c) \in Nat
      BY RankFacts, AlphabetFacts
    <3> QED
      BY <1>8, <3>1, Zenon
  <2>3. ASSUME NEW j \in 1 .. n, NEW k \in 1 .. n, j < k PROVE Rank(ps[j][1]) < Rank(ps[k][1])
    <3>1. \/ k = 2 /\ j = 1
          \/ k = 3 /\ (j = 1 \/ j = 2)
          \/ k = 4 /\ (j = 1 \/ j = 2 \/ j = 3)
          \/ k = 5 /\ m.private /\ (j = 1 \/ j = 2 \/ j = 3 \/ j = 4)
      <4>1. j = 1 \/ j = 2 \/ j = 3 \/ j = 4 \/ (j = 5 /\ m.private)
        BY <1>10, Zenon
      <4>2. k = 1 \/ k = 2 \/ k = 3 \/ k = 4 \/ (k = 5 /\ m.private)
        BY <1>10, Zenon
      <4> QED
        BY <2>3, <4>1, <4>2
    <3> HIDE DEF r1, r2, r3, r4, r5
    <3>2. /\ r1 < r2 /\ r1 < r3 /\ r1 < r4 /\ r2 < r3 /\ r2 < r4 /\ r3 < r4
          /\ m.private => r1 < r5 /\ r2 < r5 /\ r3 < r5 /\ r4 < r5
      BY <2>1, <2>2
    <3> QED
      BY <3>1, <3>2, Zenon DEF r1, r2, r3, r4, r5
  <2> QED
    BY <1>7, <2>3, Zenon DEF InOrder
<1>13. AreInfo(m, ps, vs)
  BY <1>2, <1>7, Zenon DEF AreInfo, n, p1, v1, v2, v3, v4, v5
<1> QED
  BY <1>11, <1>12, <1>13, Zenon DEF ps, vs

\* What the constructor of TorrentFile looks for in the info dictionary v.
IsInfoDict(v, m) ==
  /\ v[1] = "Dict"
  /\ {<<"name">>, <<"piece length">>, <<"pieces">>} \subseteq DOMAIN v[2]
  /\ At(v, "name") = <<"String", m.name>>
  /\ At(v, "piece length") = <<"Integer", m.piece_length>>
  /\ At(v, "pieces") = <<"String", Concat(m.hashes)>>
  /\ IsMultiFile(v) <=> m.multi
  /\ m.multi => At(v, "files") = <<"List", FileTrees(m)>>
  /\ ~m.multi => <<"length">> \in DOMAIN v[2] /\ At(v, "length") = <<"Integer", m.files[1].length>>

LEMMA InfoTreeFacts ==
  ASSUME NEW m, IsMetainfo(m)
  PROVE  Stands(InfoText(m), InfoTree(m)) /\ IsInfoDict(InfoTree(m), m)
<1> DEFINE ps == InfoEntries(m)
           vs == InfoValues(m)
           d == DictOf(EntryPairs(ps, vs))
           v == InfoTree(m)
           D == {<<ps[k][1]>> : k \in 1 .. Len(ps)}
<1>1. m.multi \in BOOLEAN /\ m.private \in BOOLEAN
  BY MetainfoFacts, Zenon
<1>2. AreInfo(m, ps, vs) /\ AreEntries(ps, vs) /\ InOrder(ps)
  BY InfoEntryFacts, Zenon
<1>3. Stands(BDict(ps), DictFor(ps, vs)) /\ IsEntryDict(d, ps, vs)
  BY <1>2, StandsDict, EntryDict, Zenon
<1>4. InfoText(m) = BDict(ps)
  BY Zenon DEF InfoText, InfoEntries, FirstEntry, FileTexts
<1>5. v = DictFor(ps, vs) /\ v = <<"Dict", d>>
  BY Zenon DEF InfoTree, DictFor
<1> HIDE DEF ps, vs, d, v
<1>6. v[1] = "Dict" /\ v[2] = d
  BY <1>5
<1>7. /\ Len(ps) = IF m.private THEN 5 ELSE 4
      /\ ps[1] = FirstEntry(m) /\ ps[2][1] = "name" /\ ps[3][1] = "piece length" /\ ps[4][1] = "pieces"
      /\ m.private => ps[5][1] = "private"
      /\ vs[1] = FirstValue(m) /\ vs[2] = <<"String", m.name>> /\ vs[3] = <<"Integer", m.piece_length>>
      /\ vs[4] = <<"String", Concat(m.hashes)>>
  BY <1>2, Zenon DEF AreInfo
<1>8. /\ 1 \in 1 .. Len(ps) /\ 2 \in 1 .. Len(ps) /\ 3 \in 1 .. Len(ps) /\ 4 \in 1 .. Len(ps)
      /\ \A k \in 1 .. Len(ps) : k = 1 \/ k = 2 \/ k = 3 \/ k = 4 \/ (k = 5 /\ m.private)
  <2> DEFINE n == Len(ps)
  <2>1. (m.private => n = 5) /\ (~m.private => n = 4)
    BY <1>7, Zenon
  <2> HIDE DEF n
  <2>2. /\ 1 \in 1 .. n /\ 2 \in 1 .. n /\ 3 \in 1 .. n /\ 4 \in 1 .. n
        /\ \A k \in 1 .. n : k = 1 \/ k = 2 \/ k = 3 \/ k = 4 \/ (k = 5 /\ m.private)
    BY <1>1, <2>1
  <2> QED
    BY <2>2, Zenon DEF n
<1>9. DOMAIN d = D /\ \A k \in 1 .. Len(ps) : d[<<ps[k][1]>>] = vs[k]
  BY <1>3, Zenon DEF IsEntryDict
<1>10. /\ {<<ps[1][1]>>, <<ps[2][1]>>, <<ps[3][1]>>, <<ps[4][1]>>} \subseteq D
       /\ d[<<ps[1][1]>>] = vs[1] /\ d[<<ps[2][1]>>] = vs[2]
       /\ d[<<ps[3][1]>>] = vs[3] /\ d[<<ps[4][1]>>] = vs[4]
  <2> DEFINE key(k) == <<ps[k][1]>>
  <2>1. \A k \in 1 .. Len(ps) : key(k) \in D /\ d[key(k)] = vs[k]
    BY <1>9, Zenon
  <2> HIDE DEF D, key
  <2>2. /\ key(1) \in D /\ d[key(1)] = vs[1] /\ key(2) \in D /\ d[key(2)] = vs[2]
        /\ key(3) \in D /\ d[key(3)] = vs[3] /\ key(4) \in D /\ d[key(4)] = vs[4]
    BY <1>8, <2>1, Zenon
  <2> QED
    BY <2>2, Zenon DEF key
<1>11. ps[1][1] = IF m.multi THEN "files" ELSE "length"
  BY <1>7, FirstEntryFacts, Zenon
<1>12. IsMultiFile(v) <=> m.multi
  <2>1. ASSUME m.multi PROVE <<"files">> \in D
    BY <1>10, <1>11, <2>1, Zenon
  <2>2. ASSUME <<"files">> \in D, ~m.multi PROVE FALSE
    <3>1. PICK k \in 1 .. Len(ps) : <<"files">> = <<ps[k][1]>>
      BY <2>2, Zenon
    <3>2. ps[k][1] = "files"
      BY <3>1
    <3>3. ps[k][1] \in {"length", "name", "piece length", "pieces", "private"}
      BY <1>7, <1>8, <1>11, <2>2, Zenon
    <3> QED
      BY <3>2, <3>3
  <2> QED
    BY <1>6, <1>9, <2>1, <2>2, Zenon DEF IsMultiFile
<1>13. (m.multi => vs[1] = <<"List", FileTrees(m)>>) /\ (~m.multi => vs[1] = <<"Integer", m.files[1].length>>)
  BY <1>7, Zenon DEF FirstValue
<1>14. /\ d[<<"name">>] = <<"String", m.name>> /\ d[<<"piece length">>] = <<"Integer", m.piece_length>>
       /\ d[<<"pieces">>] = <<"String", Concat(m.hashes)>>
       /\ {<<"name">>, <<"piece length">>, <<"pieces">>} \subseteq D
  BY <1>7, <1>10, Zenon
<1>15. m.multi => d[<<"files">>] = <<"List", FileTrees(m)>>
  BY <1>10, <1>11, <1>13, Zenon
<1>16. ~m.multi => <<"length">> \in D /\ d[<<"length">>] = <<"Integer", m.files[1].length>>
  BY <1>10, <1>11, <1>13, Zenon
<1> HIDE DEF D
<1>17. IsInfoDict(v, m)
  BY <1>6, <1>9, <1>12, <1>14, <1>15, <1>16, Zenon DEF IsInfoDict, At
<1> QED
  BY <1>3, <1>4, <1>5, <1>17, Zenon DEF v

\* The whole file.
TorrentTree(m) ==
  DictFor(<<<<"announce", BString(m.url)>>, <<"info", InfoText(m)>>>>, <<<<"String", m.url>>, InfoTree(m)>>)

LEMMA TorrentTreeFacts ==
  ASSUME NEW m, IsMetainfo(m)
  PROVE  /\ Stands(TorrentText(m), TorrentTree(m))
         /\ IsPairDict(TorrentTree(m), "announce", <<"String", m.url>>, "info", InfoTree(m))
<1> DEFINE x == "announce"
           y == "info"
           s == BString(m.url)
           t == InfoText(m)
           a == <<"String", m.url>>
           b == InfoTree(m)
<1>1. Stands(s, a) /\ Stands(t, b)
  BY MetainfoFacts, StandsString, InfoTreeFacts, Zenon
<1>2. x \in Chars /\ y \in Chars /\ Rank(x) < Rank(y)
  BY NameFacts, Zenon
<1>3. TorrentText(m) = BDict(<<<<x, s>>, <<y, t>>>>)
  BY Zenon DEF TorrentText
<1>4. TorrentTree(m) = DictFor(<<<<x, s>>, <<y, t>>>>, <<a, b>>)
  BY Zenon DEF TorrentTree
<1> HIDE DEF x, y, s, t, a, b
<1>5. /\ Stands(BDict(<<<<x, s>>, <<y, t>>>>), DictFor(<<<<x, s>>, <<y, t>>>>, <<a, b>>))
      /\ IsPairDict(DictFor(<<<<x, s>>, <<y, t>>>>, <<a, b>>), x, a, y, b)
  BY <1>1, <1>2, TwoEntries, Zenon
<1>6. Stands(TorrentText(m), TorrentTree(m)) /\ IsPairDict(TorrentTree(m), x, a, y, b)
  BY <1>3, <1>4, <1>5, Zenon
<1> QED
  BY <1>6, Zenon DEF x, y, a, b

\* An answer of a tracker.
AnswerTree(r) ==
  DictFor(<<<<"interval", BInteger(r.interval)>>, <<"peers", BString(Concat(r.peers))>>>>,
          <<<<"Integer", r.interval>>, <<"String", Concat(r.peers)>>>>)

LEMMA AnswerTreeFacts ==
  ASSUME NEW r \in Responses
  PROVE  /\ Stands(AnswerText(r), AnswerTree(r))
         /\ IsPairDict(AnswerTree(r), "interval", <<"Integer", r.interval>>,
                       "peers", <<"String", Concat(r.peers)>>)
<1> DEFINE x == "interval"
           y == "peers"
           s == BInteger(r.interval)
           t == BString(Concat(r.peers))
           a == <<"Integer", r.interval>>
           b == <<"String", Concat(r.peers)>>
<1>1. Stands(s, a) /\ Stands(t, b)
  <2>1. r.interval \in 0 .. LongMax /\ r.peers \in Seq({q \in Seq(Chars) : Len(q) = 6})
    BY ResponsesAssumption, Zenon
  <2>2. 6 \in Nat
    OBVIOUS
  <2>3. Concat(r.peers) \in Seq(Chars)
    BY <2>1, <2>2, ConcatFixed, Zenon DEF HasInPlace
  <2> QED
    BY <2>1, <2>3, StandsString, StandsInteger, Zenon
<1>2. x \in Chars /\ y \in Chars /\ Rank(x) < Rank(y)
  BY NameFacts, Zenon
<1>3. AnswerText(r) = BDict(<<<<x, s>>, <<y, t>>>>)
  BY Zenon DEF AnswerText
<1>4. AnswerTree(r) = DictFor(<<<<x, s>>, <<y, t>>>>, <<a, b>>)
  BY Zenon DEF AnswerTree
<1> HIDE DEF x, y, s, t, a, b
<1>5. /\ Stands(BDict(<<<<x, s>>, <<y, t>>>>), DictFor(<<<<x, s>>, <<y, t>>>>, <<a, b>>))
      /\ IsPairDict(DictFor(<<<<x, s>>, <<y, t>>>>, <<a, b>>), x, a, y, b)
  BY <1>1, <1>2, TwoEntries, Zenon
<1>6. Stands(AnswerText(r), AnswerTree(r)) /\ IsPairDict(AnswerTree(r), x, a, y, b)
  BY <1>3, <1>4, <1>5, Zenon
<1> QED
  BY <1>6, Zenon DEF x, y, a, b

\* The parser makes of a text the dictionary that it stands for.
LEMMA DecodesDict ==
  ASSUME NEW t \in Texts, NEW v, Stands(t, v), v[1] = "Dict", NEW b
  PROVE  Decode(t, b).valid /\ Decode(t, b).value = v
<1> DEFINE r == Decode(t, b)
           e == <<"String", <<>>>>
<1>1. IF r.valid THEN Denoted(t) = {r.value} ELSE Denoted(t) \subseteq {e}
  BY DecodeRight, Zenon
<1>2. v \in Denoted(t)
  BY Zenon DEF Stands
<1>3. v # e
  <2>1. e[1] = "String" /\ "String" # "Dict"
    OBVIOUS
  <2> QED
    BY <2>1, Zenon
<1> HIDE DEF r, e
<1>4. r.valid /\ r.value = v
  BY <1>1, <1>2, <1>3, Zenon
<1> QED
  BY <1>4, Zenon DEF r

-----------------------------------------------------------------------------
(* The descriptor of a torrent *)

\* f gives the length of the files up to each place, to the n-th.
IsLengths(f, files, n) == f = [k \in 0 .. n |-> IF k = 0 THEN 0 ELSE f[k - 1] + files[k].length]

\* What the constructor of TorrentFile reads of a file.
FileOf(v) ==
  [length |-> At(v, "length")[2],
   filepath |-> [j \in DOMAIN At(v, "path")[2] |-> At(v, "path")[2][j][2]]]

IsFileDict(v) ==
  /\ Has(v, "length", "Integer")
  /\ Has(v, "path", "List")
  /\ \A j \in DOMAIN At(v, "path")[2] : At(v, "path")[2][j][1] = "String"

\* The descriptor d says what the torrent m is.
Says(d, m) ==
  /\ d.announce_url = m.url
  /\ d.info = InfoText(m)
  /\ d.name = m.name
  /\ d.files = m.files
  /\ d.length = TotalLength(m.files)
  /\ d.piece_length = m.piece_length
  /\ d.piece_hashes = m.hashes

\* The constructor of TorrentFile takes the tree of a torrent, and makes the
\* descriptor of the torrent of it.
LEMMA TorrentRead ==
  \A m :
    IsMetainfo(m) =>
      Accepts(TorrentTree(m)) /\ Says(DescriptorOf(TorrentTree(m)), m)

\* The length of all files is a number.
<1>TotalLengthType. ASSUME NEW files \in Seq(FileRecords)
                    PROVE  TotalLength(files) \in Nat
  <2> DEFINE L == Len(files)
             l(k) == files[k].length
             S == {n \in Nat : \E f : IsLengths(f, files, n)}
  <2>1. L \in Nat
    BY LenProperties, Zenon
  <2>2. ASSUME NEW k \in 1 .. L PROVE l(k) \in Nat
    <3>1. files[k] \in FileRecords
      BY ElementOfSeq, Zenon
    <3> QED
      BY <3>1, LongAssumption DEF FileRecords
  <2>3. 0 \in S
    <3> DEFINE f == [k \in 0 .. 0 |-> 0]
    <3>1. \A k \in 0 .. 0 : k = 0
      OBVIOUS
    <3>2. IsLengths(f, files, 0)
      BY <3>1, Zenon DEF IsLengths
    <3> HIDE DEF f
    <3>3. 0 \in Nat
      OBVIOUS
    <3> QED
      BY <3>2, <3>3, Zenon
  <2>4. ASSUME NEW n \in Nat, n \in S PROVE n + 1 \in S
    <3>1. PICK f : IsLengths(f, files, n)
      BY <2>4, Zenon
    <3>2. \A k \in 0 .. n : f[k] = IF k = 0 THEN 0 ELSE f[k - 1] + l(k)
      BY <3>1, Zenon DEF IsLengths
    <3> DEFINE g == [k \in 0 .. n + 1 |-> IF k <= n THEN f[k] ELSE f[n] + l(n + 1)]
    <3> HIDE DEF l
    <3>3. ASSUME NEW k \in 0 .. n + 1 PROVE g[k] = IF k = 0 THEN 0 ELSE g[k - 1] + l(k)
      <4>1. CASE k = 0
        <5>1. k <= n /\ k \in 0 .. n
          BY <4>1
        <5> QED
          BY <3>2, <4>1, <5>1, Zenon
      <4>2. CASE k # 0
        <5>1. k - 1 \in 0 .. n + 1 /\ k - 1 <= n
          BY <4>2
        <5>2. g[k - 1] = f[k - 1]
          BY <5>1, Zenon
        <5>3. CASE k <= n
          <6>1. k \in 0 .. n
            BY <5>3
          <6>2. f[k] = f[k - 1] + l(k)
            BY <3>2, <4>2, <6>1, Zenon
          <6> QED
            BY <4>2, <5>2, <5>3, <6>2, Zenon
        <5>4. CASE ~(k <= n)
          <6>1. k = n + 1 /\ k - 1 = n
            BY <5>4
          <6> QED
            BY <4>2, <5>2, <5>4, <6>1, Zenon
        <5> QED
          BY <5>3, <5>4, Zenon
      <4> QED
        BY <4>1, <4>2, Zenon
    <3>4. g = [k \in 0 .. n + 1 |-> g[k]]
      BY Zenon
    <3> HIDE DEF g
    <3>5. IsLengths(g, files, n + 1)
      BY <3>3, <3>4, Zenon DEF IsLengths, l
    <3>6. n + 1 \in Nat
      OBVIOUS
    <3> QED
      BY <3>5, <3>6, Zenon
  <2> HIDE DEF S
  <2>5. L \in S
    BY <2>1, <2>3, <2>4, Stepwise, Zenon
  <2> DEFINE h == CHOOSE f : IsLengths(f, files, L)
  <2>6. IsLengths(h, files, L)
    BY <2>5, Zenon DEF S
  <2>7. TotalLength(files) = h[L]
    BY Zenon DEF TotalLength, IsLengths
  <2> HIDE DEF h, L
  <2>8. \A k \in 0 .. L : h[k] = IF k = 0 THEN 0 ELSE h[k - 1] + l(k)
    BY <2>6, Zenon DEF IsLengths
  <2> HIDE DEF l
  <2> DEFINE T == {n \in Nat : n <= L => h[n] \in Nat}
  <2>9. 0 \in T
    BY <2>1, <2>8
  <2>10. ASSUME NEW n \in Nat, n \in T PROVE n + 1 \in T
    <3>1. CASE n + 1 <= L
      <4>1. n + 1 \in 0 .. L /\ n + 1 \in 1 .. L /\ n <= L /\ (n + 1) - 1 = n /\ n + 1 # 0
        BY <2>1, <3>1
      <4>2. h[n + 1] = h[n] + l(n + 1)
        BY <2>8, <4>1, Zenon
      <4>3. h[n] \in Nat /\ l(n + 1) \in Nat
        BY <2>2, <2>10, <4>1, Zenon
      <4> QED
        BY <4>2, <4>3
    <3>2. CASE ~(n + 1 <= L)
      BY <3>2
    <3> QED
      BY <3>1, <3>2, Zenon
  <2> HIDE DEF T
  <2>11. L \in T
    BY <2>1, <2>9, <2>10, Stepwise, Zenon
  <2>12. h[L] \in Nat
    BY <2>1, <2>11 DEF T
  <2> QED
    BY <2>7, <2>12, Zenon

\* A piece length is what it was as an int, and there is a piece for every hash.
<1>PiecesCounted. ASSUME NEW l \in Nat, NEW p \in 1 .. IntMax, NEW n \in Nat, l <= n * p, n * p < l + p
                  PROVE  ToInt(p) = p /\ Quotient(l + p - 1, p) = n
  <2> USE <1>PiecesCounted
  <2>1. IntMax \in Nat
    BY MetainfosAssumption, LongAssumption
  <2>2. ToInt(p) = p
    <3> DEFINE M == 2 * (IntMax + 1)
               a == p + IntMax + 1
    <3>1. a \in Nat /\ M \in Nat /\ a < M /\ a - IntMax - 1 = p
      BY <2>1
    <3>2. ToInt(p) = (a % M) - IntMax - 1
      BY Zenon DEF ToInt
    <3> HIDE DEF a, M
    <3>3. a % M = a
      BY <3>1
    <3> QED
      BY <3>1, <3>2, <3>3, Zenon
  <2>3. Quotient(l + p - 1, p) = n
    <3> DEFINE a == l + p - 1
    <3>1. a \in Nat /\ ~(a < 0) /\ ~(p < 0)
      BY <2>1
    <3>2. Quotient(a, p) = 1 * 1 * ((1 * a) \div (1 * p))
      BY <3>1, Zenon DEF Quotient
    <3>3. 1 * a = a /\ 1 * p = p
      BY <3>1
    <3>4. a \div p = n
      BY <2>1
    <3>5. Quotient(a, p) = 1 * 1 * n
      BY <3>2, <3>3, <3>4, Zenon
    <3> HIDE DEF a
    <3>6. 1 * 1 * n = n
      OBVIOUS
    <3> QED
      BY <3>5, <3>6, Zenon DEF a
  <2> QED
    BY <2>2, <2>3, Zenon

\* split_piece_hashes gives back the hashes that were put one behind the other.
<1>HashesSplit. ASSUME NEW hs \in Seq({h \in Seq(Chars) : Len(h) = HashSize})
                PROVE  Len(Concat(hs)) % HashSize = 0 /\ SplitHashes(Concat(hs)) = hs
  <2> DEFINE s == Concat(hs)
             n == Len(hs)
             H == HashSize
             T == {h \in Seq(Chars) : Len(h) = H}
  <2>1. H \in Nat \ {0} /\ H \in Nat
    BY MetainfosAssumption
  <2>2. /\ s \in Seq(Chars) /\ Len(s) = n * H
        /\ \A i \in 1 .. n : \A j \in 1 .. H : s[(i - 1) * H + j] = hs[i][j]
    <3>1. HasInPlace(s, Chars, H, hs)
      BY <2>1, ConcatFixed, Zenon
    <3> HIDE DEF s, H
    <3> QED
      BY <3>1, Zenon DEF HasInPlace
  <2>3. n \in Nat
    BY LenProperties, Zenon
  <2>4. \A k \in 1 .. n : hs[k] \in T
    BY <2>3, ElementOfSeq, Zenon
  <2> HIDE DEF s, n, H
  <2>5. (n * H) \div H = n /\ (n * H) % H = 0
    BY <2>1, <2>3
  <2>6. ASSUME NEW k \in 1 .. n PROVE SubSeq(s, (k - 1) * H + 1, k * H) = hs[k]
    <3> DEFINE a == (k - 1) * H + 1
               z == k * H
    <3>1. a \in 1 .. n * H + 1 /\ z \in a - 1 .. n * H /\ z - a + 1 = H /\ a \in Int /\ z \in Int
      <4>1. k - 1 \in Nat /\ n - k \in Nat
        BY <2>3
      <4>2. (k - 1) * H \in Nat /\ (n - k) * H \in Nat /\ k * H = (k - 1) * H + H /\ n * H = k * H + (n - k) * H
        BY <2>1, <2>3, <4>1
      <4> QED
        BY <2>1, <4>2
    <3>2. \A j \in 1 .. H : a + j - 1 = (k - 1) * H + j
      BY <2>1
    <3> HIDE DEF a, z
    <3>3. IsPart(SubSeq(s, a, z), Chars, s, a, z)
      BY <2>2, <3>1, PartFacts, Zenon
    <3>4. IsPart(hs[k], Chars, s, a, z)
      <4>1. hs[k] \in Seq(Chars) /\ Len(hs[k]) = H
        BY <2>4, Zenon
      <4>2. ASSUME NEW j \in 1 .. H PROVE hs[k][j] = s[a + j - 1]
        BY <2>2, <3>2, Zenon
      <4> QED
        BY <3>1, <4>1, <4>2, Zenon DEF IsPart
    <3>5. SubSeq(s, a, z) = hs[k]
      BY <3>1, <3>3, <3>4, PartUnique, Zenon
    <3> QED
      BY <3>5, Zenon DEF a, z
  <2>7. SplitHashes(s) = [k \in 1 .. n |-> hs[k]]
    <3>1. SplitHashes(s) = [k \in 1 .. (n * H) \div H |-> SubSeq(s, (k - 1) * H + 1, k * H)]
      BY <2>2, Zenon DEF SplitHashes, H
    <3> QED
      BY <2>5, <2>6, <3>1, Zenon
  <2>8. hs = [k \in 1 .. n |-> hs[k]]
    BY LenProperties DEF n
  <2> QED
    BY <2>2, <2>5, <2>7, <2>8, Zenon DEF s, H

<1>FileRead. ASSUME NEW f \in FileRecords
             PROVE  IsFileDict(FileTree(f)) /\ FileOf(FileTree(f)) = f
  <2> DEFINE v == FileTree(f)
             p == f.filepath
             l == f.length
             a == <<"Integer", l>>
             q == PathValues(f)
             b == <<"List", q>>
             Value(j) == <<"String", p[j]>>
  <2>1. IsPairDict(v, "length", a, "path", b)
    BY FileTreeFacts, Zenon
  <2>2. p \in Seq(Seq(Chars)) /\ f = [length |-> l, filepath |-> p]
    BY DEF FileRecords
  <2>3. DOMAIN p = 1 .. Len(p) /\ p = [j \in DOMAIN p |-> p[j]]
    BY <2>2, LenProperties
  <2>4. q = [j \in DOMAIN p |-> Value(j)]
    BY Zenon DEF PathValues
  <2> HIDE DEF v, q, p, l
  <2>5. a[1] = "Integer" /\ a[2] = l /\ b[1] = "List" /\ b[2] = q /\ \A j \in DOMAIN p : Value(j)[1] = "String" /\ Value(j)[2] = p[j]
    OBVIOUS
  <2> HIDE DEF a, b, Value
  <2>6. /\ v[1] = "Dict" /\ <<"length">> \in DOMAIN v[2] /\ <<"path">> \in DOMAIN v[2]
        /\ At(v, "length") = a /\ At(v, "path") = b
        /\ v[2][<<"length">>] = a /\ v[2][<<"path">>] = b
    BY <2>1, Zenon DEF IsPairDict, At
  <2>7. DOMAIN q = DOMAIN p /\ \A j \in DOMAIN p : q[j] = Value(j)
    BY <2>4, Zenon
  <2>8. IsFileDict(v)
    <3>1. Has(v, "length", "Integer") /\ Has(v, "path", "List")
      BY <2>5, <2>6, Zenon DEF Has
    <3>2. At(v, "path")[2] = q
      BY <2>5, <2>6, Zenon
    <3>3. ASSUME NEW j \in DOMAIN q PROVE q[j][1] = "String"
      <4>1. j \in DOMAIN p
        BY <2>7, Zenon
      <4>2. q[j] = Value(j) /\ Value(j)[1] = "String"
        BY <2>5, <2>7, <4>1, Zenon
      <4> QED
        BY <4>2, Zenon
    <3> QED
      BY <3>1, <3>2, <3>3, Zenon DEF IsFileDict
  <2>9. FileOf(v) = [length |-> l, filepath |-> [j \in DOMAIN p |-> p[j]]]
    <3>1. [j \in DOMAIN q |-> q[j][2]] = [j \in DOMAIN p |-> p[j]]
      BY <2>5, <2>7, Zenon
    <3>2. At(v, "length")[2] = l /\ At(v, "path")[2] = q
      BY <2>5, <2>6, Zenon
    <3> QED
      BY <3>1, <3>2, Zenon DEF FileOf
  <2> QED
    BY <2>2, <2>3, <2>8, <2>9, Zenon DEF v

\* Of the info dictionary it reads the files, and finds all it looks for.
<1>InfoRead. ASSUME NEW m, IsMetainfo(m), NEW v, IsInfoDict(v, m)
             PROVE  InfoComplete(v) /\ FilesOf(v) = m.files
  <2> USE <1>InfoRead
  <2> DEFINE n == Len(m.files)
             a == <<"String", m.name>>
             b == <<"Integer", m.piece_length>>
             c == <<"String", Concat(m.hashes)>>
             e == <<"Integer", m.files[1].length>>
             g == <<"List", FileTrees(m)>>
  <2>1. /\ m.multi \in BOOLEAN /\ m.files \in Seq(FileRecords)
        /\ m.hashes \in Seq({h \in Seq(Chars) : Len(h) = HashSize})
    BY MetainfoFacts, Zenon
  <2>2. Len(Concat(m.hashes)) % HashSize = 0
    BY <2>1, <1>HashesSplit, Zenon
  <2>3. /\ a[1] = "String" /\ a[2] = m.name /\ b[1] = "Integer" /\ c[1] = "String" /\ c[2] = Concat(m.hashes)
        /\ e[1] = "Integer" /\ e[2] = m.files[1].length /\ g[1] = "List" /\ g[2] = FileTrees(m)
    OBVIOUS
  <2>4. /\ v[1] = "Dict"
        /\ <<"name">> \in DOMAIN v[2] /\ <<"piece length">> \in DOMAIN v[2] /\ <<"pieces">> \in DOMAIN v[2]
        /\ At(v, "name") = a /\ At(v, "piece length") = b /\ At(v, "pieces") = c
        /\ IsMultiFile(v) <=> m.multi
        /\ m.multi => At(v, "files") = g
        /\ ~m.multi => <<"length">> \in DOMAIN v[2] /\ At(v, "length") = e
    BY Zenon DEF IsInfoDict
  <2> HIDE DEF a, b, c, e, g
  <2>5. /\ Has(v, "name", "String") /\ Has(v, "piece length", "Integer") /\ Has(v, "pieces", "String")
        /\ Len(At(v, "pieces")[2]) % HashSize = 0
    BY <2>2, <2>3, <2>4, Zenon DEF Has, At
  <2>6. CASE m.multi
    <3> DEFINE vs == At(v, "files")[2]
    <3>1. IsMultiFile(v) /\ Has(v, "files", "List") /\ vs = FileTrees(m)
      BY <2>3, <2>4, <2>6, Zenon DEF Has, At, IsMultiFile
    <3>2. DOMAIN m.files = 1 .. n /\ m.files = [k \in DOMAIN m.files |-> m.files[k]]
      BY <2>1, LenProperties
    <3>3. \A k \in DOMAIN m.files : m.files[k] \in FileRecords
      BY <2>1, <3>2, ElementOfSeq, Zenon
    <3>4. \A k \in DOMAIN m.files : IsFileDict(FileTree(m.files[k])) /\ FileOf(FileTree(m.files[k])) = m.files[k]
      BY <3>3, <1>FileRead, Zenon
    <3> HIDE DEF vs
    <3>5. DOMAIN vs = DOMAIN m.files /\ \A k \in DOMAIN m.files : vs[k] = FileTree(m.files[k])
      BY <3>1, Zenon DEF FileTrees
    <3>6. \A k \in DOMAIN vs : IsFileDict(vs[k]) /\ FileOf(vs[k]) = m.files[k]
      BY <3>4, <3>5, Zenon
    <3>7. InfoComplete(v)
      BY <2>5, <3>1, <3>6, Zenon DEF InfoComplete, IsFileDict, vs
    <3>8. FilesOf(v) = [k \in DOMAIN vs |-> FileOf(vs[k])]
      BY <3>1, Zenon DEF FilesOf, FileOf, vs
    <3>9. [k \in DOMAIN vs |-> FileOf(vs[k])] = [k \in DOMAIN m.files |-> m.files[k]]
      BY <3>5, <3>6, Zenon
    <3> QED
      BY <3>2, <3>7, <3>8, <3>9, Zenon
  <2>7. CASE ~m.multi
    <3>1. InfoComplete(v)
      BY <2>3, <2>4, <2>5, <2>7, Zenon DEF InfoComplete, Has, At
    <3>2. FilesOf(v) = <<[length |-> m.files[1].length, filepath |-> <<m.name>>]>>
      BY <2>3, <2>4, <2>7, Zenon DEF FilesOf
    <3>3. m.files = <<[length |-> m.files[1].length, filepath |-> <<m.name>>]>>
      BY <2>7, Zenon DEF IsMetainfo
    <3> QED
      BY <3>1, <3>2, <3>3, Zenon
  <2> QED
    BY <2>1, <2>6, <2>7, Zenon

\* to_string of a value, by its type.
<1>EncodeSteps. ASSUME NEW v
                PROVE  /\ v[1] = "Integer" => Encode5(v) = EncodeInt(v[2]) /\ Encode3(v) = EncodeInt(v[2])
                       /\ v[1] = "String" => Encode5(v) = EncodeString(v[2]) /\ Encode2(v) = EncodeString(v[2])
                       /\ v[1] = "List" =>
                            /\ Encode5(v) = <<"l">> \o Concat([k \in DOMAIN v[2] |-> Encode4(v[2][k])]) \o <<"e">>
                            /\ Encode3(v) = <<"l">> \o Concat([k \in DOMAIN v[2] |-> Encode2(v[2][k])]) \o <<"e">>
                       /\ LET keys == SortedKeys(DOMAIN v[2]) IN
                          v[1] = "Dict" /\ (\A k \in DOMAIN keys : keys[k] \in DOMAIN v[2]) =>
                            /\ Encode(v) = <<"d">> \o Concat([k \in DOMAIN keys |-> EncodeString(keys[k]) \o Encode5(v[2][keys[k]])]) \o <<"e">>
                            /\ Encode4(v) = <<"d">> \o Concat([k \in DOMAIN keys |-> EncodeString(keys[k]) \o Encode3(v[2][keys[k]])]) \o <<"e">>
  <2>1. "Integer" # "String" /\ "Integer" # "List" /\ "Integer" # "Dict" /\ "String" # "List" /\ "String" # "Dict" /\ "List" # "Dict"
    OBVIOUS
  <2>2. ASSUME v[1] = "Integer" PROVE Encode5(v) = EncodeInt(v[2]) /\ Encode3(v) = EncodeInt(v[2])
    BY <2>1, <2>2, Zenon DEF Encode5, Encode3, EncodeWith
  <2>3. ASSUME v[1] = "String" PROVE Encode5(v) = EncodeString(v[2]) /\ Encode2(v) = EncodeString(v[2])
    BY <2>1, <2>3, Zenon DEF Encode5, Encode2, EncodeWith
  <2>4. ASSUME v[1] = "List"
        PROVE  /\ Encode5(v) = <<"l">> \o Concat([k \in DOMAIN v[2] |-> Encode4(v[2][k])]) \o <<"e">>
               /\ Encode3(v) = <<"l">> \o Concat([k \in DOMAIN v[2] |-> Encode2(v[2][k])]) \o <<"e">>
    BY <2>1, <2>4, Zenon DEF Encode5, Encode3, EncodeWith
  <2> DEFINE keys == SortedKeys(DOMAIN v[2])
             p == [j \in DOMAIN v[2] |-> Encode5(v[2][j])]
             q == [j \in DOMAIN v[2] |-> Encode3(v[2][j])]
  <2>5. ASSUME v[1] = "Dict", \A k \in DOMAIN keys : keys[k] \in DOMAIN v[2]
        PROVE  /\ Encode(v) = <<"d">> \o Concat([k \in DOMAIN keys |-> EncodeString(keys[k]) \o Encode5(v[2][keys[k]])]) \o <<"e">>
               /\ Encode4(v) = <<"d">> \o Concat([k \in DOMAIN keys |-> EncodeString(keys[k]) \o Encode3(v[2][keys[k]])]) \o <<"e">>
    <3>1. /\ Encode(v) = <<"d">> \o Concat([k \in DOMAIN keys |-> EncodeString(keys[k]) \o p[keys[k]]]) \o <<"e">>
          /\ Encode4(v) = <<"d">> \o Concat([k \in DOMAIN keys |-> EncodeString(keys[k]) \o q[keys[k]]]) \o <<"e">>
      BY <2>1, <2>5, Zenon DEF Encode, Encode4, EncodeWith
    <3>2. \A j \in DOMAIN v[2] : p[j] = Encode5(v[2][j]) /\ q[j] = Encode3(v[2][j])
      BY Zenon
    <3> HIDE DEF keys, p, q
    <3>3. /\ [k \in DOMAIN keys |-> EncodeString(keys[k]) \o p[keys[k]]]
               = [k \in DOMAIN keys |-> EncodeString(keys[k]) \o Encode5(v[2][keys[k]])]
          /\ [k \in DOMAIN keys |-> EncodeString(keys[k]) \o q[keys[k]]]
               = [k \in DOMAIN keys |-> EncodeString(keys[k]) \o Encode3(v[2][keys[k]])]
      BY <2>5, <3>2, Zenon
    <3> QED
      BY <3>1, <3>3, Zenon
  <2> QED
    BY <2>2, <2>3, <2>4, <2>5, Zenon

\* Written in the order of the names, a dictionary of names and values is its
\* text again if the values are.
<1>DictEncoded. ASSUME NEW ps, NEW vs, AreEntries(ps, vs), InOrder(ps)
                PROVE  /\ (\A k \in 1 .. Len(ps) : Encode5(vs[k]) = ps[k][2]) => Encode(DictFor(ps, vs)) = BDict(ps)
                       /\ (\A k \in 1 .. Len(ps) : Encode3(vs[k]) = ps[k][2]) => Encode4(DictFor(ps, vs)) = BDict(ps)
  <2> USE <1>DictEncoded
  <2> DEFINE n == Len(ps)
             d == DictOf(EntryPairs(ps, vs))
             v == DictFor(ps, vs)
             keys == SortedKeys(DOMAIN v[2])
             key(k) == <<ps[k][1]>>
             w == Concat(EntryTexts(ps))
  <2>1. DOMAIN ps = 1 .. n
    BY EntryTypes, Zenon DEF AreForms
  <2>2. /\ \A k \in 1 .. n : key(k) \in DOMAIN d /\ d[key(k)] = vs[k]
        /\ SortedKeys(DOMAIN d) = [k \in 1 .. n |-> key(k)]
    <3>1. IsEntryDict(d, ps, vs)
      BY EntryDict, Zenon
    <3> HIDE DEF d
    <3> QED
      BY <3>1, Zenon DEF IsEntryDict
  <2>3. v = <<"Dict", d>>
    BY Zenon DEF DictFor
  <2> HIDE DEF d, v
  <2>4. v[1] = "Dict" /\ v[2] = d
    BY <2>3
  <2>5. keys = [k \in 1 .. n |-> key(k)]
    BY <2>2, <2>4, Zenon
  <2>6. DOMAIN keys = 1 .. n /\ \A k \in 1 .. n : keys[k] = key(k)
    BY <2>5, Zenon
  <2>7. /\ Encode(v) = <<"d">> \o Concat([k \in DOMAIN keys |-> EncodeString(keys[k]) \o Encode5(v[2][keys[k]])]) \o <<"e">>
        /\ Encode4(v) = <<"d">> \o Concat([k \in DOMAIN keys |-> EncodeString(keys[k]) \o Encode3(v[2][keys[k]])]) \o <<"e">>
    <3>1. \A k \in DOMAIN keys : keys[k] \in DOMAIN v[2]
      BY <2>2, <2>4, <2>6, Zenon
    <3> QED
      BY <2>4, <3>1, <1>EncodeSteps, Zenon
  <2> HIDE DEF keys, n
  <2>8. \A k \in 1 .. n : EncodeString(keys[k]) = BString(key(k)) /\ v[2][keys[k]] = vs[k]
    BY <2>2, <2>4, <2>6, Zenon DEF EncodeString, BString
  <2>9. BDict(ps) = <<"d">> \o w \o <<"e">> /\ w = Concat([k \in 1 .. n |-> BString(key(k)) \o ps[k][2]])
    BY <2>1, Zenon DEF BDict, EntryTexts
  <2> HIDE DEF key, w
  <2>10. ASSUME \A k \in 1 .. n : Encode5(vs[k]) = ps[k][2] PROVE Encode(v) = BDict(ps)
    <3>1. [k \in DOMAIN keys |-> EncodeString(keys[k]) \o Encode5(v[2][keys[k]])] = [k \in 1 .. n |-> BString(key(k)) \o ps[k][2]]
      BY <2>6, <2>8, <2>10, Zenon
    <3> QED
      BY <2>7, <2>9, <3>1, Zenon
  <2>11. ASSUME \A k \in 1 .. n : Encode3(vs[k]) = ps[k][2] PROVE Encode4(v) = BDict(ps)
    <3>1. [k \in DOMAIN keys |-> EncodeString(keys[k]) \o Encode3(v[2][keys[k]])] = [k \in 1 .. n |-> BString(key(k)) \o ps[k][2]]
      BY <2>6, <2>8, <2>11, Zenon
    <3> QED
      BY <2>7, <2>9, <3>1, Zenon
  <2> QED
    BY <2>10, <2>11, Zenon DEF v, n

\* Strings and numbers that are not negative.
<1>SimpleEncoded. ASSUME NEW s, NEW n \in 0 .. LongMax
                  PROVE  /\ Encode5(<<"String", s>>) = BString(s) /\ Encode2(<<"String", s>>) = BString(s)
                         /\ Encode5(<<"Integer", n>>) = BInteger(n) /\ Encode3(<<"Integer", n>>) = BInteger(n)
  <2> DEFINE u == <<"String", s>>
             v == <<"Integer", n>>
  <2>1. u[1] = "String" /\ u[2] = s /\ v[1] = "Integer" /\ v[2] = n
    OBVIOUS
  <2> HIDE DEF u, v
  <2>2. ~(n < 0)
    BY LongAssumption
  <2>3. EncodeString(s) = BString(s) /\ EncodeInt(n) = BInteger(n)
    BY <2>2, Zenon DEF EncodeString, BString, EncodeInt, BInteger
  <2>4. Encode5(u) = BString(s) /\ Encode2(u) = BString(s) /\ Encode5(v) = BInteger(n) /\ Encode3(v) = BInteger(n)
    BY <2>1, <2>3, <1>EncodeSteps, Zenon
  <2> QED
    BY <2>4, Zenon DEF u, v

<1>FileEncoded. ASSUME NEW f \in FileRecords
                PROVE  Encode4(FileTree(f)) = FileText(f)
  <2> DEFINE ps == FileEntries(f)
             vs == FileValues(f)
             p == <<"length", BInteger(f.length)>>
             q == <<"path", BList(PathTexts(f))>>
             a == <<"Integer", f.length>>
             b == <<"List", PathValues(f)>>
  <2>1. f.length \in 0 .. LongMax
    BY DEF FileRecords
  <2>2. Encode3(a) = BInteger(f.length)
    BY <2>1, <1>SimpleEncoded, Zenon
  <2>3. Encode3(b) = BList(PathTexts(f))
    <3>1. b[1] = "List" /\ b[2] = PathValues(f)
      OBVIOUS
    <3> HIDE DEF b
    <3>2. Encode3(b) = <<"l">> \o Concat([k \in DOMAIN b[2] |-> Encode2(b[2][k])]) \o <<"e">>
      BY <3>1, <1>EncodeSteps, Zenon
    <3>3. [k \in DOMAIN b[2] |-> Encode2(b[2][k])] = PathTexts(f)
      BY <2>1, <3>1, <1>SimpleEncoded, Zenon DEF PathValues, PathTexts
    <3> QED
      BY <3>2, <3>3, Zenon DEF BList
  <2>4. p[2] = BInteger(f.length) /\ q[2] = BList(PathTexts(f))
    OBVIOUS
  <2>5. ps = <<p, q>> /\ vs = <<a, b>>
    BY Zenon DEF FileEntries, FileValues
  <2> HIDE DEF p, q, a, b, ps, vs
  <2>6. Len(ps) = 2 /\ ps[1] = p /\ ps[2] = q /\ vs[1] = a /\ vs[2] = b
    BY <2>5
  <2>7. ASSUME NEW k \in 1 .. Len(ps) PROVE Encode3(vs[k]) = ps[k][2]
    <3>1. k = 1 \/ k = 2
      BY <2>6
    <3> QED
      BY <2>2, <2>3, <2>4, <2>6, <3>1, Zenon
  <2>8. AreEntries(ps, vs) /\ InOrder(ps)
    BY FileTreeFacts, Zenon DEF ps, vs
  <2>9. Encode4(DictFor(ps, vs)) = BDict(ps)
    BY <2>7, <2>8, <1>DictEncoded, Zenon
  <2> QED
    BY <2>9, Zenon DEF FileTree, FileText, FileEntries, PathTexts, ps, vs

\* The info dictionary is encoded as it stood in the file: what the info hash
\* is made of.
<1>InfoEncoded. ASSUME NEW m, IsMetainfo(m)
                PROVE  Encode(InfoTree(m)) = InfoText(m)
  <2> USE <1>InfoEncoded
  <2> DEFINE ps == InfoEntries(m)
             vs == InfoValues(m)
             l == m.files[1].length
             g == <<"List", FileTrees(m)>>
  <2>1. /\ m.multi \in BOOLEAN /\ m.private \in BOOLEAN /\ m.files \in Seq(FileRecords)
        /\ ~m.multi => m.files[1] \in FileRecords
        /\ m.piece_length \in 0 .. LongMax /\ 1 \in 0 .. LongMax
    BY MetainfoFacts, Zenon
  <2>2. AreInfo(m, ps, vs) /\ AreEntries(ps, vs) /\ InOrder(ps)
    BY InfoEntryFacts, Zenon
  <2>3. Encode5(FirstValue(m)) = FirstEntry(m)[2]
    <3>1. CASE m.multi
      <4>1. FirstValue(m) = g /\ FirstEntry(m)[2] = BList(FileTexts(m))
        BY <3>1, FirstEntryFacts, Zenon DEF FirstValue
      <4>2. g[1] = "List" /\ g[2] = FileTrees(m)
        OBVIOUS
      <4> HIDE DEF g
      <4>3. Encode5(g) = <<"l">> \o Concat([k \in DOMAIN g[2] |-> Encode4(g[2][k])]) \o <<"e">>
        BY <4>2, <1>EncodeSteps, Zenon
      <4>4. DOMAIN m.files = 1 .. Len(m.files)
        BY <2>1, LenProperties, Zenon
      <4>5. \A k \in DOMAIN m.files : Encode4(FileTree(m.files[k])) = FileText(m.files[k])
        BY <2>1, <4>4, ElementOfSeq, <1>FileEncoded, Zenon
      <4>6. [k \in DOMAIN g[2] |-> Encode4(g[2][k])] = FileTexts(m)
        BY <4>2, <4>5, Zenon DEF FileTrees, FileTexts
      <4> QED
        BY <4>1, <4>3, <4>6, Zenon DEF BList
    <3>2. CASE ~m.multi
      <4>1. FirstValue(m) = <<"Integer", l>> /\ FirstEntry(m)[2] = BInteger(l)
        BY <3>2, FirstEntryFacts, Zenon DEF FirstValue
      <4>2. l \in 0 .. LongMax
        BY <2>1, <3>2 DEF FileRecords
      <4> QED
        BY <4>1, <4>2, <1>SimpleEncoded, Zenon
    <3> QED
      BY <2>1, <3>1, <3>2, Zenon
  <2> HIDE DEF ps, vs
  <2>4. /\ Len(ps) = IF m.private THEN 5 ELSE 4
        /\ ps[1] = FirstEntry(m) /\ vs[1] = FirstValue(m)
        /\ ps[2][2] = BString(m.name) /\ vs[2] = <<"String", m.name>>
        /\ ps[3][2] = BInteger(m.piece_length) /\ vs[3] = <<"Integer", m.piece_length>>
        /\ ps[4][2] = BString(Concat(m.hashes)) /\ vs[4] = <<"String", Concat(m.hashes)>>
        /\ m.private => ps[5][2] = BInteger(1) /\ vs[5] = <<"Integer", 1>>
    BY <2>2, Zenon DEF AreInfo
  <2>5. /\ Encode5(vs[1]) = ps[1][2] /\ Encode5(vs[2]) = ps[2][2] /\ Encode5(vs[3]) = ps[3][2]
        /\ Encode5(vs[4]) = ps[4][2] /\ (m.private => Encode5(vs[5]) = ps[5][2])
    <3>1. /\ Encode5(<<"String", m.name>>) = BString(m.name)
          /\ Encode5(<<"Integer", m.piece_length>>) = BInteger(m.piece_length)
          /\ Encode5(<<"String", Concat(m.hashes)>>) = BString(Concat(m.hashes))
          /\ Encode5(<<"Integer", 1>>) = BInteger(1)
      BY <2>1, <1>SimpleEncoded, Zenon
    <3> QED
      BY <2>3, <2>4, <3>1, Zenon
  <2>6. ASSUME NEW k \in 1 .. Len(ps) PROVE Encode5(vs[k]) = ps[k][2]
    <3>1. k = 1 \/ k = 2 \/ k = 3 \/ k = 4 \/ (k = 5 /\ m.private)
      <4> DEFINE n == Len(ps)
      <4>1. (m.private => n = 5) /\ (~m.private => n = 4)
        BY <2>4, Zenon
      <4> HIDE DEF n
      <4>2. k \in 1 .. n
        BY Zenon DEF n
      <4> QED
        BY <2>1, <4>1, <4>2
    <3> QED
      BY <2>5, <3>1, Zenon
  <2>7. Encode(DictFor(ps, vs)) = BDict(ps)
    BY <2>2, <2>6, <1>DictEncoded, Zenon
  <2> QED
    BY <2>7, Zenon DEF InfoTree, InfoText, InfoEntries, FirstEntry, FileTexts, ps, vs

<1> SUFFICES ASSUME NEW m, IsMetainfo(m)
             PROVE  Accepts(TorrentTree(m)) /\ Says(DescriptorOf(TorrentTree(m)), m)
  BY Zenon
<1> DEFINE v == TorrentTree(m)
           u == InfoTree(m)
           a == <<"String", m.url>>
           b == <<"String", m.name>>
           c == <<"Integer", m.piece_length>>
           e == <<"String", Concat(m.hashes)>>
           T == TotalLength(m.files)
           p == m.piece_length
           n == Len(m.hashes)
           d == DescriptorOf(v)
<1>1. /\ m.files \in Seq(FileRecords)
      /\ m.hashes \in Seq({h \in Seq(Chars) : Len(h) = HashSize})
  BY MetainfoFacts, Zenon
<1>2. p \in 1 .. IntMax /\ T <= n * p /\ n * p < T + p
  BY Zenon DEF IsMetainfo
<1>3. T \in Nat /\ n \in Nat
  BY <1>1, <1>TotalLengthType, LenProperties, Zenon
<1>4. ToInt(p) = p /\ Quotient(T + p - 1, p) = n
  BY <1>2, <1>3, <1>PiecesCounted, Zenon
<1>5. SplitHashes(Concat(m.hashes)) = m.hashes
  BY <1>1, <1>HashesSplit, Zenon
<1>6. IsPairDict(v, "announce", a, "info", u) /\ IsInfoDict(u, m)
  BY TorrentTreeFacts, InfoTreeFacts, Zenon
<1>7. InfoComplete(u) /\ FilesOf(u) = m.files /\ Encode(u) = InfoText(m)
  BY <1>6, <1>InfoRead, <1>InfoEncoded, Zenon
<1>8. p # 0
  BY <1>2, MetainfosAssumption
<1>9. a[1] = "String" /\ a[2] = m.url /\ b[2] = m.name /\ c[2] = p /\ e[2] = Concat(m.hashes)
  OBVIOUS
<1> HIDE DEF a, b, c, e, u, v, T, p, n
<1>10. /\ Has(v, "announce", "String") /\ At(v, "announce")[2] = m.url
       /\ At(v, "info") = u /\ u[1] = "Dict" /\ Has(v, "info", "Dict")
  BY <1>6, <1>9, Zenon DEF IsPairDict, IsInfoDict, Has, At
<1>11. At(u, "name")[2] = m.name /\ At(u, "piece length")[2] = p /\ At(u, "pieces")[2] = Concat(m.hashes)
  BY <1>6, <1>9, Zenon DEF IsInfoDict, b, c, e, p
<1>12. d = [announce_url |-> m.url, info |-> InfoText(m), name |-> m.name, files |-> m.files, length |-> T,
            piece_length |-> p, piece_hashes |-> m.hashes, pieces_count |-> n]
  BY <1>4, <1>5, <1>7, <1>10, <1>11, Zenon DEF DescriptorOf, T
<1> HIDE DEF d
<1>13. /\ d.announce_url = m.url /\ d.info = InfoText(m) /\ d.name = m.name /\ d.files = m.files /\ d.length = T
       /\ d.piece_length = p /\ d.piece_hashes = m.hashes /\ d.pieces_count = n
  BY <1>12
<1>14. Accepts(v)
  <2>1. d.pieces_count = Len(d.piece_hashes)
    BY <1>13, Zenon DEF n
  <2> QED
    BY <1>4, <1>7, <1>8, <1>10, <1>11, <2>1, Zenon DEF Accepts, d
<1>15. Says(d, m)
  BY <1>13, Zenon DEF Says, T, p
<1> QED
  BY <1>14, <1>15, Zenon DEF d, v

-----------------------------------------------------------------------------
(* The peers of an answer *)

\* Each peer is one of the list, and there are none only if the list is empty.
ArePeersOf(s, ps) ==
  /\ s = <<>> <=> ps = <<>>
  /\ \A n \in DOMAIN s : \E k \in DOMAIN ps : Address(s[n]) = Listed(ps[k])

\* parse_tracker_response reads within the text: every other record.
LEMMA PeersRead ==
  \A ps \in Seq({q \in Seq(Chars) : Len(q) = 6}) : \A b :
    ArePeersOf(PeersOf(Concat(ps), b), ps)

\* The octets that were put together are found again.
<1>WordParts. ASSUME NEW h \in Nat, NEW l \in 0 .. Octets - 1
              PROVE  Word(h, l) \in Nat /\ Word(h, l) \div Octets = h /\ Word(h, l) % Octets = l
  <2>1. Octets \in Nat \ {0}
    BY AlphabetFacts DEF Octets
  <2> DEFINE w == h * Octets + l
  <2>2. w \in Nat
    BY <2>1
  <2>3. w \div Octets = h /\ w % Octets = l
    BY <2>1
  <2> QED
    BY <2>2, <2>3, Zenon DEF Word

\* Six octets make a peer with the address that they stand for.
<1>AddressRead. ASSUME NEW q, \A j \in 1 .. 6 : q[j] \in Chars,
                       NEW p, p = [ip |-> Word(Word(Word(Octet(q[1]), Octet(q[2])), Octet(q[3])), Octet(q[4])),
                                   port |-> Word(Octet(q[5]), Octet(q[6]))]
                PROVE  Address(p) = Listed(q)
  <2> USE <1>AddressRead
  <2> DEFINE o(j) == Octet(q[j])
             x == Word(o(1), o(2))
             y == Word(x, o(3))
             z == Word(y, o(4))
  <2>0. Octets \in Nat \ {0}
    BY AlphabetFacts DEF Octets
  <2>1. ASSUME NEW c \in Chars PROVE Octet(c) \in 0 .. Octets - 1 /\ Octet(c) \in Nat
    <3>1. Rank(c) \in 1 .. Octets
      BY RankFacts, Zenon DEF Octets
    <3>2. Rank(c) - 1 \in 0 .. Octets - 1 /\ Rank(c) - 1 \in Nat
      BY <2>0, <3>1
    <3> QED
      BY <3>2, Zenon DEF Octet
  <2>2. 1 \in 1 .. 6 /\ 2 \in 1 .. 6 /\ 3 \in 1 .. 6 /\ 4 \in 1 .. 6
    OBVIOUS
  <2>3. /\ o(1) \in 0 .. Octets - 1 /\ o(1) \in Nat /\ o(2) \in 0 .. Octets - 1
        /\ o(3) \in 0 .. Octets - 1 /\ o(4) \in 0 .. Octets - 1
    BY <2>1, <2>2, Zenon
  <2>4. p.ip = z /\ p.port = Word(o(5), o(6))
    OBVIOUS
  <2> HIDE DEF o
  <2>5. x \in Nat /\ x \div Octets = o(1) /\ x % Octets = o(2)
    BY <2>3, <1>WordParts, Zenon
  <2> HIDE DEF x
  <2>6. y \in Nat /\ y \div Octets = x /\ y % Octets = o(3)
    BY <2>3, <2>5, <1>WordParts, Zenon
  <2> HIDE DEF y
  <2>7. z \div Octets = y /\ z % Octets = o(4)
    BY <2>3, <2>6, <1>WordParts, Zenon
  <2> HIDE DEF z
  <2>8. o(1) % Octets = o(1)
    BY <2>0, <2>3
  <2>9. Address(p) = <<<<((z \div Octets) \div Octets) \div Octets % Octets, ((z \div Octets) \div Octets) % Octets,
                         (z \div Octets) % Octets, z % Octets>>, Word(o(5), o(6))>>
    BY <2>4, Zenon DEF Address
  <2>10. Address(p) = <<<<o(1), o(2), o(3), o(4)>>, Word(o(5), o(6))>>
    BY <2>5, <2>6, <2>7, <2>8, <2>9, Zenon
  <2> QED
    BY <2>10, Zenon DEF Listed, Word, o

<1> SUFFICES ASSUME NEW ps \in Seq({q \in Seq(Chars) : Len(q) = 6}), NEW b
             PROVE  ArePeersOf(PeersOf(Concat(ps), b), ps)
  BY Zenon
<1> DEFINE u == Concat(ps)
           L == Len(ps)
           N == (Len(u) + 11) \div 12
           s == PeersOf(u, b)
           T == {q \in Seq(Chars) : Len(q) = 6}
<1>1. 6 \in Nat
  OBVIOUS
<1>2. HasInPlace(u, Chars, 6, ps)
  BY <1>1, ConcatFixed, Zenon
<1>3. s = [n \in 1 .. N |-> PeerAt(u, 12 * n - 11, b)]
  BY Zenon DEF PeersOf
<1>4. L \in Nat /\ DOMAIN ps = 1 .. L
  BY LenProperties, Zenon
<1>5. \A k \in 1 .. L : ps[k] \in T
  BY <1>4, ElementOfSeq, Zenon
<1> HIDE DEF u, s
<1>6. /\ Len(u) = L * 6
      /\ \A i \in 1 .. L : \A j \in 1 .. 6 : u[(i - 1) * 6 + j] = ps[i][j]
  BY <1>2, Zenon DEF HasInPlace
<1>7. N \in Nat /\ (\A n \in 1 .. N : 2 * n - 1 \in 1 .. L) /\ (N = 0 <=> L = 0)
  BY <1>4, <1>6
<1> HIDE DEF L, N
<1>8. ASSUME NEW n \in 1 .. N PROVE \E k \in 1 .. L : Address(s[n]) = Listed(ps[k])
  <2> DEFINE k == 2 * n - 1
             q == ps[k]
             o(j) == Octet(CharAt(u, b, (12 * n - 11) + j - 1))
  <2>1. k \in 1 .. L /\ \A j \in 1 .. 6 : (12 * n - 11) + j - 1 = (k - 1) * 6 + j /\ (k - 1) * 6 + j <= Len(u)
    BY <1>4, <1>6, <1>7
  <2> HIDE DEF k
  <2>2. q \in Seq(Chars) /\ Len(q) = 6
    BY <1>5, <2>1, Zenon
  <2>3. \A j \in 1 .. 6 : q[j] \in Chars
    BY <2>2, ElementOfSeq, Zenon
  <2>4. ASSUME NEW j \in 1 .. 6 PROVE o(j) = Octet(q[j])
    BY <1>6, <2>1, Zenon DEF CharAt
  <2>5. 1 \in 1 .. 6 /\ 2 \in 1 .. 6 /\ 3 \in 1 .. 6 /\ 4 \in 1 .. 6 /\ 5 \in 1 .. 6 /\ 6 \in 1 .. 6
    OBVIOUS
  <2>6. s[n] = [ip |-> Word(Word(Word(o(1), o(2)), o(3)), o(4)), port |-> Word(o(5), o(6))]
    BY <1>3, Zenon DEF PeerAt
  <2> HIDE DEF o, q
  <2>7. s[n] = [ip |-> Word(Word(Word(Octet(q[1]), Octet(q[2])), Octet(q[3])), Octet(q[4])),
                port |-> Word(Octet(q[5]), Octet(q[6]))]
    BY <2>4, <2>5, <2>6, Zenon
  <2>8. Address(s[n]) = Listed(q)
    BY <2>3, <2>7, <1>AddressRead, Zenon
  <2> QED
    BY <2>1, <2>8, Zenon DEF q
<1>9. s = <<>> <=> ps = <<>>
  <2>1. s = <<>> <=> N = 0
    <3> DEFINE S == {s[n] : n \in 1 .. N}
    <3>1. s \in [1 .. N -> S]
      BY <1>3, Zenon
    <3> HIDE DEF S
    <3>2. s \in Seq(S) /\ Len(s) = N
      BY <1>7, <3>1, FunctionIsSeq, Zenon
    <3> QED
      BY <3>2, EmptySeq, Zenon
  <2>2. ps = <<>> <=> L = 0
    BY EmptySeq, Zenon DEF L
  <2> QED
    BY <1>7, <2>1, <2>2, Zenon
<1>10. DOMAIN s = 1 .. N
  BY <1>3, Zenon
<1> QED
  BY <1>4, <1>8, <1>9, <1>10, Zenon DEF ArePeersOf, s, u

-----------------------------------------------------------------------------
(* The parser on what it is given *)

\* The file stays the one that it was.
FileOK == file \in Files

LEMMA FileStays == Spec => []FileOK
<1>1. Init => FileOK
  BY Zenon DEF Init, FileOK
<1>2. FileOK /\ [Next]_vars => FileOK'
  <2>1. [Next]_vars => UNCHANGED file
    BY Zenon DEF Next, vars, Load, Parse, Describe, Prepare, Announce, Check, Done
  <2> QED
    BY <2>1, Zenon DEF FileOK
<1> QED
  BY <1>1, <1>2, PTL DEF Spec

\* The parser accepts exactly the texts of the grammar and makes of each the
\* value it denotes: for every text, whatever is in memory behind it.
THEOREM Spec_DecodesGrammar == Spec => []DecodesGrammar
<1>1. FileOK => DecodesGrammar
  <2> SUFFICES ASSUME FileOK, NEW b \in Beyond
               PROVE  LET r == Decode(file.text, b) IN
                      IF r.valid THEN Denoted(file.text) = {r.value}
                                 ELSE Denoted(file.text) \subseteq {<<"String", <<>>>>}
    BY Zenon DEF DecodesGrammar
  <2>1. file.text \in Texts
    BY TextsAssumption, Zenon DEF FileOK
  <2> QED
    BY <2>1, DecodeRight, Zenon
<1> QED
  BY <1>1, FileStays, PTL

-----------------------------------------------------------------------------
(* add_torrent: what is known between its steps *)

\* Nobody was asked yet, and there is no entry.
Unanswered == answer = Nothing /\ peers = <<>> /\ state = "Absent" /\ result = "none"

\* The tree is one that the text of the file denotes, of a torrent the one
\* that was written.
TreeOK ==
  /\ tree \in Denoted(file.text)
  /\ file.torrent # Nothing => tree = TorrentTree(file.torrent)

Answered == answer # Nothing /\ answer.status \in 200 .. 399

Compact == answer # Nothing /\ answer.response # Nothing

\* There are peers only if the tracker answered, and if the answer is a
\* response exactly if it lists one.
AnswerOK ==
  /\ answer # Nothing
  /\ peers # <<>> => Answered
  /\ Compact => (peers # <<>> <=> Answered /\ answer.response.peers # <<>>)

AddInv ==
  /\ FileOK
  /\ stage \in {"load", "parse", "describe", "prepare", "announce"} => Unanswered
  /\ stage = "describe" => TreeOK
  /\ stage \in {"prepare", "announce", "check"} => file.torrent # Nothing
  /\ stage = "check" => AnswerOK /\ state = "Loading" /\ result = "none"
  /\ DescriptorFaithful
  /\ AddedIffServed
  /\ PeersAreListed

\* Of the text of a torrent the parser makes its tree, of any text what it denotes.
LEMMA FileDecoded ==
  ASSUME FileOK, NEW b
  PROVE  LET r == Decode(file.text, b) IN
         /\ r.valid => r.value \in Denoted(file.text)
         /\ file.torrent # Nothing => r.valid /\ r.value = TorrentTree(file.torrent)
<1> DEFINE t == file.text
           m == file.torrent
           r == Decode(t, b)
<1>1. t \in Texts
  BY TextsAssumption, Zenon DEF FileOK
<1>2. IF r.valid THEN Denoted(t) = {r.value} ELSE Denoted(t) \subseteq {<<"String", <<>>>>}
  BY <1>1, DecodeRight, Zenon
<1>3. r.valid => r.value \in Denoted(t)
  <2> HIDE DEF r
  <2> QED
    BY <1>2, Zenon
<1>4. ASSUME m # Nothing PROVE r.valid /\ r.value = TorrentTree(m)
  <2>1. m \in Metainfos /\ t = TorrentText(m)
    <3>1. CASE \E n \in Metainfos : file = [text |-> TorrentText(n), torrent |-> n]
      <4>1. PICK n \in Metainfos : file = [text |-> TorrentText(n), torrent |-> n]
        BY <3>1, Zenon
      <4>2. m = n /\ t = TorrentText(n)
        BY <4>1
      <4> QED
        BY <4>2, Zenon
    <3>2. CASE \E s \in Junk : file = [text |-> s, torrent |-> Nothing]
      <4>1. PICK s \in Junk : file = [text |-> s, torrent |-> Nothing]
        BY <3>2, Zenon
      <4>2. m = Nothing
        BY <4>1
      <4> QED
        BY <1>4, <4>2, Zenon
    <3> QED
      BY <3>1, <3>2, Zenon DEF FileOK, Files
  <2>2. IsMetainfo(m)
    BY <2>1, MetainfosAssumption, Zenon
  <2> DEFINE v == TorrentTree(m)
  <2>3. Stands(t, v) /\ v[1] = "Dict"
    BY <2>1, <2>2, TorrentTreeFacts, Zenon DEF IsPairDict
  <2> HIDE DEF t, v, m
  <2>4. r.valid /\ r.value = v
    BY <1>1, <2>3, DecodesDict, Zenon
  <2> QED
    BY <2>4, Zenon DEF v
<1> QED
  BY <1>3, <1>4, Zenon

\* TorrentFile is made of the tree exactly if the file describes a torrent.
LEMMA TreeDescribed ==
  ASSUME FileOK, TreeOK
  PROVE  /\ Accepts(tree) <=> file.torrent # Nothing
         /\ file.torrent # Nothing => Says(DescriptorOf(tree), file.torrent)
<1>1. CASE \E n \in Metainfos : file = [text |-> TorrentText(n), torrent |-> n]
  <2>1. PICK n \in Metainfos : file = [text |-> TorrentText(n), torrent |-> n]
    BY <1>1, Zenon
  <2>2. file.torrent = n
    BY <2>1
  <2>3. n # Nothing /\ IsMetainfo(n)
    BY NothingAssumption, MetainfosAssumption, Zenon
  <2>4. tree = TorrentTree(n)
    BY <2>2, <2>3, Zenon DEF TreeOK
  <2> QED
    BY <2>2, <2>3, <2>4, TorrentRead, Zenon
<1>2. CASE \E s \in Junk : file = [text |-> s, torrent |-> Nothing]
  <2>1. PICK s \in Junk : file = [text |-> s, torrent |-> Nothing]
    BY <1>2, Zenon
  <2>2. file.torrent = Nothing /\ file.text = s
    BY <2>1
  <2>3. ~Accepts(tree)
    BY <2>2, JunkAssumption, Zenon DEF TreeOK
  <2> QED
    BY <2>2, <2>3, Zenon
<1> QED
  BY <1>1, <1>2, Zenon DEF FileOK, Files

\* Of a response the peers are made that it lists, nothing is thrown.
LEMMA AnswerDecoded ==
  ASSUME NEW a \in Answers, a.response # Nothing, NEW b
  PROVE  LET v == Decode(a.text, b).value IN
         /\ Decode(a.text, b).valid
         /\ Has(v, "interval", "Integer") /\ Has(v, "peers", "String")
         /\ ArePeersOf(PeersOf(At(v, "peers")[2], b), a.response.peers)
<1>1. a.text \in Texts
  BY TextsAssumption, Zenon
<1>2. PICK r \in Responses : a = [text |-> AnswerText(r), response |-> r]
  <2>1. CASE \E s \in Noise : a = [text |-> s, response |-> Nothing]
    <3>1. PICK s \in Noise : a = [text |-> s, response |-> Nothing]
      BY <2>1, Zenon
    <3>2. a.response = Nothing
      BY <3>1
    <3> QED
      BY <3>2, Zenon
  <2> QED
    BY <2>1, Zenon DEF Answers
<1>3. a.response = r /\ a.text = AnswerText(r)
  BY <1>2
<1> DEFINE v == AnswerTree(r)
           c == <<"Integer", r.interval>>
           e == <<"String", Concat(r.peers)>>
<1>4. Stands(a.text, v) /\ IsPairDict(v, "interval", c, "peers", e)
  BY <1>3, AnswerTreeFacts, Zenon
<1>5. c[1] = "Integer" /\ e[1] = "String" /\ e[2] = Concat(r.peers)
  OBVIOUS
<1> HIDE DEF v, c, e
<1>6. /\ v[1] = "Dict" /\ Has(v, "interval", "Integer") /\ Has(v, "peers", "String")
      /\ At(v, "peers")[2] = Concat(r.peers)
  BY <1>4, <1>5, Zenon DEF IsPairDict, Has, At
<1>7. Decode(a.text, b).valid /\ Decode(a.text, b).value = v
  BY <1>1, <1>4, <1>6, DecodesDict, Zenon
<1>8. r.peers \in Seq({q \in Seq(Chars) : Len(q) = 6})
  BY ResponsesAssumption, Zenon
<1>9. ArePeersOf(PeersOf(Concat(r.peers), b), r.peers)
  BY <1>8, PeersRead, Zenon
<1> QED
  BY <1>3, <1>6, <1>7, <1>9, Zenon

EarlyStages == {"load", "parse", "describe", "prepare", "announce"}

\* A step before the announce: add_torrent goes on, returns that loading
\* failed, or ends with a file that describes no torrent.
LEMMA EarlyStep ==
  ASSUME AddInv, stage \in EarlyStages, UNCHANGED <<file, answer, peers, state>>,
         \/ stage' \in EarlyStages /\ UNCHANGED result
         \/ stage' = "returned" /\ result' = "LoadingTorrentFailed"
         \/ stage' = "ended" /\ file.torrent = Nothing,
         stage' = "describe" => TreeOK',
         stage' \in {"prepare", "announce"} => file.torrent # Nothing,
         DescriptorFaithful'
  PROVE  AddInv'
<1>1. FileOK /\ Unanswered
  BY Zenon DEF AddInv, EarlyStages
<1>2. answer' = Nothing /\ peers' = <<>> /\ state' = "Absent" /\ file' = file
  BY <1>1, Zenon DEF Unanswered
<1>3. \A s \in EarlyStages : s # "check" /\ s # "returned" /\ s # "ended"
  BY DEF EarlyStages
<1>4. "returned" \notin EarlyStages /\ "ended" \notin EarlyStages /\ "check" \notin EarlyStages
  BY DEF EarlyStages
<1>5. FileOK'
  BY <1>1, <1>2, Zenon DEF FileOK
<1>6. stage' # "check"
  BY <1>3
<1>7. stage' \in EarlyStages => Unanswered'
  BY <1>1, <1>2, <1>4, Zenon DEF Unanswered
<1>8. AddedIffServed'
  <2>1. stage' = "returned" => result' = "LoadingTorrentFailed"
    BY <1>3, Zenon
  <2>2. stage' = "ended" => file'.torrent = Nothing
    BY <1>2, <1>3, Zenon
  <2>3. "LoadingTorrentFailed" # "OK" /\ "LoadingTorrentFailed" # "GenericError"
    OBVIOUS
  <2>4. ~(answer # Nothing)'
    BY <1>2, Zenon
  <2>5. ASSUME stage' = "returned"
        PROVE  (result' # "OK") /\ state' = CASE result' = "OK" -> "Downloading"
                                              [] result' = "GenericError" -> "Error"
                                              [] OTHER -> "Absent"
    BY <1>2, <2>1, <2>3, <2>5, Zenon
  <2> QED
    BY <2>2, <2>4, <2>5, Zenon DEF AddedIffServed
<1>9. PeersAreListed'
  BY <1>2, Zenon DEF PeersAreListed
<1>10. stage' = "describe" \/ stage' \in {"prepare", "announce"} => file'.torrent = file.torrent
  BY <1>2, Zenon
<1> QED
  BY <1>2, <1>5, <1>6, <1>7, <1>8, <1>9, <1>10, Zenon DEF AddInv, EarlyStages

LEMMA LoadStep == AddInv /\ Load => AddInv'
<1> SUFFICES ASSUME AddInv, Load PROVE AddInv'
  OBVIOUS
<1>1. /\ stage \in EarlyStages /\ UNCHANGED <<file, answer, peers, state, descriptor>>
      /\ \/ stage' = "parse" /\ UNCHANGED result
         \/ stage' = "returned" /\ result' = "LoadingTorrentFailed"
  BY Zenon DEF Load, Continues, Returns, EarlyStages
<1>2. DescriptorFaithful'
  BY <1>1, Zenon DEF AddInv, DescriptorFaithful
<1>3. "parse" \in EarlyStages /\ stage' # "describe" /\ stage' \notin {"prepare", "announce"}
  BY <1>1 DEF EarlyStages
<1> QED
  BY <1>1, <1>2, <1>3, EarlyStep, Zenon

LEMMA ParseStep == AddInv /\ Parse => AddInv'
<1> SUFFICES ASSUME AddInv, Parse PROVE AddInv'
  OBVIOUS
<1>1. /\ stage \in EarlyStages /\ UNCHANGED <<file, answer, peers, state, descriptor>>
  BY Zenon DEF Parse, EarlyStages
<1>2. DescriptorFaithful'
  BY <1>1, Zenon DEF AddInv, DescriptorFaithful
<1>3. FileOK
  BY Zenon DEF AddInv
<1>4. PICK b \in Beyond :
        LET r == Decode(file.text, b) IN
        \/ r.valid /\ Continues("describe") /\ tree' = r.value
        \/ ~r.valid /\ r.error # "out_of_range" /\ Returns("LoadingTorrentFailed") /\ UNCHANGED tree
        \/ ~r.valid /\ r.error = "out_of_range" /\ Ends /\ UNCHANGED tree
  BY Zenon DEF Parse
<1> DEFINE r == Decode(file.text, b)
<1>5. /\ r.valid => r.value \in Denoted(file.text)
      /\ file.torrent # Nothing => r.valid /\ r.value = TorrentTree(file.torrent)
  BY <1>3, FileDecoded, Zenon
<1>6. CASE r.valid /\ Continues("describe") /\ tree' = r.value
  <2>1. stage' = "describe" /\ UNCHANGED result /\ TreeOK'
    BY <1>1, <1>5, <1>6, Zenon DEF Continues, TreeOK
  <2>2. "describe" \in EarlyStages /\ stage' \notin {"prepare", "announce"}
    BY <2>1 DEF EarlyStages
  <2> QED
    BY <1>1, <1>2, <2>1, <2>2, EarlyStep, Zenon
<1>7. CASE ~r.valid /\ Returns("LoadingTorrentFailed")
  <2>1. stage' = "returned" /\ result' = "LoadingTorrentFailed"
    BY <1>7, Zenon DEF Returns
  <2>2. stage' # "describe" /\ stage' \notin {"prepare", "announce"}
    BY <2>1
  <2> QED
    BY <1>1, <1>2, <2>1, <2>2, EarlyStep, Zenon
<1>8. CASE ~r.valid /\ Ends
  <2>1. stage' = "ended" /\ file.torrent = Nothing
    BY <1>5, <1>8, Zenon DEF Ends
  <2>2. stage' # "describe" /\ stage' \notin {"prepare", "announce"}
    BY <2>1
  <2> QED
    BY <1>1, <1>2, <2>1, <2>2, EarlyStep, Zenon
<1> QED
  BY <1>4, <1>6, <1>7, <1>8, Zenon

LEMMA DescribeStep == AddInv /\ Describe => AddInv'
<1> SUFFICES ASSUME AddInv, Describe PROVE AddInv'
  OBVIOUS
<1>1. stage = "describe" /\ stage \in EarlyStages /\ UNCHANGED <<file, answer, peers, state>>
  BY Zenon DEF Describe, EarlyStages
<1>2. FileOK /\ TreeOK /\ DescriptorFaithful
  BY <1>1, Zenon DEF AddInv
<1>3. /\ Accepts(tree) <=> file.torrent # Nothing
      /\ file.torrent # Nothing => Says(DescriptorOf(tree), file.torrent)
  BY <1>2, TreeDescribed, Zenon
<1>4. CASE Accepts(tree) /\ Continues("prepare") /\ descriptor' = DescriptorOf(tree)
  <2>1. DescriptorFaithful'
    BY <1>1, <1>3, <1>4, Zenon DEF DescriptorFaithful, Says
  <2>2. stage' = "prepare" /\ UNCHANGED result /\ file.torrent # Nothing
    BY <1>3, <1>4, Zenon DEF Continues
  <2>3. "prepare" \in EarlyStages /\ stage' # "describe"
    BY <2>2 DEF EarlyStages
  <2> QED
    BY <1>1, <2>1, <2>2, <2>3, EarlyStep, Zenon
<1>5. CASE ~Accepts(tree) /\ Ends /\ UNCHANGED descriptor
  <2>1. DescriptorFaithful'
    BY <1>1, <1>2, <1>5, Zenon DEF DescriptorFaithful
  <2>2. stage' = "ended" /\ file.torrent = Nothing
    BY <1>3, <1>5, Zenon DEF Ends
  <2>3. stage' # "describe" /\ stage' \notin {"prepare", "announce"}
    BY <2>2
  <2> QED
    BY <1>1, <2>1, <2>2, <2>3, EarlyStep, Zenon
<1> QED
  BY <1>4, <1>5, Zenon DEF Describe

LEMMA PrepareStep == AddInv /\ Prepare => AddInv'
<1> SUFFICES ASSUME AddInv, Prepare PROVE AddInv'
  OBVIOUS
<1>1. /\ stage = "prepare" /\ stage \in EarlyStages /\ UNCHANGED <<file, answer, peers, state, descriptor>>
      /\ \/ stage' = "announce" /\ UNCHANGED result
         \/ stage' = "returned" /\ result' = "LoadingTorrentFailed"
  BY Zenon DEF Prepare, Continues, Returns, EarlyStages
<1>2. DescriptorFaithful' /\ file.torrent # Nothing
  BY <1>1, Zenon DEF AddInv, DescriptorFaithful
<1>3. "announce" \in EarlyStages /\ stage' # "describe"
  BY <1>1 DEF EarlyStages
<1> QED
  BY <1>1, <1>2, <1>3, EarlyStep, Zenon

\* What is asked of the steps after the announce.
LateInv ==
  /\ stage = "check" => AnswerOK /\ state = "Loading" /\ result = "none"
  /\ AddedIffServed
  /\ PeersAreListed

\* Such a step changes neither the file nor the descriptor.
LEMMA LateStep ==
  ASSUME AddInv, file.torrent # Nothing, UNCHANGED <<file, descriptor>>,
         stage' \in {"check", "returned", "ended"}, LateInv'
  PROVE  AddInv'
<1>1. FileOK' /\ DescriptorFaithful' /\ (file.torrent # Nothing)'
  BY Zenon DEF AddInv, FileOK, DescriptorFaithful
<1>2. stage' \notin {"load", "parse", "describe", "prepare", "announce"} /\ stage' # "describe"
  OBVIOUS
<1> QED
  BY <1>1, <1>2, Zenon DEF AddInv, LateInv

\* An error is a status that is not one of success or redirection.
LEMMA StatusFacts ==
  ASSUME NEW s \in Statuses
  PROVE  IsError(s) <=> s \notin 200 .. 399
<1>1. s = 0 \/ s \in 200 .. 599
  BY StatusesAssumption
<1> QED
  BY <1>1 DEF IsError

LEMMA AnnounceStep ==
  ASSUME AddInv, NEW s \in Statuses, NEW a \in Answers, Announce(s, a)
  PROVE  AddInv'
<1>1. stage = "announce" /\ answer' = [status |-> s, response |-> a.response] /\ UNCHANGED <<file, descriptor>>
  BY Zenon DEF Announce
<1>2. peers = <<>> /\ result = "none" /\ file.torrent # Nothing
  BY <1>1, Zenon DEF AddInv, Unanswered
<1>3. answer'.status = s /\ answer'.response = a.response
  BY <1>1
<1>4. answer' # Nothing
  <2>1. a.response \in Responses \union {Nothing}
    <3>1. CASE \E r \in Responses : a = [text |-> AnswerText(r), response |-> r]
      BY <3>1
    <3>2. CASE \E t \in Noise : a = [text |-> t, response |-> Nothing]
      BY <3>2
    <3> QED
      BY <3>1, <3>2, Zenon DEF Answers
  <2> QED
    BY <1>1, <2>1, NothingAssumption, Zenon
<1>5. (Answered' <=> ~IsError(s)) /\ (Compact' <=> a.response # Nothing)
  <2>1. s \in 200 .. 399 <=> ~IsError(s)
    BY StatusFacts
  <2> QED
    BY <1>3, <1>4, <2>1 DEF Answered, Compact
<1>6. "check" # "returned" /\ "check" # "ended" /\ "ended" # "returned" /\ "ended" # "check"
  OBVIOUS
<1>7. ASSUME stage' = "check" PROVE AddedIffServed'
  BY <1>1, <1>2, <1>6, <1>7, Zenon DEF AddedIffServed
<1>8. ASSUME peers' = <<>> PROVE PeersAreListed'
  <2>1. \A n \in DOMAIN <<>> : FALSE
    OBVIOUS
  <2> QED
    BY <1>8, <2>1, Zenon DEF PeersAreListed

\* No peers: an error, or no response.
<1>9. ASSUME KeepsPeers, Continues("check"), state' = "Loading", IsError(s) \/ a.response = Nothing
      PROVE  AddInv'
  <2>1. peers' = <<>> /\ stage' = "check" /\ result' = "none"
    BY <1>2, <1>9, Zenon DEF KeepsPeers, Continues
  <2>2. ~(Compact' /\ Answered')
    BY <1>5, <1>9, Zenon
  <2>3. AnswerOK'
    BY <1>4, <2>1, <2>2, Zenon DEF AnswerOK
  <2>4. LateInv'
    BY <1>7, <1>8, <1>9, <2>1, <2>3, Zenon DEF LateInv
  <2> QED
    BY <1>1, <1>2, <2>1, <2>4, LateStep, Zenon
\* An exception: there is an answer, but no response.
<1>10. ASSUME KeepsPeers, Ends, ~IsError(s), a.response = Nothing
       PROVE  AddInv'
  <2>1. peers' = <<>> /\ stage' = "ended"
    BY <1>2, <1>10, Zenon DEF KeepsPeers, Ends
  <2>2. Answered' /\ ~Compact'
    BY <1>5, <1>10, Zenon
  <2>3. AddedIffServed'
    BY <1>1, <1>2, <1>6, <2>1, <2>2, Zenon DEF AddedIffServed, Answered, Compact
  <2>4. LateInv'
    BY <1>6, <1>8, <2>1, <2>3, Zenon DEF LateInv
  <2> QED
    BY <1>1, <1>2, <2>1, <2>4, LateStep, Zenon
<1>11. CASE IsError(s)
  <2>1. KeepsPeers /\ Continues("check") /\ state' = "Loading"
    BY <1>11, Zenon DEF Announce
  <2> QED
    BY <1>9, <1>11, <2>1, Zenon
<1>12. CASE ~IsError(s)
  <2> DEFINE Readable(v) == Has(v, "interval", "Integer") /\ Has(v, "peers", "String")
             Peers(v, b) == PeersOf(At(v, "peers")[2], b)
  <2>1. PICK b \in Beyond :
          LET r == Decode(a.text, b) IN
          \/ ~r.valid /\ KeepsPeers /\ Continues("check") /\ state' = "Loading"
          \/ ~r.valid /\ KeepsPeers /\ Ends
          \/ r.valid /\ Readable(r.value) /\ peers' = Peers(r.value, b) /\ Continues("check") /\ state' = "Loading"
          \/ r.valid /\ ~Readable(r.value) /\ KeepsPeers /\ Ends
    BY <1>12, Zenon DEF Announce, SetsPeers
  <2> DEFINE r == Decode(a.text, b)
  <2>2. a.response # Nothing => r.valid /\ Readable(r.value) /\ ArePeersOf(Peers(r.value, b), a.response.peers)
    BY AnswerDecoded, Zenon
  <2> HIDE DEF r, Readable, Peers
  <2>3. CASE ~r.valid /\ KeepsPeers /\ Continues("check") /\ state' = "Loading"
    BY <1>9, <2>2, <2>3, Zenon
  <2>4. CASE (~r.valid \/ ~Readable(r.value)) /\ KeepsPeers /\ Ends
    BY <1>10, <1>12, <2>2, <2>4, Zenon
  <2>5. CASE peers' = Peers(r.value, b) /\ Continues("check") /\ state' = "Loading"
    <3>1. stage' = "check" /\ result' = "none"
      BY <1>2, <2>5, Zenon DEF Continues
    <3>2. Compact' => ArePeersOf(peers', answer'.response.peers)
      BY <1>3, <1>5, <2>2, <2>5, Zenon
    <3>3. AnswerOK'
      BY <1>4, <1>5, <1>12, <3>2, Zenon DEF AnswerOK, ArePeersOf
    <3>4. PeersAreListed'
      BY <3>2, Zenon DEF PeersAreListed, ArePeersOf, Compact
    <3>5. LateInv'
      BY <1>7, <2>5, <3>1, <3>3, <3>4, Zenon DEF LateInv
    <3> QED
      BY <1>1, <1>2, <3>1, <3>5, LateStep, Zenon
  <2> QED
    BY <2>1, <2>3, <2>4, <2>5, Zenon DEF r
<1> QED
  BY <1>11, <1>12, Zenon

LEMMA CheckStep == AddInv /\ Check => AddInv'
<1> SUFFICES ASSUME AddInv, Check PROVE AddInv'
  OBVIOUS
<1>1. stage = "check" /\ UNCHANGED <<file, descriptor, answer, peers>>
  BY Zenon DEF Check
<1>2. AnswerOK /\ file.torrent # Nothing /\ PeersAreListed
  BY <1>1, Zenon DEF AddInv
<1>3. PeersAreListed'
  BY <1>1, <1>2, Zenon DEF PeersAreListed
<1>4. /\ stage' = "returned"
      /\ \/ peers = <<>> /\ state' = "Error" /\ result' = "GenericError"
         \/ peers # <<>> /\ state' = "Downloading" /\ result' = "OK"
  BY Zenon DEF Check, Returns
<1>5. "OK" # "GenericError" /\ "returned" # "ended" /\ "returned" # "check"
  OBVIOUS
<1>6. result' = "OK" <=> peers # <<>>
  BY <1>4, <1>5, Zenon
<1>7. state' = CASE result' = "OK" -> "Downloading"
                 [] result' = "GenericError" -> "Error"
                 [] OTHER -> "Absent"
  BY <1>4, <1>5, Zenon
<1>8. AddedIffServed'
  BY <1>1, <1>2, <1>4, <1>5, <1>6, <1>7, Zenon DEF AddedIffServed, AnswerOK, Answered, Compact
<1>9. LateInv'
  BY <1>3, <1>4, <1>5, <1>8, Zenon DEF LateInv
<1> QED
  BY <1>1, <1>2, <1>4, <1>9, LateStep, Zenon

LEMMA InitStep == Init => AddInv
<1> SUFFICES ASSUME Init PROVE AddInv
  OBVIOUS
<1>1. /\ stage = "load" /\ file \in Files /\ descriptor = Nothing /\ answer = Nothing
      /\ peers = <<>> /\ state = "Absent" /\ result = "none"
  BY Zenon DEF Init
<1>2. stage \notin {"prepare", "announce", "check"} /\ stage \notin {"describe", "returned", "ended"}
  BY <1>1
<1>3. FileOK /\ Unanswered
  BY <1>1, Zenon DEF FileOK, Unanswered
<1>4. DescriptorFaithful /\ AddedIffServed /\ PeersAreListed
  BY <1>1, <1>2, Zenon DEF DescriptorFaithful, AddedIffServed, PeersAreListed
<1> QED
  BY <1>2, <1>3, <1>4, Zenon DEF AddInv

\* What is known between the steps of add_torrent holds all along.
THEOREM Spec_AddInv == Spec => []AddInv
<1>1. AddInv /\ [Next]_vars => AddInv'
  <2> SUFFICES ASSUME AddInv, [Next]_vars PROVE AddInv'
    OBVIOUS
  <2>1. CASE Load
    BY <2>1, LoadStep, Zenon
  <2>2. CASE Parse
    BY <2>2, ParseStep, Zenon
  <2>3. CASE Describe
    BY <2>3, DescribeStep, Zenon
  <2>4. CASE Prepare
    BY <2>4, PrepareStep, Zenon
  <2>5. ASSUME NEW s \in Statuses, NEW a \in Answers, Announce(s, a) PROVE AddInv'
    BY <2>5, AnnounceStep, Zenon
  <2>6. CASE Check
    BY <2>6, CheckStep, Zenon
  <2>7. CASE UNCHANGED vars
    <3>1. UNCHANGED <<stage, file, tree, descriptor, answer, peers, state, result>>
      BY <2>7, Zenon DEF vars
    <3>2. /\ FileOK' <=> FileOK
          /\ Unanswered' <=> Unanswered
          /\ TreeOK' <=> TreeOK
          /\ AnswerOK' <=> AnswerOK
      BY <3>1, Zenon DEF FileOK, Unanswered, TreeOK, AnswerOK, Answered, Compact
    <3>3. DescriptorFaithful' <=> DescriptorFaithful
      BY <3>1, Zenon DEF DescriptorFaithful
    <3>4. AddedIffServed' <=> AddedIffServed
      BY <3>1 DEF AddedIffServed
    <3>5. PeersAreListed' <=> PeersAreListed
      BY <3>1, Zenon DEF PeersAreListed
    <3> QED
      BY <3>1, <3>2, <3>3, <3>4, <3>5, Zenon DEF AddInv
  <2> QED
    BY <2>1, <2>2, <2>3, <2>4, <2>5, <2>6, <2>7, Zenon DEF Next, Done
<1> QED
  BY InitStep, <1>1, PTL DEF Spec

\* The descriptor says what the file says, for every torrent: info hash, files
\* and hashes of the pieces.
THEOREM Spec_DescriptorFaithful == Spec => []DescriptorFaithful
<1>1. AddInv => DescriptorFaithful
  BY Zenon DEF AddInv
<1> QED
  BY <1>1, Spec_AddInv, PTL

\* add_torrent returns OK exactly if the file describes a torrent and its
\* tracker lists a peer, and the program ends only at a file that describes no
\* torrent or at an answer, with a good status, that is not a compact list.
THEOREM Spec_AddedIffServed == Spec => []AddedIffServed
<1>1. AddInv => AddedIffServed
  BY Zenon DEF AddInv
<1> QED
  BY <1>1, Spec_AddInv, PTL

\* Each peer that is asked for pieces is one the tracker listed, octet by octet.
THEOREM Spec_PeersAreListed == Spec => []PeersAreListed
<1>1. AddInv => PeersAreListed
  BY Zenon DEF AddInv
<1> QED
  BY <1>1, Spec_AddInv, PTL

=============================================================================
