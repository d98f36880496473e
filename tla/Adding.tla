------------------------------- MODULE Adding -------------------------------
(***************************************************************************)
(* add_torrent as the main thread runs it, up to the tasks: load the       *)
(* .torrent file, parse it, make a TorrentFile of it, prepare the files    *)
(* (PrepareFiles has the details), announce the torrent to its tracker and *)
(* start it if there are peers.  Nobody catches what is thrown on the way: *)
(* the program ends.                                                       *)
(***************************************************************************)
EXTENDS Bencode

CONSTANTS
  Metainfos,  \* the torrents that files describe
  Junk,       \* texts of files that describe none
  Responses,  \* what trackers answer: [interval, peers], six octets for each peer
  Noise,      \* other texts of answers: also a tracker that gives a failure reason, or
              \* lists the peers as dictionaries (announce asks for it: compact=0)
  Statuses,   \* of the HTTP response, 0 if there is none
  Beyond,     \* what a read beyond the end of a text may give
  HashSize,   \* of a piece hash (20)
  IntMax,     \* the largest value of an int
  Nothing     \* no torrent, tree, descriptor or answer

VARIABLES
  stage,        \* the next step of add_torrent, "returned", or "ended" by an exception
  file,         \* the .torrent file: its text, and the torrent it describes
  tree,         \* btree
  descriptor,
  answer,       \* of the tracker: the status, and the response its text stands for
  peers,        \* _peers of the Torrent
  scores,       \* _peers_score
  interval,     \* _update_interval
  state,        \* of the entry in _torrents, "Absent" without one
  result        \* of add_torrent

(* External: the texts of .torrent files and of the answers of trackers. *)

\* The dictionary of one of several files.
FileText(f) ==
  BDict(<<<<"length", BInteger(f.length)>>,
          <<"path", BList([k \in DOMAIN f.filepath |-> BString(f.filepath[k])])>>>>)

\* The info dictionary; what "private" says means nothing to Furrent.
InfoText(m) ==
  BDict(<<IF m.multi THEN <<"files", BList([k \in DOMAIN m.files |-> FileText(m.files[k])])>>
                     ELSE <<"length", BInteger(m.files[1].length)>>,
          <<"name", BString(m.name)>>,
          <<"piece length", BInteger(m.piece_length)>>,
          <<"pieces", BString(Concat(m.hashes))>>>>
        \o (IF m.private THEN <<<<"private", BInteger(1)>>>> ELSE <<>>))

TorrentText(m) == BDict(<<<<"announce", BString(m.url)>>, <<"info", InfoText(m)>>>>)

AnswerText(r) ==
  BDict(<<<<"interval", BInteger(r.interval)>>, <<"peers", BString(Concat(r.peers))>>>>)

Files ==
  {[text |-> TorrentText(m), torrent |-> m] : m \in Metainfos}
  \union {[text |-> t, torrent |-> Nothing] : t \in Junk}

Answers ==
  {[text |-> AnswerText(r), response |-> r] : r \in Responses}
  \union {[text |-> t, response |-> Nothing] : t \in Noise}

-----------------------------------------------------------------------------
vars == <<stage, file, tree, descriptor, answer, peers, scores, interval, state, result>>

Init ==
  /\ stage = "load"
  /\ file \in Files
  /\ tree = Nothing
  /\ descriptor = Nothing
  /\ answer = Nothing
  /\ peers = <<>>
  /\ scores = <<>>
  /\ interval = 0
  /\ state = "Absent"
  /\ result = "none"

Returns(r) == stage' = "returned" /\ result' = r

Ends == stage' = "ended" /\ UNCHANGED result

Continues(s) == stage' = s /\ UNCHANGED result

-----------------------------------------------------------------------------
(* TorrentFile::TorrentFile *)

\* dict.at(key) is there and can be cast to the type.
Has(v, key, type) ==
  v[1] = "Dict" /\ <<key>> \in DOMAIN v[2] /\ v[2][<<key>>][1] = type

At(v, key) == v[2][<<key>>]

\* The value of an int that a long is cast to.
ToInt(n) == ((n + IntMax + 1) % (2 * (IntMax + 1))) - IntMax - 1

\* The division of C++, which rounds towards zero.
Quotient(a, b) ==
  LET Sign(n) == IF n < 0 THEN -1 ELSE 1
  IN  Sign(a) * Sign(b) * ((Sign(a) * a) \div (Sign(b) * b))

IsMultiFile(info) == <<"files">> \in DOMAIN info[2]

\* Fault: only the name of each file is kept.
FilesOfFlat(info) ==
  IF IsMultiFile(info)
    THEN [k \in DOMAIN At(info, "files")[2] |->
            LET f == At(info, "files")[2][k] IN
            [length |-> At(f, "length")[2], filepath |-> <<At(f, "path")[2][Len(At(f, "path")[2])][2]>>]]
    ELSE <<[length |-> At(info, "length")[2], filepath |-> <<At(info, "name")[2]>>]>>

\* The files of a torrent of several files, or the one file.
FilesOf(info) ==
  IF IsMultiFile(info)
    THEN [k \in DOMAIN At(info, "files")[2] |->
            LET f == At(info, "files")[2][k]
                path == At(f, "path")[2]
            IN  [length |-> At(f, "length")[2], filepath |-> [j \in DOMAIN path |-> path[j][2]]]]
    ELSE <<[length |-> At(info, "length")[2], filepath |-> <<At(info, "name")[2]>>]>>

TotalLength(files) ==
  LET upto[k \in 0 .. Len(files)] == IF k = 0 THEN 0 ELSE upto[k - 1] + files[k].length
  IN  upto[Len(files)]

\* split_piece_hashes.
SplitHashes(s) ==
  [k \in 1 .. Len(s) \div HashSize |-> SubSeq(s, (k - 1) * HashSize + 1, k * HashSize)]

\* Everything the constructor looks for in the info is there.
InfoComplete(info) ==
  /\ Has(info, "name", "String")
  /\ Has(info, "piece length", "Integer")
  /\ Has(info, "pieces", "String")
  /\ Len(At(info, "pieces")[2]) % HashSize = 0
  /\ IF IsMultiFile(info)
       THEN /\ Has(info, "files", "List")
            /\ \A k \in DOMAIN At(info, "files")[2] :
                 LET f == At(info, "files")[2][k] IN
                 /\ Has(f, "length", "Integer")
                 /\ Has(f, "path", "List")
                 /\ \A j \in DOMAIN At(f, "path")[2] : At(f, "path")[2][j][1] = "String"
       ELSE Has(info, "length", "Integer")

\* The descriptor of a tree that is complete.
DescriptorOf(v) ==
  LET info == At(v, "info")
      files == FilesOf(info)
      length == TotalLength(files)
      piece_length == ToInt(At(info, "piece length")[2])
  IN  [announce_url |-> At(v, "announce")[2],
       info |-> Encode(info),
       name |-> At(info, "name")[2],
       files |-> files,
       length |-> length,
       piece_length |-> piece_length,
       piece_hashes |-> SplitHashes(At(info, "pieces")[2]),
       pieces_count |-> Quotient(length + piece_length - 1, piece_length)]

\* The constructor does not throw: there is a hash for every piece.
Accepts(v) ==
  /\ Has(v, "announce", "String")
  /\ Has(v, "info", "Dict")
  /\ InfoComplete(At(v, "info"))
  /\ ToInt(At(At(v, "info"), "piece length")[2]) # 0
  /\ DescriptorOf(v).pieces_count = Len(DescriptorOf(v).piece_hashes)

-----------------------------------------------------------------------------
(* What is assumed of the constants *)

Names == <<"announce", "files", "info", "interval", "length", "name", "path", "peers",
           "piece length", "pieces", "private">>

\* Characters that stand for names are in the order of the names.
ASSUME NamesAssumption ==
  /\ \A k \in DOMAIN Names : Names[k] \in Chars
  /\ \A j, k \in DOMAIN Names : j < k => Rank(Names[j]) < Rank(Names[k])

\* A torrent with a hash for every piece, whose numbers fit into their types.
IsMetainfo(m) ==
  /\ m.url \in Seq(Chars) /\ m.name \in Seq(Chars)
  /\ m.multi \in BOOLEAN /\ m.private \in BOOLEAN
  /\ m.files \in Seq([length : 0 .. LongMax, filepath : Seq(Seq(Chars))])
  /\ ~m.multi => m.files = <<[length |-> m.files[1].length, filepath |-> <<m.name>>]>>
  /\ m.piece_length \in 1 .. IntMax
  /\ m.hashes \in Seq({h \in Seq(Chars) : Len(h) = HashSize})
  /\ TotalLength(m.files) <= Len(m.hashes) * m.piece_length
  /\ Len(m.hashes) * m.piece_length < TotalLength(m.files) + m.piece_length

ASSUME MetainfosAssumption ==
  /\ HashSize \in Nat \ {0}
  /\ IntMax \in 0 .. LongMax
  /\ \A m \in Metainfos : IsMetainfo(m)

\* Lists of peers, six octets for each.
ASSUME ResponsesAssumption ==
  \A r \in Responses : /\ r.interval \in 0 .. LongMax
                        /\ r.peers \in Seq({q \in Seq(Chars) : Len(q) = 6})

ASSUME TextsAssumption ==
  /\ \A f \in Files : f.text \in Texts
  /\ \A a \in Answers : a.text \in Texts

\* Junk denotes nothing that TorrentFile can be made of.
ASSUME JunkAssumption == \A t \in Junk : \A v \in Denoted(t) : ~Accepts(v)

ASSUME StatusesAssumption == Statuses \subseteq {0} \union 200 .. 599

ASSUME NothingAssumption ==
  /\ Nothing \notin Metainfos \union Responses
  /\ \A s \in Statuses, r \in Responses \union {Nothing} :
       [status |-> s, response |-> r] # Nothing

-----------------------------------------------------------------------------
(* parse_tracker_response and Peer *)

\* An octet is the place of the character in the alphabet.
Octet(c) == Rank(c) - 1

Octets == Len(Alphabet)   \* 256 in the code

\* Fault: the least significant octet comes first.
WordSwapped(high, low) == low * Octets + high

\* Octets put together, most significant first.
Word(high, low) == high * Octets + low

\* The peer at place k, beyond the end of the string too.
PeerAt(s, k, b) ==
  LET o(j) == Octet(CharAt(s, b, k + j - 1))
  IN  [ip |-> Word(Word(Word(o(1), o(2)), o(3)), o(4)), port |-> Word(o(5), o(6))]

\* The loop goes on by six characters that its body has already taken.
PeersOf(s, b) == [n \in 1 .. (Len(s) + 11) \div 12 |-> PeerAt(s, 12 * n - 11, b)]

\* Peer::address.
Address(p) ==
  LET Shift(n) == n \div Octets   \* n >> 8
  IN  <<<<Shift(Shift(Shift(p.ip))) % Octets, Shift(Shift(p.ip)) % Octets,
          Shift(p.ip) % Octets, p.ip % Octets>>, p.port>>

-----------------------------------------------------------------------------
(* add_torrent *)

Load ==
  /\ stage = "load"
  /\ Continues("parse") \/ Returns("LoadingTorrentFailed")
  /\ UNCHANGED <<file, tree, descriptor, answer, peers, scores, interval, state>>

\* The parser returns a tree or an error, or throws.
Parse ==
  /\ stage = "parse"
  /\ \E b \in Beyond :
       LET r == Decode(file.text, b) IN
       \/ r.valid /\ Continues("describe") /\ tree' = r.value
       \/ ~r.valid /\ r.error # "out_of_range" /\ Returns("LoadingTorrentFailed") /\ UNCHANGED tree
       \/ ~r.valid /\ r.error = "out_of_range" /\ Ends /\ UNCHANGED tree
  /\ UNCHANGED <<file, descriptor, answer, peers, scores, interval, state>>

\* TorrentFile descriptor(tree).
Describe ==
  /\ stage = "describe"
  /\ \/ Accepts(tree) /\ Continues("prepare") /\ descriptor' = DescriptorOf(tree)
     \/ ~Accepts(tree) /\ Ends /\ UNCHANGED descriptor
  /\ UNCHANGED <<file, tree, answer, peers, scores, interval, state>>

\* prepare_torrent_files succeeds or fails.
Prepare ==
  /\ stage = "prepare"
  /\ Continues("announce") \/ Returns("LoadingTorrentFailed")
  /\ UNCHANGED <<file, tree, descriptor, answer, peers, scores, interval, state>>

\* Torrent::announce with the peers of the answer.
SetsPeers(ps, i) ==
  /\ peers' = ps
  /\ scores' = [k \in DOMAIN ps |-> 1]
  /\ interval' = i

KeepsPeers == UNCHANGED <<peers, scores, interval>>

\* Fault: the status is not looked at.
IsErrorNever(status) == FALSE

IsError(status) == status = 0 \/ status >= 400

\* try_emplace makes the Torrent, which announces itself.
Announce(status, a) ==
  /\ stage = "announce"
  /\ answer' = [status |-> status, response |-> a.response]
  /\ IF IsError(status)
       THEN KeepsPeers /\ Continues("check") /\ state' = "Loading"
       ELSE \E b \in Beyond :
              LET r == Decode(a.text, b) IN
              \/ /\ ~r.valid /\ r.error # "out_of_range"
                 /\ KeepsPeers /\ Continues("check") /\ state' = "Loading"
              \/ /\ ~r.valid /\ r.error = "out_of_range"
                 /\ KeepsPeers /\ Ends /\ UNCHANGED state
              \/ /\ r.valid
                 /\ Has(r.value, "interval", "Integer") /\ Has(r.value, "peers", "String")
                 /\ SetsPeers(PeersOf(At(r.value, "peers")[2], b), At(r.value, "interval")[2])
                 /\ Continues("check") /\ state' = "Loading"
              \/ /\ r.valid
                 /\ ~(Has(r.value, "interval", "Integer") /\ Has(r.value, "peers", "String"))
                 /\ KeepsPeers /\ Ends /\ UNCHANGED state
  /\ UNCHANGED <<file, tree, descriptor>>

\* No peers: the entry stays, in state Error.  Else the tasks are made.
Check ==
  /\ stage = "check"
  /\ IF peers = <<>> THEN state' = "Error" /\ Returns("GenericError")
                     ELSE state' = "Downloading" /\ Returns("OK")
  /\ UNCHANGED <<file, tree, descriptor, answer, peers, scores, interval>>

Done == stage \in {"returned", "ended"} /\ UNCHANGED vars

Next ==
  \/ Load
  \/ Parse
  \/ Describe
  \/ Prepare
  \/ \E s \in Statuses, a \in Answers : Announce(s, a)
  \/ Check
  \/ Done

Spec == Init /\ [][Next]_vars

-----------------------------------------------------------------------------
(* Properties *)

\* The parser accepts exactly the texts of the grammar and makes of each the
\* value it denotes, whatever is in memory behind the text: also where
\* decode_string runs over the end because there is no ":".  The exception
\* is the empty string by itself.
DecodesGrammar ==
  stage = "parse" =>
    \A b \in Beyond :
      LET r == Decode(file.text, b) IN
      IF r.valid THEN Denoted(file.text) = {r.value}
                 ELSE Denoted(file.text) \subseteq {<<"String", <<>>>>}

\* encode gives the shortest text that denotes the value, so what was written
\* without leading zeros and double keys is given back character by
\* character.  The info hash depends on it.
EncodesShortest ==
  stage = "describe" =>
    LET t == Encode(tree) IN
    /\ Denoted(t) = {tree}
    /\ Len(t) < Len(file.text) \/ t = file.text

\* The descriptor says what the file says: the info hash is that of the text
\* of the info as it stands in the file, the parts the client does not know
\* included, every file has its path and length, every piece its hash.
DescriptorFaithful ==
  LET m == file.torrent IN
  m # Nothing /\ descriptor # Nothing =>
    /\ descriptor.announce_url = m.url
    /\ descriptor.info = InfoText(m)
    /\ descriptor.name = m.name
    /\ descriptor.files = m.files
    /\ descriptor.length = TotalLength(m.files)
    /\ descriptor.piece_length = m.piece_length
    /\ descriptor.piece_hashes = m.hashes

\* add_torrent returns OK exactly if the file describes a torrent and its
\* tracker answered with at least one peer; only then does it start, and an
\* entry without peers stays in state Error.  The program ends at a file that
\* describes no torrent, or at an answer without an interval and a string of
\* peers that comes with a good status: not with an error status, and never
\* with the response that parse_tracker_response looks for.
AddedIffServed ==
  LET answered == answer # Nothing /\ answer.status \in 200 .. 399
      compact == answer # Nothing /\ answer.response # Nothing
  IN  /\ stage = "returned" =>
           /\ result = "OK" => answered
           /\ compact => (result = "OK" <=> answered /\ answer.response.peers # <<>>)
           /\ state = CASE result = "OK" -> "Downloading"
                        [] result = "GenericError" -> "Error"
                        [] OTHER -> "Absent"
      /\ answer # Nothing => file.torrent # Nothing
      /\ stage = "ended" => file.torrent = Nothing \/ (answered /\ ~compact)

\* The address that the six octets of a response stand for.
Listed(q) ==
  <<<<Octet(q[1]), Octet(q[2]), Octet(q[3]), Octet(q[4])>>, Octet(q[5]) * Octets + Octet(q[6])>>

\* Each peer that is asked for pieces is one the tracker listed, with its
\* address as listed, octet by octet.
PeersAreListed ==
  answer # Nothing /\ answer.response # Nothing =>
    \A n \in DOMAIN peers : \E k \in DOMAIN answer.response.peers :
      Address(peers[n]) = Listed(answer.response.peers[k])

\* peer.hpp: "The list of peers that we can download the file from": each
\* peer the tracker listed is among them.
AllPeersFound ==
  result = "OK" /\ answer.response # Nothing =>
    \A k \in DOMAIN answer.response.peers : \E n \in DOMAIN peers :
      Address(peers[n]) = Listed(answer.response.peers[k])
=============================================================================
