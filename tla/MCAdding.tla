------------------------------ MODULE MCAdding ------------------------------
(***************************************************************************)
(* Adding for small torrents, short lists of peers, and every text that is *)
(* made of a few fragments.                                                *)
(***************************************************************************)
EXTENDS Adding

CONSTANTS MaxFragments, MaxLength, MaxPeers

SmallLetters ==
  <<"a", "announce", "b", "d", "e", "failure reason", "files", "i", "info", "interval", "ip",
    "l", "length", "name", "path", "peers", "piece length", "pieces", "port", "private">>

Fragments ==
  {<<"i">>, <<"e">>, <<"l">>, <<"-">>, <<"0">>, <<"0", ":">>, <<"1", ":", "a">>,
   <<"0", "1", ":", "b">>, <<"i", "1", "2", "e">>}

Middles ==
  UNION {{Concat(s) : s \in [1 .. n -> Fragments]} : n \in 0 .. MaxFragments}

JunkTexts ==
  Middles \union {<<"l">> \o t \o <<"e">> : t \in Middles}
          \union {<<"d">> \o t \o <<"e">> : t \in Middles}
          \union {<<"d">> \o t : t \in Middles}

HashesFor(length, piece_length) ==
  [k \in 1 .. CHOOSE n \in 1 .. length : (n - 1) * piece_length < length /\ length <= n * piece_length
     |-> <<Digits[k], "a">>]

Metainfo(files, multi, piece_length, private) ==
  [url |-> <<"b">>, name |-> <<"a">>, files |-> files, multi |-> multi,
   piece_length |-> piece_length, private |-> private,
   hashes |-> HashesFor(TotalLength(files), piece_length)]

SmallTorrents ==
  {Metainfo(<<[length |-> n, filepath |-> <<<<"a">>>>]>>, FALSE, p, FALSE)
     : n \in 1 .. MaxLength, p \in 1 .. 2}
  \union
  {Metainfo(<<[length |-> m, filepath |-> <<<<"a">>>>],
              [length |-> n, filepath |-> <<<<"b">>, <<"a">>>>]>>, TRUE, p, x)
     : m \in 1 .. MaxLength, n \in 1 .. MaxLength, p \in 1 .. 2, x \in BOOLEAN}

SmallRecords ==
  {<<"a", "-", "0", "1", "2", "3">>, <<"b", "0", "0", "private", "-", "1">>,
   <<"0", "0", "0", "0", "0", "0">>}

ShortLists ==
  UNION {[interval : {9}, peers : [1 .. n -> SmallRecords]] : n \in 0 .. MaxPeers}

\* A refusal and a list of dictionaries, as trackers send them, and answers
\* that are neither.
SomeNoise ==
  {<<>>, <<"0", ":">>, <<"i", "1", "2", "e">>, <<"i", "9", "9", "9", "e">>,
   BDict(<<<<"failure reason", BString(<<"a">>)>>>>),
   BDict(<<<<"interval", BInteger(1)>>,
           <<"peers", BList(<<BDict(<<<<"ip", BString(<<"a">>)>>, <<"port", BInteger(1)>>>>)>>)>>>>),
   BDict(<<<<"interval", BInteger(1)>>>>),
   BDict(<<<<"interval", BInteger(1)>>, <<"peers", BString(<<"a", "b">>)>>>>)}
=============================================================================
