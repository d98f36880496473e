----------------------------- MODULE MCMessage ------------------------------
(***************************************************************************)
(* Message with short bytes: integers of one, two and four bytes, empty    *)
(* and non-empty payloads.                                                 *)
(***************************************************************************)
EXTENDS Message

SomeIntegers == {0, Base + 1, Base^3 + 2}

SomeMessages ==
  [kind : {"KeepAlive", "Choke", "Unchoke", "Interested", "NotInterested"}]
  \union [kind : {"Have"}, index : SomeIntegers]
  \union [kind : {"Bitfield"}, storage : {<<>>, <<1>>, <<3, 0>>}]
  \union [kind : {"Request"}, index : {1}, begin : SomeIntegers, length : {2}]
  \union [kind : {"Piece"}, index : {Base}, begin : {0, 3}, block : {<<>>, <<2, 1>>}]

\* Cancel and Port, which the code does not know, and payloads of a length
\* that does not fit, a Choke with one among them.
OtherFrames ==
  {[id |-> 8, payload |-> [i \in 1 .. 12 |-> 0]],
   [id |-> 9, payload |-> <<0, 1>>],
   [id |-> 0, payload |-> <<1>>],
   [id |-> 4, payload |-> <<1>>],
   [id |-> 7, payload |-> <<1, 2>>]}
=============================================================================
