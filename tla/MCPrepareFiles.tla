--------------------------- MODULE MCPrepareFiles ---------------------------
(***************************************************************************)
(* PrepareFiles for three torrents, two of the same name: one file, two    *)
(* files of which one has the same name, and another torrent.              *)
(***************************************************************************)
EXTENDS PrepareFiles

SomeTorrents ==
  {[name |-> "a", files |-> <<"f">>, room |-> 20],
   [name |-> "a", files |-> <<"g", "f">>, room |-> 20],
   [name |-> "b", files |-> <<"f">>, room |-> 8]}

\* One torrent, added once more when the folders of its name are used up.
OneTorrent == {[name |-> "a", files |-> <<"f">>, room |-> 20]}
=============================================================================
