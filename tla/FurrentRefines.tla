--------------------------- MODULE FurrentRefines --------------------------
(***************************************************************************)
(* The threads of Furrent implement the abstract Torrents.                 *)
(***************************************************************************)
EXTENDS Furrent

AbstractStatus ==
  [t \in TID |-> IF torrents[t] \in {"Absent", "Loading"} THEN "None" ELSE torrents[t]]

AbstractFinished == [t \in TID |-> {k.piece : k \in counted \cap TasksOf(t)}]

\* Worker w has counted the last piece of t and will exchange its state.
Completes(w, t) == wpc[w] = "complete" /\ task[w].tid = t /\ IsLast(w)

AbstractCompleting == {t \in TID : \E w \in Workers : Completes(w, t)}

\* remove_torrent has loaded a state that it is going to replace.
AbstractStopping ==
  {t \in TID : mpc = "remove_store" /\ cur = t /\ loaded \notin {"Completed", "Error"}}

A == INSTANCE Torrents WITH
       Pieces <- [t \in TID |-> PiecesOf(t)],
       status <- AbstractStatus,
       finished <- AbstractFinished,
       completing <- AbstractCompleting,
       stopping <- AbstractStopping

\* The threads, the queue and the locks together behave as Torrents says:
\* each piece counts once, and the torrent is completed once, by whoever
\* counted its last piece.
ImplementsTorrents == A!Spec
=============================================================================
