----------------------------- MODULE Torrents ------------------------------
(***************************************************************************)
(* What Furrent promises about its torrents, without queue, threads or     *)
(* locks: a torrent that is added fails or starts; each of its pieces is   *)
(* finished at most once; whoever finishes the last one, and nobody else,  *)
(* completes the torrent, once.  Stopping a torrent is decided at one      *)
(* moment and takes effect at a later one, so a torrent that was completed *)
(* in between ends up stopped; one that was stopped may still complete.    *)
(***************************************************************************)
EXTENDS Integers

CONSTANTS
  TID,          \* torrents
  Pieces        \* the set of pieces of each torrent

VARIABLES
  status,       \* of each torrent
  finished,     \* the pieces finished, of each torrent
  completing,   \* torrents whose last piece is finished, to be completed
  stopping      \* torrents that a removal has decided to stop

vars == <<status, finished, completing, stopping>>

Init ==
  /\ status = [t \in TID |-> "None"]
  /\ finished = [t \in TID |-> {}]
  /\ completing = {}
  /\ stopping = {}

\* The tracker gave no peers.
Fail(t) ==
  /\ status[t] = "None"
  /\ status' = [status EXCEPT ![t] = "Error"]
  /\ UNCHANGED <<finished, completing, stopping>>

Start(t) ==
  /\ status[t] = "None"
  /\ status' = [status EXCEPT ![t] = "Downloading"]
  /\ UNCHANGED <<finished, completing, stopping>>

FinishPiece(t, p) ==
  /\ status[t] \in {"Downloading", "Stopped"}
  /\ p \in Pieces[t] \ finished[t]
  /\ finished' = [finished EXCEPT ![t] = @ \cup {p}]
  /\ completing' = IF finished'[t] = Pieces[t] THEN completing \cup {t}
                                               ELSE completing
  /\ UNCHANGED <<status, stopping>>

Complete(t) ==
  /\ t \in completing
  /\ status' = [status EXCEPT ![t] = "Completed"]
  /\ completing' = completing \ {t}
  /\ UNCHANGED <<finished, stopping>>

DecideStop(t) ==
  /\ status[t] \in {"Downloading", "Stopped"}
  /\ stopping' = stopping \cup {t}
  /\ UNCHANGED <<status, finished, completing>>

Stop(t) ==
  /\ t \in stopping
  /\ status' = [status EXCEPT ![t] = "Stopped"]
  /\ stopping' = stopping \ {t}
  /\ UNCHANGED <<finished, completing>>

Next ==
  \E t \in TID :
    \/ Fail(t)
    \/ Start(t)
    \/ \E p \in Pieces[t] : FinishPiece(t, p)
    \/ Complete(t)
    \/ DecideStop(t)
    \/ Stop(t)

Spec == Init /\ [][Next]_vars
=============================================================================
