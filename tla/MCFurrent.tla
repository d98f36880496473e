----------------------------- MODULE MCFurrent -----------------------------
(***************************************************************************)
(* Furrent on a small instance.                                            *)
(***************************************************************************)
EXTENDS FurrentRefines

\* pieces_count of the torrents in the order in which they are added.
PiecesTwoOne == [t \in TID |-> IF t = 0 THEN 2 ELSE 1]
=============================================================================
