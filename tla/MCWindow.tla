------------------------------ MODULE MCWindow ------------------------------
(***************************************************************************)
(* Window for two torrents, the first of two pieces, the second of one.    *)
(***************************************************************************)
EXTENDS Window

PiecesTwoOne == [t \in TID |-> IF t = 0 THEN 2 ELSE 1]
=============================================================================
