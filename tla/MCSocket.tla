------------------------------ MODULE MCSocket ------------------------------
(***************************************************************************)
(* Socket with operations of up to MaxParts parts.                         *)
(***************************************************************************)
EXTENDS Socket
=============================================================================
