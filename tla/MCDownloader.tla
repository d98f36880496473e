---------------------------- MODULE MCDownloader ----------------------------
(***************************************************************************)
(* Downloader for a torrent of two pieces, of three and two blocks, each   *)
(* with a short last block, a pipeline of two requests and bytes of two    *)
(* bits.  On a connection the peer sends at most one block that it was not *)
(* asked for.                                                              *)
(***************************************************************************)
EXTENDS Downloader
=============================================================================
