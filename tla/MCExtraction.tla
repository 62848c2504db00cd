---------------------------- MODULE MCExtraction ----------------------------
(***************************************************************************)
(* An instance of Extraction with three calls: one may leave an error, one *)
(* may hide it, and one may meet it.                                       *)
(***************************************************************************)
EXTENDS Extraction
=============================================================================
