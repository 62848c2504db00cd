---------------------------- MODULE MCOutputTail ----------------------------
(***************************************************************************)
(* A small instance of OutputTail: two streams of up to three lines, the   *)
(* last of which may have no newline, and a tail that holds two.           *)
(***************************************************************************)
EXTENDS OutputTail

MCStreams == {"stdout", "stderr"}
=============================================================================
