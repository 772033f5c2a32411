---------------------------- MODULE MCLineReader ----------------------------
(* Instance of LineReader for TLC; the bounds are in the cfg file. *)
EXTENDS LineReader
=============================================================================
