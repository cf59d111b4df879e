---------------------------- MODULE MCDacPlayer ----------------------------
(* A FIFO of four words and chunks of two, with the same exact fit of      *)
(* threshold and chunk as in the code; files of up to two and a half       *)
(* chunks, in several runs.                                                *)
EXTENDS DacPlayer
============================================================================
