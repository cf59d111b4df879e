-------------------------- MODULE MCAxiDmaLoopback --------------------------
(* Buffers of five words and a loop that holds two.                         *)
EXTENDS AxiDmaLoopback
=============================================================================
