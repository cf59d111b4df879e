---------------------------- MODULE MCDmaLoopback ---------------------------
(***************************************************************************)
(* Buffers of five words and a loop that holds two; the example with rings *)
(* of three descriptors, on a core without scatter-gather, as all block    *)
(* designs configure it, and on one with.  dma_test.c runs three times, on *)
(* packets of seven words where they come from axis_tlast_gen.             *)
(***************************************************************************)
EXTENDS DmaLoopback
=============================================================================
