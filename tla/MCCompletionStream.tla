-------------------------- MODULE MCCompletionStream --------------------------
(***************************************************************************)
(* A small instance of CompletionStream for TLC: a buffer of two chunks and *)
(* streams of up to five, so that the buffer fills and runs over.           *)
(***************************************************************************)
EXTENDS CompletionStream

MCCap == 2
MCMaxChunks == 5
=============================================================================
