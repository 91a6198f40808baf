----------------------------- MODULE MCAioQueue -----------------------------
(***************************************************************************)
(* A small instance of AioQueue: a pool of two buffers, one iocb more than *)
(* that so that a queue too long would show, two transfer lengths so that  *)
(* the pool is replaced.                                                   *)
(***************************************************************************)
EXTENDS AioQueue

CONSTANTS b1, b2, pattern, prefill
=============================================================================
