------------------------------ MODULE MCS2sHeap ------------------------------
(* A small instance of S2sHeap: three callbacks that arrive within a tick    *)
(* of each other and are retried after one.                                 *)
EXTENDS S2sHeap
=============================================================================
