---------------------------- MODULE MCThreadPool ----------------------------
(* The instances of ThreadPool for TLC: the threads are model values that    *)
(* each configuration gives.                                                 *)
EXTENDS ThreadPool
=============================================================================
