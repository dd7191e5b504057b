-------------------------- MODULE MCAndroidDatabase --------------------------
(* Instances of AndroidDatabase for TLC: the pool size, the way it is opened *)
(* and the bound on calls are given by each configuration.                   *)
EXTENDS AndroidDatabase
=============================================================================
