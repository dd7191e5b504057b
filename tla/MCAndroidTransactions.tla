------------------------ MODULE MCAndroidTransactions ------------------------
(* The instances of AndroidTransactions for TLC: two transactions, as model  *)
(* values given by each configuration.                                       *)
EXTENDS AndroidTransactions
=============================================================================
