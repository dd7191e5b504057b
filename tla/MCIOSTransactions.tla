------------------------- MODULE MCIOSTransactions -------------------------
(* The instances of IOSTransactions for TLC: two transactions, as model     *)
(* values given by each configuration.                                      *)
EXTENDS IOSTransactions
=============================================================================
