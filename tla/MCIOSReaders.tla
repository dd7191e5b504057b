---------------------------- MODULE MCIOSReaders ----------------------------
(* The instance of IOSReaders for TLC: how many calls of each kind.         *)
EXTENDS IOSReaders

MostCalls ==
  [kind \in Kinds |-> CASE kind = "tx" -> 3 [] kind \in {"write", "read", "close"} -> 2 [] OTHER -> 1]
=============================================================================
