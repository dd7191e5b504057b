------------------------- MODULE NestedTransactions -------------------------
(***************************************************************************)
(* What transaction() and savepoint() promise (README.md of the package,   *)
(* "Nested Transactions"): calls nest, one that ends well leaves what it   *)
(* and those inside it wrote, one that ends badly leaves the table as it   *)
(* found it, and the outermost answers accordingly.                        *)
(***************************************************************************)
EXTENDS Sequences, SequencesExt

CONSTANT Params     \* the parameter lists statements are run with

VARIABLES
  table,            \* what has been written, in order
  found,            \* the table each open call found, the outermost first
  answer            \* of the last outermost call

absVars == <<table, found, answer>>

AbsInit == table = <<>> /\ found = <<>> /\ answer = "none"

Begins ==
  /\ found = <<>>
  /\ found' = <<table>>
  /\ answer' = "pending"
  /\ UNCHANGED table

Nests ==
  /\ found # <<>>
  /\ found' = Append(found, table)
  /\ UNCHANGED <<table, answer>>

Writes ==
  /\ found # <<>>
  /\ \E p \in Params : table' = Append(table, p)
  /\ UNCHANGED <<found, answer>>

Answers(how) ==
  /\ found # <<>>
  /\ found' = Front(found)
  /\ answer' = IF Len(found) = 1 THEN how ELSE answer

Keeps == Answers("resolved") /\ UNCHANGED table

Undoes == Answers("rejected") /\ table' = Last(found)

AbsNext == Begins \/ Nests \/ Writes \/ Keeps \/ Undoes

AbsSpec == AbsInit /\ [][AbsNext]_absVars
=============================================================================
