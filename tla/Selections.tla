------------------------------ MODULE Selections ------------------------------
(***************************************************************************)
(* What is left of a sequence in its order when some of its elements are   *)
(* dropped.  SelectSeq says the same; the provers know nothing of it.      *)
(***************************************************************************)
EXTENDS Integers, Sequences, FiniteSets

\* How many of the numbers in S come before i.
Place(S, i) == Cardinality({j \in S : j < i})

\* The numbers in S, the lowest first.
Ascending(S) == [k \in 1..Cardinality(S) |-> CHOOSE i \in S : Place(S, i) = k - 1]

\* The elements of a sequence that pass the test.
Selection(s, Test(_)) ==
  LET at == Ascending({i \in DOMAIN s : Test(s[i])}) IN [k \in DOMAIN at |-> s[at[k]]]
=============================================================================
