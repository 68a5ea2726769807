-------------------------------- MODULE Lists --------------------------------
(***************************************************************************)
(* Finite sets as lists in an order, and the parts of a list, without      *)
(* recursion.                                                              *)
(***************************************************************************)
EXTENDS Integers, Sequences, FiniteSets

\* S as the list in which i comes before j for every <<i, j>> of order: the
\* place of an element is how many come before it.
InOrder(S, order) ==
  [k \in 1 .. Cardinality(S) |->
     CHOOSE i \in S : Cardinality({j \in S : <<j, i>> \in order}) = k - 1]

Ascending(S) == {p \in S \X S : p[1] < p[2]}

\* What list has at the places of S, in the order it has it.
PartOf(list, S) == [k \in 1 .. Cardinality(S) |-> list[InOrder(S, Ascending(S))[k]]]

\* The order of the places of key, a list of pairs of numbers: by the first, then
\* the second, then the place.
ByKey(key) ==
  {p \in (DOMAIN key) \X (DOMAIN key) :
     LET a == key[p[1]]
         b == key[p[2]]
     IN  a[1] < b[1] \/ (a[1] = b[1] /\ (a[2] < b[2] \/ (a[2] = b[2] /\ p[1] < p[2])))}

\* sort_by_key, a stable sort: list in ascending order of key.
SortedBy(list, key) ==
  LET places == InOrder(DOMAIN key, ByKey(key)) IN [k \in DOMAIN list |-> list[places[k]]]
=============================================================================
