------------------------------- MODULE Ranking -------------------------------
(***************************************************************************)
(* Sorting by a number or by place, as the program does with               *)
(* sort.SliceStable, and with sort.Slice on a handful of elements.         *)
(***************************************************************************)
EXTENDS Integers, FiniteSets

\* key is a function from 1 .. n; the places of its values from least to greatest,
\* those of equal values in the order in which they were.
InOrder(key) ==
  LET ahead(i) == {j \in DOMAIN key : key[j] < key[i] \/ (key[j] = key[i] /\ j < i)}
  IN [r \in DOMAIN key |-> CHOOSE i \in DOMAIN key : Cardinality(ahead(i)) = r - 1]

\* A sequence of numbers from least to greatest.
Ascending(list) == [r \in DOMAIN list |-> list[InOrder(list)[r]]]

\* Spans by where they start, and those that start together by where they end.
Sooner(x, y) == x.start < y.start \/ (x.start = y.start /\ x.end < y.end)

InPlace(spans) ==
  LET ahead(x) == {y \in spans : Sooner(y, x)}
  IN [r \in 1 .. Cardinality(spans) |-> CHOOSE x \in spans : Cardinality(ahead(x)) = r - 1]
=============================================================================
