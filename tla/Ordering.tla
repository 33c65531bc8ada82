------------------------------ MODULE Ordering ------------------------------
(***************************************************************************)
(* Sorting by rank: the elements of a finite set of numbers in ascending   *)
(* order, what a sequence keeps at some of its positions, and the members  *)
(* of a set of samples in the order of their seconds (Python's sorted,     *)
(* and its comprehensions over lists).                                     *)
(***************************************************************************)
EXTENDS Integers, Sequences, FiniteSets

\* The k-th smallest member of S.
Nth(S, k) == CHOOSE n \in S : Cardinality({m \in S : m < n}) = k - 1

\* The members of S in ascending order.
Ascending(S) == [k \in 1..Cardinality(S) |-> Nth(S, k)]

\* The elements of q at those positions, in order.
KeptAt(q, positions) == [k \in 1..Cardinality(positions) |-> q[Nth(positions, k)]]

\* Samples of different seconds, by second.
BySecond(samples) ==
  LET seconds == {s.second : s \in samples}
  IN [k \in 1..Cardinality(seconds) |->
        CHOOSE s \in samples : s.second = Nth(seconds, k)]
=============================================================================
