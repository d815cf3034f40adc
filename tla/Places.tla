-------------------------------- MODULE Places --------------------------------
(* Sets of places (numbers) in ascending order: what ORDER BY, filter and   *)
(* "skip what was seen before" leave of a list.                             *)
EXTENDS Integers, Sequences, FiniteSets

\* The elements of a set of numbers from the least to the greatest: SetToSortSeq(S, <),
\* by the place that each of them has.
Ascending(S) ==
    LET place == [x \in S |-> Cardinality({y \in S : y <= x})]
    IN [i \in 1 .. Cardinality(S) |-> CHOOSE x \in S : place[x] = i]

\* What a sequence has at some of its places, in their order.
Picked(seq, S) == LET at == Ascending(S) IN [n \in DOMAIN at |-> seq[at[n]]]
=============================================================================
