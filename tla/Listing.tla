------------------------------- MODULE Listing -------------------------------
(***************************************************************************)
(* The members of a finite set one after the other, and the sum of costs   *)
(* over a finite set: what the loops of the code go through and add up.    *)
(* Each is defined by counting, not by recursion.                          *)
(***************************************************************************)
EXTENDS Naturals, Sequences, FiniteSets

\* The entries at some of the places, in their order.
AtPlaces(entries, places) ==
    [n \in 1..Cardinality(places) |->
        entries[CHOOSE i \in places : Cardinality({j \in places : j <= i}) = n]]

\* Triples, by the second and then the third of their parts.
UpTo(x, items) == {y \in items : y[2] < x[2] \/ (y[2] = x[2] /\ y[3] <= x[3])}
ByPlace(items) ==
    [n \in 1..Cardinality(items) |-> CHOOSE x \in items : Cardinality(UpTo(x, items)) = n]

\* The units of all costs are as many as the costs together.
Units(cost) == UNION {{x} \X (1..cost[x]) : x \in DOMAIN cost}
Total(cost) == Cardinality(Units(cost))

\* What is left of a sequence of sequences, from each of its places on, and all of it joined.
Rests(parts) ==
    LET rest[k \in 1..(Len(parts) + 1)] == IF k > Len(parts) THEN <<>> ELSE parts[k] \o rest[k + 1]
    IN rest
Joined(parts) == Rests(parts)[1]
=============================================================================
