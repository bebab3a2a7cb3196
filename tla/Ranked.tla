-------------------------------- MODULE Ranked --------------------------------
(* Elements of a set of numbers by their places in increasing order. *)
EXTENDS Naturals, FiniteSets

Rank(S, n) == Cardinality({m \in S : m <= n})
Nth(S, k) == CHOOSE n \in S : Rank(S, n) = k

=============================================================================
