-------------------------------- MODULE Ordered --------------------------------
(***************************************************************************)
(* The places of a sequence where something holds, one after the other:    *)
(* how the models read what the code finds when it goes through a list.    *)
(***************************************************************************)
EXTENDS Naturals, Sequences, FiniteSets

Increasing(v) == \A i, j \in DOMAIN v : i < j => v[i] < v[j]

(* A set of numbers as a list, the least first.                            *)
InOrder(I) == [k \in 1..Cardinality(I) |-> CHOOSE i \in I : Cardinality({j \in I : j <= i}) = k]

(* What stands at those places.                                            *)
Picked(s, I) == LET at == InOrder(I) IN [k \in DOMAIN at |-> s[at[k]]]

(* The pieces of a list of lists, one after the other.                     *)
Flat(ss) == LET upTo[n \in 0..Len(ss)] == IF n = 0 THEN <<>> ELSE upTo[n - 1] \o ss[n]
            IN  upTo[Len(ss)]
=============================================================================
