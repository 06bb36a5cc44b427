------------------------------- MODULE Series -------------------------------
(***************************************************************************)
(* What the pure rules do to a list: keep some of its elements, in order.   *)
(* `[x for x in s if ...]` is Kept(s, the positions of those x).            *)
(***************************************************************************)
EXTENDS Integers, Sequences, FiniteSets

\* A finite set of numbers from its least to its greatest: sorted().
Ascending(S) == [i \in 1..Cardinality(S) |->
                    CHOOSE d \in S : Cardinality({e \in S : e < d}) = i - 1]

Kept(s, at) == [i \in 1..Cardinality(at) |-> s[Ascending(at)[i]]]

=============================================================================
