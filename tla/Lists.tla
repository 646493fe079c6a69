-------------------------------- MODULE Lists --------------------------------
(***************************************************************************)
(* find and filter of the lists the screens keep, by the positions that    *)
(* qualify.                                                                *)
(***************************************************************************)
EXTENDS Integers, Sequences, FiniteSets

First(S) == CHOOSE i \in S : \A j \in S : i <= j
Nth(S, k) == CHOOSE i \in S : Cardinality({j \in S : j <= i}) = k

(* The elements of list s at the positions in S, in their order. *)
Keep(s, S) == [k \in 1..Cardinality(S) |-> s[Nth(S, k)]]
=============================================================================
