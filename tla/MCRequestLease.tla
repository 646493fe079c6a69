--------------------------- MODULE MCRequestLease ---------------------------
(* Instances of RequestLease: a few requests of one member, one admin. *)
EXTENDS RequestLease, TLC

(* Workers are interchangeable, and so are admins. *)
Symmetry == Permutations(Workers) \cup Permutations(Admins)
=============================================================================
