---------------------------- MODULE MCGuestUsage ----------------------------
(* Instances of GuestUsage with a few requests of one guest session. *)
EXTENDS GuestUsage, TLC

(* Requests are interchangeable. *)
Symmetry == Permutations(Requests)
=============================================================================
