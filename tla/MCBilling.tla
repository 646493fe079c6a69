------------------------------ MODULE MCBilling ------------------------------
(* Small instances of Billing: one member, one web thread or two, one poller. *)
EXTENDS Billing, TLC

(* Threads of one kind are interchangeable. *)
Symmetry == Permutations(Web) \cup Permutations(Pollers)
=============================================================================
