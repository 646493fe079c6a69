--------------------------- MODULE MCBillingRefund ---------------------------
(* Instances of BillingRefund: one member, one poller, two refund threads. *)
EXTENDS BillingRefund, TLC

(* Threads of one kind are interchangeable. *)
Symmetry == Permutations(Web) \cup Permutations(Reviewers)
=============================================================================
