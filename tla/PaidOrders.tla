----------------------------- MODULE PaidOrders -----------------------------
(***************************************************************************)
(* What monthly billing promises about the orders of a member, as the      *)
(* member, the provider's statement and an operator see it: one order at a *)
(* time is open, the provider has its say on it once, the order is settled *)
(* by what the provider said, a term is held for exactly the renewals that *)
(* were settled, and money goes back for settled orders alone.  No thread, *)
(* session, copy, retry or message in transit is part of the promise.      *)
(***************************************************************************)
CONSTANTS
  Orders,
  LateDeclines    \* TRUE: the provider may decline an order it took money for
VARIABLES
  status,     \* of the order: "NONE", "PENDING", "DONE", "FAILED", "CANCELED"
  money,      \* "NONE", "DONE" (taken), "DECLINED", "CANCELED" (given back)
  renewals,   \* orders that buy a term; the others raise the tier of one
  terms       \* orders whose term the member holds

Init ==
  /\ status = [o \in Orders |-> "NONE"]
  /\ money = [o \in Orders |-> "NONE"]
  /\ renewals = {} /\ terms = {}

Place(o) ==
  /\ status[o] = "NONE" /\ money[o] = "NONE"
  /\ \A p \in Orders : status[p] # "PENDING"
  /\ status' = [status EXCEPT ![o] = "PENDING"]
  /\ renewals' \in {renewals, renewals \cup {o}}
  /\ UNCHANGED <<money, terms>>

Answer(o) ==
  /\ status[o] = "PENDING" /\ money[o] = "NONE"
  /\ \E verdict \in {"DONE", "DECLINED"} : money' = [money EXCEPT ![o] = verdict]
  /\ UNCHANGED <<status, renewals, terms>>

Settle(o) ==
  /\ status[o] = "PENDING" /\ money[o] = "DONE"
  /\ status' = [status EXCEPT ![o] = "DONE"]
  /\ IF o \in renewals THEN terms' = terms \cup {o} ELSE terms # {} /\ UNCHANGED terms
  /\ UNCHANGED <<money, renewals>>

Fail(o) ==
  /\ status[o] = "PENDING"
  /\ money[o] = "DECLINED" \/ (LateDeclines /\ money[o] = "DONE")
  /\ status' = [status EXCEPT ![o] = "FAILED"]
  /\ UNCHANGED <<money, renewals, terms>>

GiveBack(o) ==
  /\ status[o] = "DONE" /\ money[o] = "DONE"
  /\ money' = [money EXCEPT ![o] = "CANCELED"]
  /\ UNCHANGED <<status, renewals, terms>>

Refund(o) ==
  /\ status[o] = "DONE" /\ money[o] = "CANCELED"
  /\ status' = [status EXCEPT ![o] = "CANCELED"]
  /\ terms' = terms \ {o}
  /\ UNCHANGED <<money, renewals>>

Next == \E o \in Orders : \/ Place(o) \/ Answer(o) \/ Settle(o) \/ Fail(o)
                          \/ GiveBack(o) \/ Refund(o)

Spec == Init /\ [][Next]_<<status, money, renewals, terms>>
=============================================================================
