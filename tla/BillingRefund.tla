---------------------------- MODULE BillingRefund ----------------------------
(***************************************************************************)
(* Refunds of a paid term: BillingRefundService over the rows of Billing,  *)
(* together with the charging threads of Billing and with the member's AI  *)
(* requests, whose lease an approval looks at.                             *)
(*                                                                         *)
(* A refund thread is a request of the member or of an admin.  It locks    *)
(* the member's row (which the charging threads never do) and then the     *)
(* subscription.  Its job holds the copy of the order it loaded: approve   *)
(* and reject load one before their transaction, and with open-in-view     *)
(* that is the copy the transaction works on.                              *)
(*                                                                         *)
(* Abstracted: reasons, audit rows, identity and amount checks (they       *)
(* succeed), and the lease, of which three states matter here.             *)
(***************************************************************************)
EXTENDS Billing

CONSTANT Reviewers     \* threads that serve refund requests, of member and admin

VARIABLES
  rpc, rjob,    \* where each refund thread is; the order it is about, as loaded
  cancels,      \* cancel calls (by order) that have not reached the provider
  ai            \* the member's lease: "free", "busy" or "abandoned"

refundVars == <<rpc, rjob, cancels, ai>>
allVars == <<vars, refundVars>>

NoRefundJob == [order |-> 0, copy |-> NoOrder, sub |-> NoSub, pending |-> FALSE]
RefundJob == [order : OrderId \cup {0}, copy : OrderRow, sub : SubRow, pending : BOOLEAN]

RGoto(r, label, locals) ==
  /\ rpc' = [rpc EXCEPT ![r] = label]
  /\ rjob' = [rjob EXCEPT ![r] = locals]
RFinish(r) == RGoto(r, "idle", NoRefundJob)

MemberLocked == \E r \in Reviewers : rpc[r] = "request"
CancelPending == \E o \in OrderId : orders[o].refund = "PENDING"

(* The order and the subscription as the thread's transaction sees them.   *)
Copy(r) == IF OpenInView THEN rjob[r].copy ELSE orders[rjob[r].order]
SubCopy(r) == IF OpenInView /\ rjob[r].sub.exists THEN rjob[r].sub ELSE sub
Load(o) == [NoRefundJob EXCEPT !.order = o, !.copy = orders[o], !.pending = Pending # {}]
Update(r, row) == orders' = [orders EXCEPT ![rjob[r].order] = row]

(* Faulty: a refund that is being paid out can be rejected. *)
MayRejectAny(a) == a.refund \in {"REQUESTED", "PENDING"}

(* Methods of the rows. *)
RequestRefund(a) == [a EXCEPT !.refund = "REQUESTED"]
ApproveRefund(a) == [a EXCEPT !.refund = "PENDING"]
RejectRefund(a) == [a EXCEPT !.refund = "REJECTED"]
CompleteRefund(a) == [a EXCEPT !.refund = "DONE", !.status = "CANCELED"]
Revoke(p) == [p EXCEPT !.state = "REVOKED"]

----------------------------------------------------------------------------
(* request: the order is read first, which also fixes the snapshot in which *)
(* the check for an open payment is answered; then the subscription locked. *)
RequestRead(r, o) ==
  /\ rpc[r] = "idle" /\ ~MemberLocked
  /\ orders[o].status # "NONE"
  /\ RGoto(r, "request", Load(o))
  /\ UNCHANGED <<vars, cancels, ai>>

Refundable(a) == a.refund = "NONE" /\ a.status = "DONE"

RequestCommit(r) ==
  /\ rpc[r] = "request"
  /\ IF Refundable(rjob[r].copy) /\ ~rjob[r].pending
     THEN Update(r, RequestRefund(rjob[r].copy)) /\ sub' = StopRenewal(sub)
     ELSE UNCHANGED <<orders, sub>>
  /\ RFinish(r)
  /\ UNCHANGED <<now, periods, providerVars, pc, job, cache, cancels, ai>>

(* approve and reject read the order, then lock member and subscription.    *)
ReadOrder(r, o, label) ==
  /\ rpc[r] = "idle"
  /\ orders[o].status # "NONE"
  /\ RGoto(r, label, Load(o))
  /\ UNCHANGED <<vars, cancels, ai>>

(* Only a renewal whose period is the one it bought can be refunded here.   *)
Supported(o) ==
  /\ orders[o].kind = "RENEWAL"
  /\ ~\E u \in OrderId : /\ orders[u].kind = "UPGRADE" /\ orders[u].status = "DONE"
                         /\ orders[u].end = orders[o].end
  /\ periods[o].state # "NONE" /\ ~periods[o].raised
  /\ periods[o].tier = orders[o].tier

(* Faulty: an AI request that is still running does not matter. *)
AnyLease == TRUE

NoAiRequest == ai = "free"

MayApprove(r) ==
  /\ Copy(r).refund \in {"REQUESTED", "PENDING"}
  /\ Supported(rjob[r].order)
  /\ Pending = {}
  /\ NoAiRequest

ApproveCommit(r) ==
  /\ rpc[r] = "approve" /\ ~MemberLocked
  /\ IF MayApprove(r)
     THEN LET row == ApproveRefund(Copy(r))
          IN  /\ IF row = Copy(r) THEN UNCHANGED orders ELSE Update(r, row)
              /\ RGoto(r, "lookup", [rjob[r] EXCEPT !.copy = row, !.sub = sub])
     ELSE UNCHANGED orders /\ RFinish(r)
  /\ UNCHANGED <<now, sub, periods, providerVars, pc, job, cache, cancels, ai>>

(* reject, by an admin, of a request nobody has approved.                   *)
MayReject(a) == a.refund = "REQUESTED"

RejectCommit(r) ==
  /\ rpc[r] = "reject" /\ ~MemberLocked
  /\ IF MayReject(Copy(r)) THEN Update(r, RejectRefund(Copy(r))) ELSE UNCHANGED orders
  /\ RFinish(r)
  /\ UNCHANGED <<now, sub, periods, providerVars, pc, job, cache, cancels, ai>>

(* reconcile looks the payment up and never cancels.                        *)
ReconcileRefund(r, o) ==
  /\ rpc[r] = "idle"
  /\ orders[o].refund = "PENDING"
  /\ RGoto(r, "check", Load(o))
  /\ UNCHANGED <<vars, cancels, ai>>

----------------------------------------------------------------------------
(* Faulty: an answer that confirms nothing is taken for the cancellation.   *)
CancelAssumed(o) == ledger[o] # "NONE"

CancelConfirmed(o) == ledger[o] = "CANCELED"

LookupCanceled(r) ==
  /\ rpc[r] \in {"lookup", "check"}
  /\ CancelConfirmed(rjob[r].order)
  /\ RGoto(r, "complete", rjob[r])
  /\ UNCHANGED <<vars, cancels, ai>>

LookupPaidInFull(r) ==
  /\ rpc[r] = "lookup"
  /\ ledger[rjob[r].order] = "DONE"
  /\ RGoto(r, "cancel", rjob[r])
  /\ UNCHANGED <<vars, cancels, ai>>

SendCancel(r) ==
  /\ rpc[r] = "cancel"
  /\ cancels' = cancels \cup {rjob[r].order}
  /\ RGoto(r, "await", rjob[r])
  /\ UNCHANGED <<vars, ai>>

ProviderCancels(o) ==
  /\ o \in cancels
  /\ cancels' = cancels \ {o}
  /\ ledger' = [ledger EXCEPT ![o] = "CANCELED"]
  /\ UNCHANGED <<now, dbVars, inflight, pc, job, cache, rpc, rjob, ai>>

CancelAnswered(r) ==
  /\ rpc[r] = "await" /\ rjob[r].order \notin cancels
  /\ CancelConfirmed(rjob[r].order)
  /\ RGoto(r, "complete", rjob[r])
  /\ UNCHANGED <<vars, cancels, ai>>

(* Faulty: the paid-through date is cleared whichever term it belongs to. *)
ForgetAnyTerm(s, end) == PaidUntil(s, 0)

ForgetTerm(s, end) == IF s.paidThrough = end THEN PaidUntil(s, 0) ELSE s

CompleteCommit(r) ==
  /\ rpc[r] = "complete" /\ ~MemberLocked
  /\ LET o == rjob[r].order
         a == Copy(r)
         s == ForgetTerm(StopRenewal(SubCopy(r)), a.end)
     IN  IF a.refund = "PENDING" /\ periods[o].state # "NONE"
         THEN /\ periods' = [periods EXCEPT ![o] = Revoke(@)]
              /\ sub' = IF s = SubCopy(r) THEN sub ELSE s
              /\ Update(r, CompleteRefund(a))
         ELSE UNCHANGED dbVars
  /\ RFinish(r)
  /\ UNCHANGED <<now, providerVars, pc, job, cache, cancels, ai>>

(* A timeout, an answer that proves nothing, or the server dies.            *)
RAbandon(r) ==
  /\ rpc[r] # "idle"
  /\ RFinish(r)
  /\ UNCHANGED <<vars, cancels, ai>>

(* The member's AI requests: MemberRequestGuard, seen from here.            *)
AiStart ==
  /\ ai # "busy" /\ ~MemberLocked /\ ~CancelPending
  /\ ai' = "busy"
  /\ UNCHANGED <<vars, rpc, rjob, cancels>>

AiEnd(outcome) ==
  /\ ai = "busy" /\ ~MemberLocked
  /\ ai' = outcome
  /\ UNCHANGED <<vars, rpc, rjob, cancels>>

----------------------------------------------------------------------------
RInit ==
  /\ Init
  /\ rpc = [r \in Reviewers |-> "idle"]
  /\ rjob = [r \in Reviewers |-> NoRefundJob]
  /\ cancels = {}
  /\ ai = "free"

Reviewing(r) ==
  \/ \E o \in OrderId : \/ RequestRead(r, o)
                        \/ ReadOrder(r, o, "approve") \/ ReadOrder(r, o, "reject")
                        \/ ReconcileRefund(r, o)
  \/ RequestCommit(r) \/ ApproveCommit(r) \/ RejectCommit(r)
  \/ LookupCanceled(r) \/ LookupPaidInFull(r) \/ SendCancel(r) \/ CancelAnswered(r)
  \/ CompleteCommit(r) \/ RAbandon(r)

RNext == \/ Next /\ UNCHANGED refundVars
         \/ \E r \in Reviewers : Reviewing(r)
         \/ \E o \in OrderId : ProviderCancels(o)
         \/ AiStart \/ \E outcome \in {"free", "abandoned"} : AiEnd(outcome)

RSpec == RInit /\ [][RNext]_allVars
----------------------------------------------------------------------------
(* A refund is DONE exactly when the order is CANCELED and the period it    *)
(* paid is revoked, and then the provider has returned the money.           *)
RefundIsReal ==
  \A o \in OrderId :
    /\ (orders[o].refund = "DONE") <=> (orders[o].status = "CANCELED")
    /\ (orders[o].refund = "DONE") <=> (periods[o].state = "REVOKED")
    /\ orders[o].refund = "DONE" => ledger[o] = "CANCELED"

(* Money goes back only for an order whose refund stands approved: nobody   *)
(* can reject a refund that is being paid out.                              *)
ReturnedIsApproved ==
  \A o \in OrderId : o \in cancels \/ ledger[o] = "CANCELED"
                       => orders[o].refund \in {"PENDING", "DONE"}

(* The member cannot use up the term with AI requests while the money for   *)
(* it is on its way back.                                                   *)
NoUseWhileCanceling == ~(CancelPending /\ ai = "busy")

(* A subscription that says "paid up to a later date" has a period that     *)
(* ends there and has not been revoked; and no period that runs on ends     *)
(* after what the subscription says.  So a refund takes the date away with  *)
(* its own term, and leaves it alone when it is the next term's: with that  *)
(* date lost the member would be charged again for a term already paid.     *)
RunsOn(o) == periods[o].state = "GRANTED" /\ now < orders[o].end
ActiveIsEntitled ==
  /\ sub.paidThrough > now => \E o \in OrderId : RunsOn(o) /\ orders[o].end = sub.paidThrough
  /\ \A o \in OrderId : RunsOn(o) => orders[o].end <= sub.paidThrough

(* No order is placed while a refund of the member is under review.         *)
NoOrderDuringReview ==
  [][OpenRefund => \A o \in OrderId : orders[o].status = "NONE" => orders'[o].status = "NONE"]_allVars

(* An open payment and an open refund exclude each other: each blocks the   *)
(* other, so together they would wait for an operator.                      *)
RefundExcludesPayment == ~(Pending # {} /\ OpenRefund)
=============================================================================
