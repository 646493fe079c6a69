------------------------------- MODULE Billing -------------------------------
(***************************************************************************)
(* Monthly subscription billing of ONE member: BillingService with the     *)
(* three database rows it writes (subscription, charge, paid period) and   *)
(* the payment provider behind TossBillingGateway.                         *)
(*                                                                         *)
(* Every operation of the service is a short sequence of database          *)
(* transactions with provider calls BETWEEN them, so one action here is    *)
(* one transaction (or one provider exchange) of one thread.  Web threads  *)
(* serve /api/me/billing; pollers run the chargeDue scheduler.             *)
(*                                                                         *)
(* Persistence contexts.  lockByMemberId takes a row lock, but Hibernate   *)
(* does not reload an entity its session already holds, the entities have  *)
(* no @Version, and an UPDATE writes every column.  What a thread sees     *)
(* after taking the lock is therefore what it loaded first.  A session     *)
(* lasts for one transaction in the scheduler, and for the whole request   *)
(* in a web thread when spring.jpa.open-in-view has its default (TRUE;     *)
(* application.yml does not set it).  CONSTANT OpenInView chooses, and     *)
(* cache[w] holds the loaded copies: the subscription, the order, and of    *)
(* the running paid period its id and its tier.                            *)
(*                                                                         *)
(* Abstracted: amounts and names (an order's price is fixed by its kind,   *)
(* tier and start, so identity checks on the provider's answer always      *)
(* succeed), store scopes (one scope, test mode enabled), and errors       *)
(* raised before any state is touched (they leave every variable alone).   *)
(***************************************************************************)
EXTENDS Integers, FiniteSets, FiniteSetsExt

CONSTANTS
  Web,            \* threads that serve billing requests
  Pollers,        \* threads that run the chargeDue scheduler
  Requests,       \* the kinds of request the member sends in this instance
  Tiers,          \* ordinals of BillingPlan: LIGHT = 1, STANDARD = 2, PRO = 3
  MaxOrders,      \* bound: orders the member ever places
  MaxTime,        \* bound: the last instant of the clock
  Month,          \* length of a paid term, in ticks of the clock
  OpenInView,     \* TRUE: a web request keeps one persistence context
  AbortedVisible, \* orders that, once declined, a lookup finds ABORTED; else 404
  LateDeclines    \* TRUE: a repeated attempt of an approved order may be declined

RequestKinds == {"setup", "complete", "retry", "cancel", "upgrade", "reconcile"}

ASSUME BillingAssumption ==
  /\ Web \cap Pollers = {}
  /\ Requests \subseteq RequestKinds
  /\ Tiers \subseteq Nat \ {0}
  /\ MaxOrders \in Nat \ {0}
  /\ MaxTime \in Nat
  /\ Month \in Nat \ {0}
  /\ OpenInView \in BOOLEAN
  /\ AbortedVisible \subseteq 1..MaxOrders
  /\ LateDeclines \in BOOLEAN

Workers == Web \cup Pollers
OrderId == 1..MaxOrders        \* identity column: ids grow in creation order

VARIABLES
  now,        \* Clock bean
  sub,        \* the member's billing_subscriptions row
  orders,     \* billing_charges rows by id
  periods,    \* paid_usage_periods rows by the order whose payment they reference
  ledger,     \* what the provider did with each order id (idempotency key)
  inflight,   \* order ids of charge calls that have not reached the provider
  pc, job,    \* where each thread is, and the locals it carries there
  cache       \* entities held by the thread's persistence context

dbVars == <<sub, orders, periods>>
providerVars == <<ledger, inflight>>
vars == <<now, dbVars, providerVars, pc, job, cache>>

(* Rows.  A row that does not exist has exists = FALSE / status = "NONE";   *)
(* paidThrough = 0 stands for a null next_charge_at.                       *)
NoSub == [exists |-> FALSE, tier |-> 0, key |-> FALSE,
          autoRenew |-> FALSE, paidThrough |-> 0]
NoOrder == [status |-> "NONE", kind |-> "RENEWAL", tier |-> 0,
            start |-> 0, end |-> 0, refund |-> "NONE"]
NoPeriod == [state |-> "NONE", tier |-> 0, raised |-> FALSE]
NoJob == [op |-> "none", tier |-> 0, order |-> 0, pending |-> FALSE, since |-> 0]
NoCache == [sub |-> NoSub, order |-> NoOrder, term |-> 0, tier |-> 0]

SubRow == [exists : BOOLEAN, tier : Tiers \cup {0}, key : BOOLEAN,
           autoRenew : BOOLEAN, paidThrough : Nat]
OrderRow == [status : {"NONE", "PENDING", "DONE", "FAILED", "CANCELED"},
             kind : {"RENEWAL", "UPGRADE"}, tier : Tiers \cup {0},
             start : Nat, end : Nat,
             refund : {"NONE", "REQUESTED", "PENDING", "DONE", "REJECTED"}]
PeriodRow == [state : {"NONE", "GRANTED", "REVOKED"},
              tier : Tiers \cup {0}, raised : BOOLEAN]
Job == [op : {"none", "setup", "charge", "upgrade", "reconcile"},
        tier : Tiers \cup {0}, order : OrderId \cup {0},
        pending : BOOLEAN, since : Nat]

(* Queries. *)
Pending == {o \in OrderId : orders[o].status = "PENDING"}
LatestPending == Max(Pending)                      \* order by id desc, first row
OpenRefund == \E o \in OrderId : orders[o].refund \in {"REQUESTED", "PENDING"}
Placed == {o \in OrderId : orders[o].status # "NONE"}
NextOrder == Cardinality(Placed) + 1
PeriodEnd(o) == orders[o].end                     \* copied from the order, never changed
ActivePeriods == {o \in OrderId : /\ periods[o].state = "GRANTED"
                                  /\ orders[o].start <= now
                                  /\ now < PeriodEnd(o)}
ActivePeriod == CHOOSE o \in ActivePeriods :
                  \A p \in ActivePeriods : orders[p].start <= orders[o].start

(* Faulty forms of the definitions below, one per property, for checking   *)
(* that each property notices the mistake it is there for.                 *)
BadPaidUntil(s, end) == [s EXCEPT !.paidThrough = end, !.autoRenew = TRUE]

(* Entity methods that change a row. *)
SelectPlan(s, t) == [s EXCEPT !.tier = t]
RegisterKey(s) == [s EXCEPT !.key = TRUE, !.autoRenew = TRUE]
Resume(s) == [s EXCEPT !.autoRenew = TRUE]
StopRenewal(s) == [s EXCEPT !.autoRenew = FALSE]
PaidUntil(s, end) == [s EXCEPT !.paidThrough = end]
Settle(a) == [a EXCEPT !.status = "DONE"]
Fail(a) == [a EXCEPT !.status = "FAILED"]
Grant(a) == [state |-> "GRANTED", tier |-> a.tier, raised |-> FALSE]
Raise(p, t) == [p EXCEPT !.tier = t, !.raised = TRUE]

(* What a thread reads: its loaded copy if it has one, else the database.  *)
Seen(w) == IF cache[w].sub.exists THEN cache[w].sub ELSE sub
SeenOrder(w, o) == IF cache[w].order.status # "NONE" THEN cache[w].order ELSE orders[o]
SeenTier(w, p) == IF cache[w].term = p THEN cache[w].tier ELSE periods[p].tier

(* Flushing an entity writes the whole row, and only if it is dirty.       *)
WriteSub(w, s) == sub' = IF s = Seen(w) THEN sub ELSE s
WriteOrder(w, o, r) ==
  orders' = IF r = SeenOrder(w, o) THEN orders ELSE [orders EXCEPT ![o] = r]

OneSession(w) == OpenInView /\ w \in Web
Hold(w, copies) ==
  cache' = [cache EXCEPT ![w] = IF OneSession(w) THEN copies ELSE NoCache]
Remember(w, s, r) == Hold(w, [NoCache EXCEPT !.sub = s, !.order = r])

Goto(w, label, locals) ==
  /\ pc' = [pc EXCEPT ![w] = label]
  /\ job' = [job EXCEPT ![w] = locals]

(* The request returns or throws: the thread and its session are done.     *)
Finish(w) == Goto(w, "idle", NoJob) /\ cache' = [cache EXCEPT ![w] = NoCache]

Start(op) == [NoJob EXCEPT !.op = op, !.since = now]

Asks(w, kind) == w \in Web /\ pc[w] = "idle" /\ kind \in Requests

----------------------------------------------------------------------------
Init ==
  /\ now = 1
  /\ sub = NoSub
  /\ orders = [o \in OrderId |-> NoOrder]
  /\ periods = [o \in OrderId |-> NoPeriod]
  /\ ledger = [o \in OrderId |-> "NONE"]
  /\ inflight = {}
  /\ pc = [w \in Workers |-> "idle"]
  /\ job = [w \in Workers |-> NoJob]
  /\ cache = [w \in Workers |-> NoCache]

(* setup, first call: the row is inserted and locked in one transaction.   *)
(* No selection leaves plan_code null, which BillingPlan.parse reads as    *)
(* PRO, so it equals selecting the highest tier.                           *)
FirstSetup(w, t) ==
  /\ w \in Web /\ pc[w] = "idle"
  /\ ~sub.exists
  /\ sub' = [NoSub EXCEPT !.exists = TRUE, !.tier = t]
  /\ UNCHANGED <<now, orders, periods, providerVars, pc, job, cache>>

(* setup, later calls: findByMemberId loads the row BEFORE lockByMemberId   *)
(* waits for its lock, in one transaction.  The plain read also fixes the   *)
(* transaction's snapshot (InnoDB, REPEATABLE READ), so the check for a     *)
(* pending order answers as of this step.                                   *)
SetupFind(w, t) ==
  /\ Asks(w, "setup")
  /\ sub.exists
  /\ Goto(w, "setup", [Start("setup") EXCEPT !.tier = t, !.pending = Pending # {}])
  /\ cache' = [cache EXCEPT ![w] = [NoCache EXCEPT !.sub = sub]]
  /\ UNCHANGED <<now, dbVars, providerVars>>

SetupLock(w) ==
  /\ pc[w] = "setup"
  /\ LET s == Seen(w)
         change == ~job[w].pending /\ s.paidThrough <= now
     IN  WriteSub(w, IF change THEN SelectPlan(s, job[w].tier) ELSE s)
  /\ Finish(w)
  /\ UNCHANGED <<now, orders, periods, providerVars>>

(* completeRegistration, up to the provider call that issues a card key.   *)
Complete(w) ==
  /\ Asks(w, "complete")
  /\ sub.exists /\ ~OpenRefund
  /\ Goto(w, IF sub.key THEN "charge" ELSE "issue", Start("charge"))
  /\ Remember(w, sub, NoOrder)
  /\ UNCHANGED <<now, dbVars, providerVars>>

(* ... and the transaction that saves the key unless one is there by now.  *)
Register(w) ==
  /\ pc[w] = "issue"
  /\ LET s == Seen(w)
         t == IF s.key THEN s ELSE RegisterKey(s)
     IN  WriteSub(w, t) /\ Remember(w, t, NoOrder)
  /\ Goto(w, "charge", job[w])
  /\ UNCHANGED <<now, orders, periods, providerVars>>

(* retry: resume the renewal, then charge. *)
Retry(w) ==
  /\ Asks(w, "retry")
  /\ sub.exists /\ sub.key /\ ~OpenRefund
  /\ LET s == Resume(sub)
     IN  WriteSub(w, s) /\ Remember(w, s, NoOrder)
  /\ Goto(w, "charge", Start("charge"))
  /\ UNCHANGED <<now, orders, periods, providerVars>>

CancelRenewal(w) ==
  /\ Asks(w, "cancel")
  /\ sub.exists
  /\ WriteSub(w, StopRenewal(sub))
  /\ UNCHANGED <<now, orders, periods, providerVars, pc, job, cache>>

Due == sub.exists /\ sub.autoRenew /\ sub.key /\ sub.paidThrough <= now

(* chargeDue: the due members are listed, then charged one by one.         *)
ChargeDue(w) ==
  /\ w \in Pollers /\ pc[w] = "idle"
  /\ Due
  /\ Goto(w, "charge", Start("charge"))
  /\ UNCHANGED <<now, dbVars, providerVars, cache>>

----------------------------------------------------------------------------
(* Faulty: the paid term or the open order forgotten. *)
ChargesPaidTerm(s) == OpenRefund \/ ~s.autoRenew \/ ~s.key
SkipsPending(s) == OpenRefund \/ ~s.autoRenew \/ ~s.key \/ s.paidThrough > now \/ Pending # {}

(* charge: the preparing transaction. *)
NothingToCharge(s) ==
  \/ OpenRefund
  \/ ~s.autoRenew \/ ~s.key
  \/ s.paidThrough > now
  \/ Pending # {} /\ orders[LatestPending].kind = "UPGRADE"

SkipCharge(w) ==
  /\ pc[w] = "charge"
  /\ NothingToCharge(Seen(w))
  /\ Finish(w)
  /\ UNCHANGED <<now, dbVars, providerVars>>

(* An order is pending: its outcome is looked up before anything is charged. *)
PrepareRetry(w) ==
  /\ pc[w] = "charge"
  /\ ~NothingToCharge(Seen(w))
  /\ Pending # {}
  /\ Goto(w, "lookup", [job[w] EXCEPT !.order = LatestPending])
  /\ Remember(w, Seen(w), orders[LatestPending])
  /\ UNCHANGED <<now, dbVars, providerVars>>

NewOrder(kind, tier, end) ==
  [NoOrder EXCEPT !.status = "PENDING", !.kind = kind, !.tier = tier,
                  !.start = now, !.end = end]

Place(w, order, s) ==
  /\ NextOrder <= MaxOrders
  /\ orders' = [orders EXCEPT ![NextOrder] = order]
  /\ Goto(w, "send", [job[w] EXCEPT !.order = NextOrder])
  /\ Remember(w, s, order)

(* Faulty: an open order is not looked for. *)
PrepareAlways(w) ==
  /\ pc[w] = "charge"
  /\ ~NothingToCharge(Seen(w))
  /\ Place(w, NewOrder("RENEWAL", Seen(w).tier, now + Month), Seen(w))
  /\ UNCHANGED <<now, sub, periods, providerVars>>

PrepareNew(w) ==
  /\ pc[w] = "charge"
  /\ ~NothingToCharge(Seen(w))
  /\ Pending = {}
  /\ Place(w, NewOrder("RENEWAL", Seen(w).tier, now + Month), Seen(w))
  /\ UNCHANGED <<now, sub, periods, providerVars>>

----------------------------------------------------------------------------
(* Provider exchanges, shared by charge, upgrade and reconcileUpgrade.     *)
Unknown(o) == ledger[o] = "NONE" \/ (ledger[o] = "DECLINED" /\ o \notin AbortedVisible)

(* Faulty: any answer is a payment; any error is a decline. *)
AnyAnswer(o) == ledger[o] # "NONE"
AnyError(o) == ledger[o] # "DONE"

(* The payment that came back is DONE, and for this order and amount. *)
Verified(o) == ledger[o] = "DONE"

(* An explicit card decline reaches the caller.                            *)
CardDeclined(o) == ledger[o] = "DECLINED" \/ (ledger[o] = "DONE" /\ LateDeclines)

(* lookup answers 404: charge again under the same order id.               *)
LookupMissing(w) ==
  /\ pc[w] = "lookup" /\ job[w].op # "reconcile"
  /\ Unknown(job[w].order)
  /\ Goto(w, "send", job[w])
  /\ UNCHANGED <<now, dbVars, providerVars, cache>>

LookupPaid(w) ==
  /\ pc[w] = "lookup"
  /\ Verified(job[w].order)
  /\ Goto(w, "confirm", job[w])
  /\ UNCHANGED <<now, dbVars, providerVars, cache>>

(* Any other answer is not a verified payment: BILLING_UNCERTAIN for a      *)
(* charge, plain status for reconcileUpgrade, which also stops at a 404.    *)
LookupUnsettled(w) ==
  /\ pc[w] = "lookup"
  /\ ~Verified(job[w].order)
  /\ Unknown(job[w].order) => job[w].op = "reconcile"
  /\ Finish(w)
  /\ UNCHANGED <<now, dbVars, providerVars>>

(* gateway.charge puts the order id in the Idempotency-Key header.         *)
SendCharge(w) ==
  /\ pc[w] = "send"
  /\ inflight' = inflight \cup {job[w].order}
  /\ Goto(w, "await", job[w])
  /\ UNCHANGED <<now, dbVars, ledger, cache>>

(* The provider settles an order id once; a repeated call changes nothing.  *)
ProviderSettles(o) ==
  /\ o \in inflight
  /\ inflight' = inflight \ {o}
  /\ IF ledger[o] = "NONE"
     THEN \E outcome \in {"DONE", "DECLINED"} : ledger' = [ledger EXCEPT ![o] = outcome]
     ELSE UNCHANGED ledger
  /\ UNCHANGED <<now, dbVars, pc, job, cache>>

ProviderDrops(o) ==
  /\ o \in inflight
  /\ inflight' = inflight \ {o}
  /\ UNCHANGED <<now, dbVars, ledger, pc, job, cache>>

Approved(w) ==
  /\ pc[w] = "await" /\ job[w].order \notin inflight
  /\ Verified(job[w].order)
  /\ Goto(w, "confirm", job[w])
  /\ UNCHANGED <<now, dbVars, providerVars, cache>>

Declined(w) ==
  /\ pc[w] = "await" /\ job[w].order \notin inflight
  /\ CardDeclined(job[w].order)
  /\ Goto(w, "decline", job[w])
  /\ UNCHANGED <<now, dbVars, providerVars, cache>>

(* A timeout, an I/O error, a 5xx, a configuration error, or the server     *)
(* dies: the request ends between two of its steps, its last call unheard.  *)
Abandon(w) ==
  /\ pc[w] # "idle"
  /\ Finish(w)
  /\ UNCHANGED <<now, dbVars, providerVars>>

----------------------------------------------------------------------------
(* Faulty: the order's status is not looked at again. *)
AnyStatus(a) == a.status # "NONE"

(* The order is judged by the copy the thread holds. *)
StillPending(a) == a.status = "PENDING"

(* charge: the confirming transaction.  periods has a unique key on the     *)
(* payment, so a second insert rolls the whole transaction back.            *)
ConfirmCharge(w) ==
  /\ pc[w] = "confirm" /\ job[w].op = "charge"
  /\ LET o == job[w].order
         a == SeenOrder(w, o)
     IN  IF StillPending(a) /\ periods[o].state = "NONE"
         THEN /\ periods' = [periods EXCEPT ![o] = Grant(a)]
              /\ WriteOrder(w, o, Settle(a))
              /\ WriteSub(w, PaidUntil(Seen(w), a.end))
         ELSE UNCHANGED dbVars
  /\ Finish(w)
  /\ UNCHANGED <<now, providerVars>>

(* charge: the transaction that records an explicit card decline.          *)
DeclineCharge(w) ==
  /\ pc[w] = "decline" /\ job[w].op = "charge"
  /\ LET o == job[w].order
         a == SeenOrder(w, o)
     IN  IF StillPending(a)
         THEN WriteOrder(w, o, Fail(a)) /\ WriteSub(w, StopRenewal(Seen(w)))
         ELSE UNCHANGED <<sub, orders>>
  /\ Finish(w)
  /\ UNCHANGED <<now, periods, providerVars>>

----------------------------------------------------------------------------
(* Faulty: a refund under review is not looked for. *)
UpgradesInReview == sub.exists /\ sub.key

(* upgrade, with the amount of the current quote (any other is refused).    *)
MayUpgrade == sub.exists /\ sub.key /\ ~OpenRefund

UpgradeRetry(w, t) ==
  /\ Asks(w, "upgrade") /\ MayUpgrade
  /\ Pending # {}
  /\ orders[LatestPending].kind = "UPGRADE" /\ orders[LatestPending].tier = t
  /\ Goto(w, "lookup", [Start("upgrade") EXCEPT !.order = LatestPending])
  /\ Remember(w, sub, orders[LatestPending])
  /\ UNCHANGED <<now, dbVars, providerVars>>

UpgradeNew(w, t) ==
  /\ Asks(w, "upgrade") /\ MayUpgrade
  /\ Pending = {}
  /\ ActivePeriods # {} /\ t > periods[ActivePeriod].tier
  /\ NextOrder <= MaxOrders
  /\ LET order == NewOrder("UPGRADE", t, PeriodEnd(ActivePeriod))
     IN  /\ orders' = [orders EXCEPT ![NextOrder] = order]
         /\ Goto(w, "send", [Start("upgrade") EXCEPT !.order = NextOrder])
         /\ Hold(w, [sub |-> sub, order |-> order,
                     term |-> ActivePeriod, tier |-> periods[ActivePeriod].tier])
  /\ UNCHANGED <<now, sub, periods, providerVars>>

ReconcileUpgrade(w) ==
  /\ Asks(w, "reconcile")
  /\ Pending # {} /\ orders[LatestPending].kind = "UPGRADE"
  /\ Goto(w, "lookup", [Start("reconcile") EXCEPT !.order = LatestPending])
  /\ Remember(w, NoSub, orders[LatestPending])
  /\ UNCHANGED <<now, dbVars, providerVars>>

(* completeUpgradePayment.  The paid term it raises must still be running   *)
(* and be the one the order was priced for; otherwise the order stays       *)
(* PENDING and the error asks for an operator.  A session that placed the   *)
(* order has loaded the period for its quote, and judges by that copy which *)
(* tier it holds; the row it writes is the same (the query finds only       *)
(* granted periods, and upgradeTo sets all other columns that change).      *)
ConfirmUpgrade(w) ==
  /\ pc[w] = "confirm" /\ job[w].op # "charge"
  /\ LET o == job[w].order
         a == SeenOrder(w, o)
         p == ActivePeriod
     IN  IF /\ StillPending(a)
            /\ ActivePeriods # {}
            /\ PeriodEnd(p) = a.end
            /\ a.tier > SeenTier(w, p)
         THEN /\ periods' = [periods EXCEPT ![p] = Raise(@, a.tier)]
              /\ WriteSub(w, SelectPlan(Seen(w), a.tier))
              /\ WriteOrder(w, o, Settle(a))
         ELSE UNCHANGED dbVars
  /\ Finish(w)
  /\ UNCHANGED <<now, providerVars>>

DeclineUpgrade(w) ==
  /\ pc[w] = "decline" /\ job[w].op # "charge"
  /\ LET o == job[w].order
         a == SeenOrder(w, o)
     IN  WriteOrder(w, o, IF StillPending(a) THEN Fail(a) ELSE a)
  /\ Finish(w)
  /\ UNCHANGED <<now, sub, periods, providerVars>>

----------------------------------------------------------------------------
(* One tick is half a term or more; a request (60 s budget) and its charge  *)
(* call span at most one boundary.                                          *)
Tick ==
  /\ now < MaxTime
  /\ \A w \in Workers : pc[w] # "idle" => job[w].since = now
  /\ \A o \in inflight : \E w \in Workers : pc[w] = "await" /\ job[w].order = o
  /\ now' = now + 1
  /\ UNCHANGED <<dbVars, providerVars, pc, job, cache>>

Charging(w) == \/ SkipCharge(w) \/ PrepareRetry(w) \/ PrepareNew(w)
               \/ LookupMissing(w) \/ LookupPaid(w) \/ LookupUnsettled(w)
               \/ SendCharge(w) \/ Approved(w) \/ Declined(w)
               \/ ConfirmCharge(w) \/ DeclineCharge(w)

Upgrading(w) == \/ \E t \in Tiers : UpgradeRetry(w, t) \/ UpgradeNew(w, t)
                \/ ReconcileUpgrade(w) \/ ConfirmUpgrade(w) \/ DeclineUpgrade(w)

Requesting(w) == \/ \E t \in Tiers : FirstSetup(w, t) \/ SetupFind(w, t)
                 \/ SetupLock(w) \/ Complete(w) \/ Register(w)
                 \/ Retry(w) \/ CancelRenewal(w)

Provider == \E o \in OrderId : ProviderSettles(o) \/ ProviderDrops(o)

Next == \/ \E w \in Workers : Charging(w) \/ Upgrading(w) \/ Requesting(w)
                              \/ ChargeDue(w) \/ Abandon(w)
        \/ Provider
        \/ Tick

Spec == Init /\ [][Next]_vars

(* The provider answers while the caller still waits. *)
Answers(w) == pc[w] = "await" /\ ProviderSettles(job[w].order)

(* The scheduler runs every poll-ms, a call ends within its time budget     *)
(* one way or another, and a provider that is called again and again        *)
(* answers some call in time.  Members owe nothing.                         *)
Fairness ==
  /\ \A w \in Workers : WF_vars(Abandon(w))
  /\ \A w \in Pollers : /\ WF_vars(ChargeDue(w))
                        /\ SF_vars(PrepareRetry(w) \/ PrepareNew(w))
                        /\ SF_vars(LookupMissing(w) \/ LookupPaid(w))
                        /\ SF_vars(SendCharge(w))
                        /\ SF_vars(Answers(w))
                        /\ SF_vars(Approved(w) \/ Declined(w))
                        /\ SF_vars(ConfirmCharge(w) \/ DeclineCharge(w))

FairSpec == Spec /\ Fairness
----------------------------------------------------------------------------
(* Properties. *)

(* Types of the rows and of every thread's locals and cached copies.        *)
TypeOK ==
  /\ now \in Nat
  /\ sub \in SubRow
  /\ orders \in [OrderId -> OrderRow]
  /\ periods \in [OrderId -> PeriodRow]
  /\ ledger \in [OrderId -> {"NONE", "DONE", "DECLINED", "CANCELED"}]
  /\ inflight \subseteq OrderId
  /\ pc \in [Workers -> {"idle", "setup", "issue", "charge", "lookup", "send",
                         "await", "confirm", "decline"}]
  /\ job \in [Workers -> Job]
  /\ cache \in [Workers -> [sub : SubRow, order : OrderRow,
                            term : OrderId \cup {0}, tier : Tiers \cup {0}]]

(* However many threads charge at once, the member has at most one order    *)
(* whose outcome is open: the one that pending() returns is the only one,   *)
(* so looking it up settles everything (BillingService.charge, upgrade).    *)
AtMostOnePending == Cardinality(Pending) <= 1

(* The provider never takes money for two renewal terms that overlap: a     *)
(* retry, a poll and a doubled request settle on one order per term.  Left  *)
(* out are orders the provider itself declined after it had taken the money *)
(* (LateDeclines): to the service those are unpaid, and it orders again.    *)
PaidTerms == {o \in OrderId : /\ orders[o].kind = "RENEWAL" /\ ledger[o] = "DONE"
                              /\ orders[o].status # "FAILED"}
TermsPaidOnce ==
  \A o, p \in PaidTerms :
    o # p => orders[o].end <= orders[p].start \/ orders[p].end <= orders[o].start

(* A paid period exists only for a renewal whose money the provider took,   *)
(* and exactly when the order says DONE (or was refunded since).            *)
GrantedIsPaid ==
  \A o \in OrderId :
    periods[o].state # "NONE" <=>
      /\ orders[o].kind = "RENEWAL"
      /\ orders[o].status \in {"DONE", "CANCELED"}
      /\ ledger[o] \in {"DONE", "CANCELED"}

(* The member is told that a payment failed only if no money was taken.     *)
FailedIsUnpaid == \A o \in OrderId : orders[o].status = "FAILED" => ledger[o] # "DONE"

(* A stopped renewal starts again only by a request of the member that      *)
(* starts it: registering a card or retrying.  No other handler that was    *)
(* already running may write its old copy of auto_renew back.               *)
Restarts(w) == /\ w \in Web
               /\ pc'[w] = "charge"
               /\ pc[w] = "idle" \/ (pc[w] = "issue" /\ ~sub.key)
CancelSticks ==
  [][sub.exists /\ ~sub.autoRenew /\ sub'.autoRenew => \E w \in Web : Restarts(w)]_vars

(* Once an order is settled no later answer of the provider and no slower    *)
(* thread changes the verdict: FAILED stays, and DONE ends only in CANCELED, *)
(* by a refund that an admin has approved (the late decline that charge      *)
(* guards against, and the tests try).                                       *)
SettledIsFinal ==
  [][\A o \in OrderId :
       /\ orders[o].status = "FAILED" => orders'[o].status = "FAILED"
       /\ orders[o].status = "DONE" =>
            \/ orders'[o].status = "DONE"
            \/ orders'[o].status = "CANCELED" /\ orders[o].refund = "PENDING"]_vars

(* A charge is sent only for a term that was not over when the request that  *)
(* sends it began: the member pays for time that still can be used.         *)
SentTermIsAhead ==
  [][\A w \in Workers : pc[w] = "send" /\ pc'[w] = "await"
       => orders[job[w].order].end > job[w].since]_vars

(* The rows and the provider's ledger keep the promise of PaidOrders: with   *)
(* all the copies, retries and late answers beneath, an order is placed      *)
(* alone, settled once, by what the provider did with it, and a term is held *)
(* for exactly the renewals settled so (BillingService, its three tables).   *)
Promise == INSTANCE PaidOrders WITH
  Orders <- OrderId,
  status <- [o \in OrderId |-> orders[o].status],
  money <- ledger,
  renewals <- {o \in Placed : orders[o].kind = "RENEWAL"},
  terms <- {o \in OrderId : periods[o].state = "GRANTED"}
ImplementsPaidOrders == Promise!Spec

(* A renewal that is due does not stay blocked behind an order whose outcome *)
(* nobody settles: the poll completes the order or closes it, or the order  *)
(* is one of those no poll can settle.  Those are exactly the declined ones *)
(* whose answer was lost and which the provider shows as ABORTED: every     *)
(* lookup ends in BILLING_UNCERTAIN and an operator has to compare (as      *)
(* BILLING_TEST_CONTRACT.md says of a repeated one).                        *)
BlockedDue == Due /\ Pending # {}
NeedsOperator == \E o \in Pending : ledger[o] = "DECLINED" /\ o \in AbortedVisible
DueOrderSettles == BlockedDue ~> ~BlockedDue \/ NeedsOperator

(* Money the provider took for a term becomes the paid period it was for.   *)
PaidIsGranted ==
  \A o \in OrderId :
    (ledger[o] = "DONE" /\ orders[o].kind = "RENEWAL") ~> periods[o].state = "GRANTED"
=============================================================================
