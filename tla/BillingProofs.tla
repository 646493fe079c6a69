---------------------------- MODULE BillingProofs ----------------------------
(***************************************************************************)
(* For any number of threads, orders, tiers and ticks: orders, paid        *)
(* periods and the provider's ledger agree, with one persistence context   *)
(* per request (what the service runs with) or one per transaction; and,   *)
(* where the transactions write by copies that are current, what follows   *)
(* for the terms a member pays for: no term twice, no cancelled renewal    *)
(* restarted.  Then the same beside refunds, and what refunds promise.     *)
(***************************************************************************)
EXTENDS BillingRefund, FiniteSetTheorems, WellFoundedInduction, TLAPS

Labels == {"idle", "setup", "issue", "charge", "lookup", "send", "await",
           "confirm", "decline"}
OrderLabels == {"lookup", "send", "await", "confirm", "decline"}
CacheRow == [sub : SubRow, order : OrderRow, term : OrderId \cup {0}, tier : Tiers \cup {0}]

(* What a thread at a label knows: which order it is about and of which     *)
(* kind, and what the provider has told it.                                 *)
ThreadOk(l, j, c, os, ld) ==
  /\ l \in OrderLabels =>
       /\ j.order \in OrderId
       /\ os[j.order].status # "NONE"
       /\ (os[j.order].kind = "RENEWAL") <=> (j.op = "charge")
       /\ c.order.status # "NONE" => c.order.kind = os[j.order].kind
  /\ l \in {"issue", "charge"} => j.op = "charge"
  /\ l = "confirm" => ld[j.order] \in {"DONE", "CANCELED"}
  /\ l = "decline" => ld[j.order] = "DECLINED" \/ LateDeclines

Threads == \A w \in Workers : ThreadOk(pc[w], job[w], cache[w], orders, ledger)

(* What the rows and the ledger say of each other.                          *)
PlacedPrefix == \E k \in 0..MaxOrders : Placed = 1..k
SinglePending == \A o, p \in Pending : o = p
DoneIsPaid ==
  \A o \in OrderId : orders[o].status \in {"DONE", "CANCELED"} => ledger[o] \in {"DONE", "CANCELED"}
FailedIsDeclined == \A o \in OrderId : orders[o].status = "FAILED" => ledger[o] = "DECLINED"
Settlement == LateDeclines \/ (GrantedIsPaid /\ FailedIsDeclined)

Rows == PlacedPrefix /\ SinglePending /\ DoneIsPaid /\ Settlement

IInv == TypeOK /\ Threads /\ Rows

(* An order that exists keeps its kind; a verdict of the provider stays,    *)
(* save that a payment may be returned (which only refunds ask for).        *)
RowsEvolve ==
  \A o \in OrderId :
    /\ orders[o].status # "NONE" =>
         orders'[o].status # "NONE" /\ orders'[o].kind = orders[o].kind
    /\ ledger[o] # "NONE" =>
         \/ ledger'[o] = ledger[o]
         \/ ledger[o] = "DONE" /\ ledger'[o] = "CANCELED"

----------------------------------------------------------------------------
(* A set of numbers that has a bound has a greatest member.                 *)
LEMMA Greatest ==
  ASSUME NEW S \in SUBSET Nat, S # {}, NEW b \in Nat, \A s \in S : s <= b
  PROVE  \E x \in S : \A y \in S : x >= y
<1> DEFINE T == {b - s : s \in S}
           Less == OpToRel(<, Nat)
<1>1. IsWellFoundedOn(Less, Nat)
  BY NatLessThanWellFounded, Zenon
<1>2. \A x, y \in Nat : x < y => <<x, y>> \in Less
  BY DEF OpToRel
<1> HIDE DEF Less
<1>3. T \subseteq Nat /\ T # {}
  <2>1. \A s \in S : b - s \in Nat
    OBVIOUS
  <2> QED
    BY <2>1
<1>4. PICK m \in T : \A t \in T : ~(<<t, m>> \in Less)
  BY <1>1, <1>3, WFMin, Zenon
<1>5. PICK x \in S : m = b - x
  BY <1>4
<1>6. \A y \in S : ~(b - y < b - x)
  BY <1>2, <1>3, <1>4, <1>5
<1> QED
  BY <1>5, <1>6

LEMMA MaxIsMember ==
  ASSUME NEW S \in SUBSET Nat, S # {}, NEW b \in Nat, \A s \in S : s <= b
  PROVE  Max(S) \in S
BY Greatest DEF Max

(* pending() returns an order that is PENDING.                              *)
LEMMA LatestPendingIsPending ==
  ASSUME Pending # {}
  PROVE  /\ LatestPending \in OrderId
         /\ orders[LatestPending].status = "PENDING"
<1>1. Pending \in SUBSET Nat /\ \A o \in Pending : o <= MaxOrders
  BY BillingAssumption DEF Pending, OrderId
<1>2. LatestPending \in Pending
  BY <1>1, MaxIsMember, BillingAssumption DEF LatestPending
<1> QED
  BY <1>2 DEF Pending

(* activePeriod() returns a period that is active.                          *)
LEMMA ActivePeriodIsActive ==
  ASSUME TypeOK, ActivePeriods # {}
  PROVE  /\ ActivePeriod \in OrderId
         /\ periods[ActivePeriod].state = "GRANTED"
<1> DEFINE S == {orders[o].start : o \in ActivePeriods}
<1>1. S \in SUBSET Nat /\ S # {} /\ \A s \in S : s <= now
  <2>1. \A o \in OrderId : orders[o].start \in Nat
    BY DEF TypeOK, OrderRow
  <2>2. \A o \in ActivePeriods : orders[o].start \in Nat /\ orders[o].start <= now
    BY <2>1 DEF ActivePeriods
  <2> QED
    BY <2>2
<1>2. now \in Nat
  BY DEF TypeOK
<1>3. PICK x \in S : \A y \in S : x >= y
  BY <1>1, <1>2, Greatest
<1>4. PICK o \in ActivePeriods : x = orders[o].start
  BY <1>3
<1>5. \A p \in ActivePeriods : orders[p].start <= orders[o].start
  <2> TAKE p \in ActivePeriods
  <2>1. x >= orders[p].start
    BY <1>3
  <2> QED
    BY <2>1, <1>1, <1>3, <1>4
<1>6. ActivePeriod \in ActivePeriods
  BY <1>5 DEF ActivePeriod
<1> QED
  BY <1>6 DEF ActivePeriods

----------------------------------------------------------------------------
(* The entity methods give rows again. *)
LEMMA SubMethods ==
  ASSUME NEW s \in SubRow, NEW t \in Tiers \cup {0}, NEW e \in Nat
  PROVE  /\ SelectPlan(s, t) \in SubRow
         /\ RegisterKey(s) \in SubRow
         /\ Resume(s) \in SubRow
         /\ StopRenewal(s) \in SubRow
         /\ PaidUntil(s, e) \in SubRow
         /\ [NoSub EXCEPT !.exists = TRUE, !.tier = t] \in SubRow
BY DEF SubRow, NoSub, SelectPlan, RegisterKey, Resume, StopRenewal, PaidUntil

LEMMA OrderMethods ==
  ASSUME NEW a \in OrderRow
  PROVE  /\ Settle(a) \in OrderRow /\ Settle(a).status = "DONE" /\ Settle(a).kind = a.kind
         /\ Fail(a) \in OrderRow /\ Fail(a).status = "FAILED" /\ Fail(a).kind = a.kind
BY DEF OrderRow, Settle, Fail

LEMMA PeriodMethods ==
  ASSUME NEW a \in OrderRow, NEW p \in PeriodRow, NEW t \in Tiers \cup {0}
  PROVE  /\ Grant(a) \in PeriodRow /\ Grant(a).state = "GRANTED"
         /\ Raise(p, t) \in PeriodRow /\ Raise(p, t).state = p.state
BY DEF OrderRow, PeriodRow, Grant, Raise

LEMMA NewOrders ==
  ASSUME NEW k \in {"RENEWAL", "UPGRADE"}, NEW t \in Tiers \cup {0}, NEW e \in Nat, now \in Nat
  PROVE  /\ NewOrder(k, t, e) \in OrderRow
         /\ NewOrder(k, t, e).status = "PENDING"
         /\ NewOrder(k, t, e).kind = k
BY DEF OrderRow, NewOrder, NoOrder

LEMMA EmptyRows ==
  /\ NoSub \in SubRow /\ NoOrder \in OrderRow /\ NoCache \in CacheRow /\ NoJob \in Job
  /\ NoPeriod \in PeriodRow
  /\ NoCache.order.status = "NONE" /\ NoOrder.status = "NONE"
BY DEF NoSub, SubRow, NoOrder, OrderRow, NoCache, CacheRow, NoJob, Job, NoPeriod, PeriodRow

LEMMA Locals ==
  ASSUME now \in Nat, NEW op \in {"setup", "charge", "upgrade", "reconcile"},
         NEW o \in OrderId, NEW t \in Tiers, NEW b \in BOOLEAN, NEW j \in Job
  PROVE  /\ Start(op) \in Job /\ Start(op).op = op
         /\ [Start(op) EXCEPT !.order = o] \in Job
         /\ [Start(op) EXCEPT !.order = o].op = op
         /\ [Start(op) EXCEPT !.order = o].order = o
         /\ [Start(op) EXCEPT !.tier = t, !.pending = b] \in Job
         /\ [j EXCEPT !.order = o] \in Job
         /\ [j EXCEPT !.order = o].op = j.op
         /\ [j EXCEPT !.order = o].order = o
BY DEF Start, NoJob, Job

LEMMA SeenRows ==
  ASSUME TypeOK, NEW w \in Workers
  PROVE  /\ Seen(w) \in SubRow
         /\ \A o \in OrderId : SeenOrder(w, o) \in OrderRow
BY DEF TypeOK, Seen, SeenOrder

----------------------------------------------------------------------------
(* One thread moves; the others know what they knew.                        *)
LEMMA StillOk ==
  ASSUME RowsEvolve, NEW l, NEW j, NEW c, ThreadOk(l, j, c, orders, ledger)
  PROVE  ThreadOk(l, j, c, orders', ledger')
BY DEF RowsEvolve, ThreadOk, OrderLabels

LEMMA ThreadMoves ==
  ASSUME TypeOK, Threads, RowsEvolve,
         NEW w \in Workers, NEW l \in Labels, NEW j \in Job, NEW c \in CacheRow,
         ThreadOk(l, j, c, orders', ledger'),
         pc' = [pc EXCEPT ![w] = l], job' = [job EXCEPT ![w] = j],
         cache' = [cache EXCEPT ![w] = c]
  PROVE  /\ pc' \in [Workers -> Labels]
         /\ job' \in [Workers -> Job]
         /\ cache' \in [Workers -> CacheRow]
         /\ Threads'
<1>1. /\ pc \in [Workers -> Labels] /\ job \in [Workers -> Job]
      /\ cache \in [Workers -> CacheRow]
  BY DEF TypeOK, Labels, CacheRow
<1>2. \A v \in Workers \ {w} : ThreadOk(pc'[v], job'[v], cache'[v], orders', ledger')
  <2> TAKE v \in Workers \ {w}
  <2>1. ThreadOk(pc[v], job[v], cache[v], orders, ledger)
    BY DEF Threads
  <2>2. pc'[v] = pc[v] /\ job'[v] = job[v] /\ cache'[v] = cache[v]
    BY <1>1
  <2> QED
    BY <2>1, <2>2, StillOk
<1>3. pc'[w] = l /\ job'[w] = j /\ cache'[w] = c
  BY <1>1
<1>4. ThreadOk(pc'[w], job'[w], cache'[w], orders', ledger')
  BY <1>3
<1> QED
  BY <1>1, <1>2, <1>4 DEF Threads

LEMMA ThreadsStay ==
  ASSUME Threads, RowsEvolve, UNCHANGED <<pc, job, cache>>
  PROVE  Threads'
BY StillOk DEF Threads

LEMMA RowsStay ==
  ASSUME Rows, UNCHANGED <<orders, periods, ledger>>
  PROVE  Rows' /\ RowsEvolve
BY DEF Rows, PlacedPrefix, Placed, SinglePending, Pending, DoneIsPaid, Settlement,
       GrantedIsPaid, FailedIsDeclined, RowsEvolve

(* The request ends. *)
LEMMA ThreadFinishes ==
  ASSUME TypeOK, Threads, RowsEvolve, NEW w \in Workers, Finish(w)
  PROVE  /\ pc' \in [Workers -> Labels]
         /\ job' \in [Workers -> Job]
         /\ cache' \in [Workers -> CacheRow]
         /\ Threads'
<1>1. ThreadOk("idle", NoJob, NoCache, orders', ledger')
  BY DEF ThreadOk, OrderLabels
<1> QED
  BY <1>1, ThreadMoves, EmptyRows DEF Finish, Goto, Labels

----------------------------------------------------------------------------
(* The next id is free while the orders are a prefix of the ids.            *)
LEMMA NextOrderIsFree ==
  ASSUME PlacedPrefix, NextOrder <= MaxOrders
  PROVE  /\ NextOrder \in OrderId
         /\ orders[NextOrder].status = "NONE"
         /\ Placed \cup {NextOrder} = 1..NextOrder
<1>1. PICK k \in 0..MaxOrders : Placed = 1..k
  BY DEF PlacedPrefix
<1>2. k \in Nat /\ MaxOrders \in Nat
  BY BillingAssumption
<1>3. Cardinality(Placed) = k
  BY <1>1, <1>2, FS_Interval
<1>4. NextOrder = k + 1
  BY <1>3 DEF NextOrder
<1>5. NextOrder \in OrderId
  BY <1>2, <1>4 DEF OrderId
<1>6. NextOrder \notin Placed
  BY <1>1, <1>2, <1>4
<1> QED
  BY <1>1, <1>2, <1>4, <1>5, <1>6 DEF Placed

(* An order is placed: it is the only open one, in a row nobody has used.   *)
LEMMA OrderPlaced ==
  ASSUME TypeOK, Rows, Pending = {}, NextOrder <= MaxOrders,
         NEW row \in OrderRow, row.status = "PENDING",
         orders' = [orders EXCEPT ![NextOrder] = row],
         UNCHANGED <<periods, ledger>>
  PROVE  /\ NextOrder \in OrderId
         /\ orders' \in [OrderId -> OrderRow]
         /\ orders'[NextOrder] = row
         /\ Rows'
         /\ RowsEvolve
<1> DEFINE n == NextOrder
<1>1. /\ n \in OrderId /\ orders[n].status = "NONE" /\ Placed \cup {n} = 1..n
  BY NextOrderIsFree DEF Rows
<1> HIDE DEF n
<1>2. orders' \in [OrderId -> OrderRow] /\ orders' = [orders EXCEPT ![n] = row]
  BY <1>1 DEF TypeOK, n
<1>3. orders'[n] = row /\ \A o \in OrderId \ {n} : orders'[o] = orders[o]
  BY <1>1, <1>2 DEF TypeOK
<1>4. PlacedPrefix'
  <2>1. Placed' = Placed \cup {n}
    BY <1>1, <1>3 DEF Placed
  <2>2. n \in 0..MaxOrders
    BY <1>1, BillingAssumption DEF OrderId
  <2> QED
    BY <1>1, <2>1, <2>2 DEF PlacedPrefix
<1>5. SinglePending'
  BY <1>3 DEF SinglePending, Pending
<1>6. DoneIsPaid'
  BY <1>3 DEF Rows, DoneIsPaid
<1>7. Settlement'
  <2>1. CASE LateDeclines
    BY <2>1 DEF Settlement
  <2>2. CASE GrantedIsPaid /\ FailedIsDeclined
    <3>1. periods[n].state = "NONE"
      BY <1>1, <2>2 DEF GrantedIsPaid
    <3>2. GrantedIsPaid'
      BY <1>3, <2>2, <3>1 DEF GrantedIsPaid
    <3>3. FailedIsDeclined'
      BY <1>3, <2>2 DEF FailedIsDeclined
    <3> QED
      BY <3>2, <3>3 DEF Settlement
  <2> QED
    BY <2>1, <2>2 DEF Rows, Settlement
<1>8. RowsEvolve
  BY <1>1, <1>3 DEF RowsEvolve
<1> QED
  BY <1>1, <1>2, <1>3, <1>4, <1>5, <1>6, <1>7, <1>8 DEF Rows, n

(* A verdict is written into an order that exists: everything but the paid  *)
(* periods, which the caller answers for.                                   *)
LEMMA VerdictWritten ==
  ASSUME TypeOK, Rows, NEW o \in OrderId, orders[o].status # "NONE",
         NEW row \in OrderRow, row.kind = orders[o].kind,
         \/ row.status = "DONE" /\ ledger[o] \in {"DONE", "CANCELED"}
         \/ row.status = "FAILED" /\ (ledger[o] = "DECLINED" \/ LateDeclines),
         orders' = [orders EXCEPT ![o] = row],
         UNCHANGED ledger,
         LateDeclines \/ GrantedIsPaid'
  PROVE  /\ orders' \in [OrderId -> OrderRow]
         /\ Rows'
         /\ RowsEvolve
<1>1. orders' \in [OrderId -> OrderRow]
  BY DEF TypeOK
<1>2. orders'[o] = row /\ \A p \in OrderId \ {o} : orders'[p] = orders[p]
  BY DEF TypeOK
<1>3. PlacedPrefix'
  <2>1. Placed' = Placed
    BY <1>2 DEF Placed
  <2> QED
    BY <2>1 DEF Rows, PlacedPrefix
<1>4. SinglePending'
  <2>1. Pending' \subseteq Pending
    BY <1>2 DEF Pending
  <2> QED
    BY <2>1 DEF Rows, SinglePending
<1>5. DoneIsPaid'
  BY <1>2 DEF Rows, DoneIsPaid
<1>6. LateDeclines \/ FailedIsDeclined'
  BY <1>2 DEF Rows, Settlement, FailedIsDeclined
<1>7. RowsEvolve
  BY <1>2 DEF RowsEvolve
<1> QED
  BY <1>1, <1>3, <1>4, <1>5, <1>6, <1>7 DEF Rows, Settlement

----------------------------------------------------------------------------
(* A step that leaves orders, periods and ledger alone.                     *)
LEMMA MoveOnly ==
  ASSUME IInv, NEW w \in Workers, NEW l \in Labels, NEW j \in Job, NEW c \in CacheRow,
         ThreadOk(l, j, c, orders, ledger),
         pc' = [pc EXCEPT ![w] = l], job' = [job EXCEPT ![w] = j],
         cache' = [cache EXCEPT ![w] = c],
         UNCHANGED <<orders, periods, ledger>>,
         now' \in Nat, sub' \in SubRow, inflight' \subseteq OrderId
  PROVE  IInv'
<1>1. Rows' /\ RowsEvolve
  BY RowsStay DEF IInv
<1>2. ThreadOk(l, j, c, orders', ledger')
  BY <1>1, StillOk
<1>3. /\ pc' \in [Workers -> Labels] /\ job' \in [Workers -> Job]
      /\ cache' \in [Workers -> CacheRow] /\ Threads'
  BY <1>1, <1>2, ThreadMoves DEF IInv
<1>4. TypeOK'
  BY <1>3 DEF IInv, TypeOK, Labels, CacheRow
<1> QED
  BY <1>1, <1>3, <1>4 DEF IInv

LEMMA FinishOnly ==
  ASSUME IInv, NEW w \in Workers, Finish(w),
         UNCHANGED <<orders, periods, ledger>>,
         now' \in Nat, sub' \in SubRow, inflight' \subseteq OrderId
  PROVE  IInv'
<1>1. ThreadOk("idle", NoJob, NoCache, orders, ledger)
  BY DEF ThreadOk, OrderLabels
<1> QED
  BY <1>1, MoveOnly, EmptyRows DEF Finish, Goto, Labels

LEMMA StayOnly ==
  ASSUME IInv, UNCHANGED <<orders, periods, ledger, pc, job, cache>>,
         now' \in Nat, sub' \in SubRow, inflight' \subseteq OrderId
  PROVE  IInv'
<1>1. Rows' /\ RowsEvolve
  BY RowsStay DEF IInv
<1>2. Threads'
  BY <1>1, ThreadsStay DEF IInv
<1>3. TypeOK'
  BY DEF IInv, TypeOK
<1> QED
  BY <1>1, <1>2, <1>3 DEF IInv

(* What a thread's session holds from now on. *)
LEMMA Held ==
  ASSUME TypeOK, NEW w \in Workers, NEW copies \in CacheRow, Hold(w, copies)
  PROVE  \E c \in CacheRow : /\ cache' = [cache EXCEPT ![w] = c]
                             /\ c.order.status # "NONE" => c.order = copies.order
<1>1. CASE OneSession(w)
  BY <1>1 DEF Hold
<1>2. CASE ~OneSession(w)
  BY <1>2, EmptyRows DEF Hold
<1> QED
  BY <1>1, <1>2

LEMMA Remembered ==
  ASSUME TypeOK, NEW w \in Workers, NEW s \in SubRow, NEW r \in OrderRow, Remember(w, s, r)
  PROVE  \E c \in CacheRow : /\ cache' = [cache EXCEPT ![w] = c]
                             /\ c.order.status # "NONE" => c.order = r
<1> DEFINE k == [NoCache EXCEPT !.sub = s, !.order = r]
<1>1. k \in CacheRow /\ k.order = r
  BY EmptyRows DEF CacheRow
<1>2. Hold(w, k)
  BY DEF Remember
<1> HIDE DEF k
<1> QED
  BY <1>1, <1>2, Held

(* The database types, by name. *)
LEMMA Types ==
  ASSUME TypeOK, NEW w \in Workers
  PROVE  /\ now \in Nat /\ sub \in SubRow /\ inflight \subseteq OrderId
         /\ orders \in [OrderId -> OrderRow] /\ periods \in [OrderId -> PeriodRow]
         /\ pc[w] \in Labels /\ job[w] \in Job /\ cache[w] \in CacheRow
         /\ pc = [pc EXCEPT ![w] = pc[w]] /\ job = [job EXCEPT ![w] = job[w]]
         /\ cache = [cache EXCEPT ![w] = cache[w]]
BY DEF TypeOK, Labels, CacheRow

LEMMA SubWritten ==
  ASSUME TypeOK, NEW w \in Workers, NEW s \in SubRow, WriteSub(w, s)
  PROVE  sub' \in SubRow
BY DEF TypeOK, WriteSub

(* What a thread that has an order in its hands may rely on.                *)
LEMMA OrderInHand ==
  ASSUME IInv, NEW w \in Workers, pc[w] \in OrderLabels
  PROVE  /\ job[w].order \in OrderId
         /\ orders[job[w].order].status # "NONE"
         /\ SeenOrder(w, job[w].order) \in OrderRow
         /\ SeenOrder(w, job[w].order).kind = orders[job[w].order].kind
         /\ (orders[job[w].order].kind = "RENEWAL") <=> (job[w].op = "charge")
<1>1. ThreadOk(pc[w], job[w], cache[w], orders, ledger)
  BY DEF IInv, Threads
<1>2. job[w].order \in OrderId
  BY <1>1 DEF ThreadOk
<1> QED
  BY <1>1, <1>2, SeenRows DEF IInv, ThreadOk, SeenOrder

----------------------------------------------------------------------------
(* The requests of the member up to the charge. *)
LEMMA SetupSteps ==
  ASSUME IInv, NEW w \in Workers,
         (\E t \in Tiers : FirstSetup(w, t) \/ SetupFind(w, t)) \/ SetupLock(w)
  PROVE  IInv'
<1> USE DEF IInv
<1>1. ASSUME NEW t \in Tiers, FirstSetup(w, t) PROVE IInv'
  <2>1. sub' \in SubRow
    BY <1>1, SubMethods, EmptyRows, 0 \in Nat DEF FirstSetup
  <2> QED
    BY <1>1, <2>1, StayOnly, Types DEF FirstSetup, providerVars
<1>2. ASSUME NEW t \in Tiers, SetupFind(w, t) PROVE IInv'
  <2> DEFINE j == [Start("setup") EXCEPT !.tier = t, !.pending = Pending # {}]
             c == [NoCache EXCEPT !.sub = sub]
  <2>1. j \in Job /\ c \in CacheRow
    <3>1. now \in Nat /\ sub \in SubRow /\ (Pending # {}) \in BOOLEAN
      BY Types
    <3> QED
      BY <3>1, EmptyRows DEF Start, NoJob, Job, NoCache, CacheRow
  <2>2. ThreadOk("setup", j, c, orders, ledger)
    BY DEF ThreadOk, OrderLabels
  <2>3. pc' = [pc EXCEPT ![w] = "setup"] /\ job' = [job EXCEPT ![w] = j]
        /\ cache' = [cache EXCEPT ![w] = c]
    BY <1>2 DEF SetupFind, Goto
  <2> HIDE DEF j, c
  <2>4. "setup" \in Labels
    BY DEF Labels
  <2> QED
    BY <1>2, <2>1, <2>2, <2>3, <2>4, MoveOnly, Types DEF SetupFind, dbVars, providerVars
<1>3. CASE SetupLock(w)
  <2>1. Seen(w) \in SubRow /\ job[w].tier \in Tiers \cup {0}
    BY SeenRows, Types DEF Job
  <2>2. SelectPlan(Seen(w), job[w].tier) \in SubRow
    BY <2>1, SubMethods, 0 \in Nat
  <2>3. sub' \in SubRow
    BY <1>3, <2>1, <2>2, SubWritten DEF SetupLock
  <2> QED
    BY <1>3, <2>3, FinishOnly, Types DEF SetupLock, providerVars
<1> QED
  BY <1>1, <1>2, <1>3

(* A thread that goes to charge, with whatever its session remembers.       *)
LEMMA GoesToCharge ==
  ASSUME IInv, NEW w \in Workers, NEW l \in {"issue", "charge"},
         NEW j \in Job, j.op = "charge", Goto(w, l, j),
         NEW c \in CacheRow, cache' = [cache EXCEPT ![w] = c],
         UNCHANGED <<now, orders, periods, ledger, inflight>>, sub' \in SubRow
  PROVE  IInv'
<1>1. ThreadOk(l, j, c, orders, ledger) /\ l \in Labels
  BY DEF ThreadOk, OrderLabels, Labels
<1> QED
  BY <1>1, MoveOnly, Types DEF IInv, Goto

LEMMA RequestSteps ==
  ASSUME IInv, NEW w \in Workers,
         \/ Complete(w) \/ Register(w) \/ Retry(w) \/ CancelRenewal(w) \/ ChargeDue(w)
  PROVE  IInv'
<1>0. TypeOK
  BY DEF IInv
<1>1. CASE Complete(w)
  <2>1. Start("charge") \in Job /\ Start("charge").op = "charge"
    BY <1>0, Types DEF Start, NoJob, Job
  <2>2. PICK c \in CacheRow : cache' = [cache EXCEPT ![w] = c]
    BY <1>0, <1>1, Types, EmptyRows, Remembered DEF Complete
  <2> QED
    BY <1>0, <1>1, <2>1, <2>2, Types, GoesToCharge DEF Complete, dbVars, providerVars
<1>2. CASE Register(w)
  <2> DEFINE s == IF Seen(w).key THEN Seen(w) ELSE RegisterKey(Seen(w))
  <2>1. s \in SubRow
    BY <1>0, SeenRows, SubMethods, 0 \in Nat
  <2>2. WriteSub(w, s) /\ Remember(w, s, NoOrder)
    BY <1>2 DEF Register
  <2> HIDE DEF s
  <2>3. PICK c \in CacheRow : cache' = [cache EXCEPT ![w] = c]
    BY <1>0, <2>1, <2>2, EmptyRows, Remembered
  <2>4. sub' \in SubRow
    BY <1>0, <2>1, <2>2, SubWritten
  <2>5. job[w] \in Job /\ job[w].op = "charge"
    BY <1>0, <1>2, Types DEF IInv, Threads, ThreadOk, Register
  <2> QED
    BY <1>2, <2>3, <2>4, <2>5, GoesToCharge DEF Register, providerVars
<1>3. CASE Retry(w)
  <2>1. Start("charge") \in Job /\ Start("charge").op = "charge"
    BY <1>0, Types DEF Start, NoJob, Job
  <2>2. Resume(sub) \in SubRow
    BY <1>0, Types, SubMethods, 0 \in Nat
  <2>3. PICK c \in CacheRow : cache' = [cache EXCEPT ![w] = c]
    BY <1>0, <1>3, <2>2, EmptyRows, Remembered DEF Retry
  <2>4. sub' \in SubRow
    BY <1>0, <1>3, <2>2, SubWritten DEF Retry
  <2> QED
    BY <1>3, <2>1, <2>3, <2>4, GoesToCharge DEF Retry, providerVars
<1>4. CASE CancelRenewal(w)
  <2>1. StopRenewal(sub) \in SubRow
    BY <1>0, Types, SubMethods, 0 \in Nat
  <2>2. sub' \in SubRow
    BY <1>0, <1>4, <2>1, SubWritten DEF CancelRenewal
  <2> QED
    BY <1>0, <1>4, <2>2, Types, StayOnly DEF CancelRenewal, providerVars
<1>5. CASE ChargeDue(w)
  <2>1. Start("charge") \in Job /\ Start("charge").op = "charge"
    BY <1>0, Types DEF Start, NoJob, Job
  <2>2. cache' = [cache EXCEPT ![w] = cache[w]] /\ cache[w] \in CacheRow
    BY <1>0, <1>5, Types DEF ChargeDue
  <2> QED
    BY <1>0, <1>5, <2>1, <2>2, Types, GoesToCharge DEF ChargeDue, dbVars, providerVars
<1> QED
  BY <1>1, <1>2, <1>3, <1>4, <1>5

----------------------------------------------------------------------------
(* The preparing transaction of charge. *)
LEMMA RetriesAreRenewals ==
  ASSUME IInv, NEW w \in Workers, pc[w] = "charge", ~NothingToCharge(Seen(w)), Pending # {}
  PROVE  /\ LatestPending \in OrderId
         /\ orders[LatestPending].status = "PENDING"
         /\ orders[LatestPending].kind = "RENEWAL"
         /\ orders[LatestPending] \in OrderRow
<1>1. LatestPending \in OrderId /\ orders[LatestPending].status = "PENDING"
  BY LatestPendingIsPending
<1>2. orders[LatestPending].kind # "UPGRADE"
  BY DEF NothingToCharge
<1>3. orders[LatestPending] \in OrderRow
  BY <1>1 DEF IInv, TypeOK
<1> QED
  BY <1>1, <1>2, <1>3 DEF OrderRow

LEMMA PrepareSteps ==
  ASSUME IInv, NEW w \in Workers, SkipCharge(w) \/ PrepareRetry(w) \/ PrepareNew(w)
  PROVE  IInv'
<1>0. TypeOK /\ Rows /\ Threads
  BY DEF IInv
<1>1. CASE SkipCharge(w)
  BY <1>0, <1>1, FinishOnly, Types DEF SkipCharge, dbVars, providerVars
<1>2. CASE PrepareRetry(w)
  <2> DEFINE o == LatestPending
             j == [job[w] EXCEPT !.order = o]
  <2>1. /\ o \in OrderId /\ orders[o].status = "PENDING" /\ orders[o].kind = "RENEWAL"
        /\ orders[o] \in OrderRow
    BY <1>2, RetriesAreRenewals DEF PrepareRetry
  <2>2. job[w] \in Job /\ job[w].op = "charge"
    BY <1>0, <1>2, Types DEF Threads, ThreadOk, PrepareRetry
  <2>3. j \in Job /\ j.op = "charge" /\ j.order = o
    BY <2>1, <2>2 DEF Job
  <2>4. /\ pc' = [pc EXCEPT ![w] = "lookup"] /\ job' = [job EXCEPT ![w] = j]
        /\ Remember(w, Seen(w), orders[o])
    BY <1>2 DEF PrepareRetry, Goto
  <2> HIDE DEF o, j
  <2>5. PICK c \in CacheRow : /\ cache' = [cache EXCEPT ![w] = c]
                              /\ c.order.status # "NONE" => c.order = orders[o]
    BY <1>0, <2>1, <2>4, SeenRows, Remembered
  <2>6. ThreadOk("lookup", j, c, orders, ledger) /\ "lookup" \in Labels
    BY <2>1, <2>3, <2>5 DEF ThreadOk, Labels
  <2> QED
    BY <1>0, <1>2, <2>3, <2>4, <2>5, <2>6, MoveOnly, Types
    DEF PrepareRetry, dbVars, providerVars
<1>3. CASE PrepareNew(w)
  <2> DEFINE n == NextOrder
             row == NewOrder("RENEWAL", Seen(w).tier, now + Month)
             j == [job[w] EXCEPT !.order = n]
  <2>1. now \in Nat /\ now + Month \in Nat /\ Seen(w).tier \in Tiers \cup {0}
    BY <1>0, Types, SeenRows, BillingAssumption DEF SubRow
  <2>2. row \in OrderRow /\ row.status = "PENDING" /\ row.kind = "RENEWAL"
    BY <2>1, NewOrders
  <2>3. /\ n <= MaxOrders /\ orders' = [orders EXCEPT ![n] = row]
        /\ pc' = [pc EXCEPT ![w] = "send"] /\ job' = [job EXCEPT ![w] = j]
        /\ Remember(w, Seen(w), row)
        /\ UNCHANGED <<now, sub, periods, ledger, inflight>>
        /\ Pending = {}
    BY <1>3 DEF PrepareNew, Place, Goto, providerVars
  <2>4. job[w] \in Job /\ job[w].op = "charge"
    BY <1>0, <1>3, Types DEF Threads, ThreadOk, PrepareNew
  <2> HIDE DEF row
  <2>5. /\ n \in OrderId /\ orders' \in [OrderId -> OrderRow] /\ orders'[n] = row
        /\ Rows' /\ RowsEvolve
    BY <1>0, <2>2, <2>3, OrderPlaced
  <2>6. j \in Job /\ j.op = "charge" /\ j.order = n
    BY <2>4, <2>5 DEF Job
  <2> HIDE DEF n, j
  <2>7. PICK c \in CacheRow : /\ cache' = [cache EXCEPT ![w] = c]
                              /\ c.order.status # "NONE" => c.order = row
    BY <1>0, <2>2, <2>3, SeenRows, Remembered
  <2>8. ThreadOk("send", j, c, orders', ledger') /\ "send" \in Labels
    BY <2>2, <2>5, <2>6, <2>7 DEF ThreadOk, Labels
  <2>9. /\ pc' \in [Workers -> Labels] /\ job' \in [Workers -> Job]
        /\ cache' \in [Workers -> CacheRow] /\ Threads'
    BY <1>0, <2>3, <2>5, <2>6, <2>7, <2>8, ThreadMoves
  <2>10. TypeOK'
    BY <1>0, <2>3, <2>5, <2>9 DEF TypeOK, Labels, CacheRow
  <2> QED
    BY <2>5, <2>9, <2>10 DEF IInv
<1> QED
  BY <1>1, <1>2, <1>3

----------------------------------------------------------------------------
(* The exchanges with the provider. *)
LEMMA ExchangeSteps ==
  ASSUME IInv, NEW w \in Workers,
         \/ LookupMissing(w) \/ LookupPaid(w) \/ LookupUnsettled(w)
         \/ SendCharge(w) \/ Approved(w) \/ Declined(w) \/ Abandon(w)
  PROVE  IInv'
<1>0. TypeOK /\ Rows /\ Threads
  BY DEF IInv
<1>1. ThreadOk(pc[w], job[w], cache[w], orders, ledger)
  BY <1>0 DEF Threads
<1>2. ASSUME NEW l \in OrderLabels, pc[w] \in OrderLabels,
             l = "confirm" => ledger[job[w].order] \in {"DONE", "CANCELED"},
             l = "decline" => ledger[job[w].order] = "DECLINED" \/ LateDeclines,
             Goto(w, l, job[w]), inflight' \subseteq OrderId,
             UNCHANGED <<now, sub, orders, periods, ledger, cache>>
      PROVE  IInv'
  <2>1. ThreadOk(l, job[w], cache[w], orders, ledger) /\ l \in Labels
    BY <1>1, <1>2 DEF ThreadOk, OrderLabels, Labels
  <2> QED
    BY <1>0, <1>2, <2>1, MoveOnly, Types DEF Goto
<1>3. CASE LookupMissing(w)
  BY <1>0, <1>2, <1>3, Types DEF LookupMissing, OrderLabels, dbVars, providerVars
<1>4. CASE LookupPaid(w)
  BY <1>0, <1>2, <1>4, Types DEF LookupPaid, Verified, OrderLabels, dbVars, providerVars
<1>5. CASE LookupUnsettled(w)
  BY <1>0, <1>5, FinishOnly, Types DEF LookupUnsettled, dbVars, providerVars
<1>6. CASE SendCharge(w)
  <2>1. job[w].order \in OrderId
    BY <1>6, OrderInHand DEF SendCharge, OrderLabels
  <2> QED
    BY <1>0, <1>2, <1>6, <2>1, Types DEF SendCharge, OrderLabels, dbVars
<1>7. CASE Approved(w)
  BY <1>0, <1>2, <1>7, Types DEF Approved, Verified, OrderLabels, dbVars, providerVars
<1>8. CASE Declined(w)
  BY <1>0, <1>2, <1>8, Types DEF Declined, CardDeclined, OrderLabels, dbVars, providerVars
<1>9. CASE Abandon(w)
  BY <1>0, <1>9, FinishOnly, Types DEF Abandon, dbVars, providerVars
<1> QED
  BY <1>3, <1>4, <1>5, <1>6, <1>7, <1>8, <1>9

(* The provider and the clock. *)
LEMMA EnvironmentSteps ==
  ASSUME IInv, Provider \/ Tick
  PROVE  IInv'
<1>0. TypeOK /\ Rows /\ Threads
  BY DEF IInv
<1>1. CASE Tick
  <2>1. now' \in Nat
    BY <1>0, <1>1 DEF Tick, TypeOK
  <2> QED
    BY <1>0, <1>1, <2>1, StayOnly DEF Tick, dbVars, providerVars, TypeOK
<1>2. ASSUME NEW o \in OrderId, ProviderDrops(o) PROVE IInv'
  BY <1>0, <1>2, StayOnly DEF ProviderDrops, dbVars, TypeOK
<1>3. ASSUME NEW o \in OrderId, ProviderSettles(o) PROVE IInv'
  <2>1. UNCHANGED <<now, sub, orders, periods, pc, job, cache>> /\ inflight' \subseteq OrderId
    BY <1>0, <1>3 DEF ProviderSettles, dbVars, TypeOK
  <2>2. CASE ledger[o] # "NONE"
    BY <1>0, <1>3, <2>1, <2>2, StayOnly DEF ProviderSettles, TypeOK
  <2>3. CASE ledger[o] = "NONE"
    <3>1. PICK outcome \in {"DONE", "DECLINED"} : ledger' = [ledger EXCEPT ![o] = outcome]
      BY <1>3, <2>3 DEF ProviderSettles
    <3>2. /\ ledger' \in [OrderId -> {"NONE", "DONE", "DECLINED", "CANCELED"}]
          /\ ledger'[o] = outcome
          /\ \A p \in OrderId \ {o} : ledger'[p] = ledger[p]
      BY <1>0, <3>1 DEF TypeOK
    <3>3. RowsEvolve
      BY <2>1, <2>3, <3>2 DEF RowsEvolve
    <3>4. Threads'
      BY <1>0, <2>1, <3>3, ThreadsStay
    <3>5. PlacedPrefix' /\ SinglePending'
      BY <1>0, <2>1 DEF Rows, PlacedPrefix, Placed, SinglePending, Pending
    <3>6. DoneIsPaid'
      BY <1>0, <2>1, <2>3, <3>2 DEF Rows, DoneIsPaid
    <3>7. orders[o].status \notin {"DONE", "CANCELED"}
      BY <1>0, <2>3 DEF Rows, DoneIsPaid
    <3>8. Settlement'
      BY <1>0, <2>1, <2>3, <3>2, <3>7
      DEF Rows, Settlement, GrantedIsPaid, FailedIsDeclined
    <3>9. TypeOK'
      BY <1>0, <2>1, <3>2 DEF TypeOK
    <3> QED
      BY <3>4, <3>5, <3>6, <3>8, <3>9 DEF IInv, Rows
  <2> QED
    BY <2>2, <2>3
<1> QED
  BY <1>1, <1>2, <1>3 DEF Provider

----------------------------------------------------------------------------
(* The transactions that settle an order.  The writer has the right order   *)
(* in its hands, of the right kind, and the verdict is the provider's.      *)
LEMMA SettlingStep ==
  ASSUME IInv, NEW w \in Workers, Finish(w), NEW o \in OrderId, orders[o].status # "NONE",
         NEW row \in OrderRow, row.kind = orders[o].kind,
         \/ row.status = "DONE" /\ ledger[o] \in {"DONE", "CANCELED"}
         \/ row.status = "FAILED" /\ (ledger[o] = "DECLINED" \/ LateDeclines),
         orders' = [orders EXCEPT ![o] = row],
         periods' \in [OrderId -> PeriodRow],
         LateDeclines \/ GrantedIsPaid',
         UNCHANGED <<now, ledger, inflight>>, sub' \in SubRow
  PROVE  IInv'
<1>0. TypeOK /\ Rows /\ Threads
  BY DEF IInv
<1>1. orders' \in [OrderId -> OrderRow] /\ Rows' /\ RowsEvolve
  BY <1>0, VerdictWritten
<1>2. /\ pc' \in [Workers -> Labels] /\ job' \in [Workers -> Job]
      /\ cache' \in [Workers -> CacheRow] /\ Threads'
  BY <1>0, <1>1, ThreadFinishes
<1>3. TypeOK'
  BY <1>0, <1>1, <1>2 DEF TypeOK, Labels, CacheRow
<1> QED
  BY <1>1, <1>2, <1>3 DEF IInv

LEMMA ConfirmChargeStep ==
  ASSUME IInv, NEW w \in Workers, ConfirmCharge(w)
  PROVE  IInv'
<1> DEFINE o == job[w].order
           a == SeenOrder(w, o)
<1>0. TypeOK /\ Rows /\ Threads
  BY DEF IInv
<1>1. pc[w] = "confirm" /\ job[w].op = "charge" /\ Finish(w)
      /\ UNCHANGED <<now, ledger, inflight>>
  BY DEF ConfirmCharge, providerVars
<1>2. /\ o \in OrderId /\ orders[o].status # "NONE" /\ a \in OrderRow
      /\ a.kind = orders[o].kind /\ orders[o].kind = "RENEWAL"
  BY <1>1, OrderInHand DEF OrderLabels
<1>3. ledger[o] \in {"DONE", "CANCELED"}
  BY <1>0, <1>1 DEF Threads, ThreadOk
<1>4. CASE StillPending(a) /\ periods[o].state = "NONE"
  <2>1. /\ periods' = [periods EXCEPT ![o] = Grant(a)]
        /\ WriteOrder(w, o, Settle(a))
        /\ WriteSub(w, PaidUntil(Seen(w), a.end))
    BY <1>4 DEF ConfirmCharge
  <2>2. /\ Settle(a) \in OrderRow /\ Settle(a).status = "DONE"
        /\ Settle(a).kind = orders[o].kind
    BY <1>2, OrderMethods
  <2>3. orders' = [orders EXCEPT ![o] = Settle(a)]
    <3>1. Settle(a) # a
      BY <1>4, <2>2 DEF StillPending
    <3> QED
      BY <2>1, <3>1 DEF WriteOrder
  <2>4. sub' \in SubRow
    <3>1. a.end \in Nat /\ Seen(w) \in SubRow
      BY <1>0, <1>2, SeenRows DEF OrderRow
    <3>2. PaidUntil(Seen(w), a.end) \in SubRow
      BY <3>1, SubMethods
    <3> QED
      BY <1>0, <2>1, <3>2, SubWritten
  <2>5. Grant(a) \in PeriodRow /\ Grant(a).state = "GRANTED"
    BY <1>2, EmptyRows, PeriodMethods
  <2>6. periods' \in [OrderId -> PeriodRow]
    BY <1>0, <1>2, <2>1, <2>5 DEF TypeOK
  <2>7. LateDeclines \/ GrantedIsPaid'
    <3>1. /\ orders'[o] = Settle(a) /\ periods'[o] = Grant(a)
          /\ \A p \in OrderId \ {o} : orders'[p] = orders[p] /\ periods'[p] = periods[p]
      BY <1>0, <1>2, <2>1, <2>3 DEF TypeOK
    <3> HIDE DEF o, a
    <3> QED
      BY <1>0, <1>1, <1>2, <1>3, <2>2, <2>5, <3>1 DEF Rows, Settlement, GrantedIsPaid
  <2> HIDE DEF o, a
  <2> QED
    BY <1>1, <1>2, <1>3, <2>2, <2>3, <2>4, <2>6, <2>7, SettlingStep
<1>5. CASE ~(StillPending(a) /\ periods[o].state = "NONE")
  <2>1. UNCHANGED <<sub, orders, periods>>
    BY <1>5 DEF ConfirmCharge, dbVars
  <2> QED
    BY <1>0, <1>1, <2>1, FinishOnly, Types
<1> QED
  BY <1>4, <1>5

(* A decline is written only into an order the provider has declined.       *)
LEMMA FailIsNotGranted ==
  ASSUME IInv, NEW o \in OrderId, NEW row \in OrderRow, row.status = "FAILED",
         ledger[o] = "DECLINED" \/ LateDeclines,
         orders' = [orders EXCEPT ![o] = row], UNCHANGED <<periods, ledger>>
  PROVE  LateDeclines \/ GrantedIsPaid'
<1>1. orders'[o] = row /\ \A p \in OrderId \ {o} : orders'[p] = orders[p]
  BY DEF IInv, TypeOK
<1> QED
  BY <1>1 DEF IInv, Rows, Settlement, GrantedIsPaid

LEMMA DeclineSteps ==
  ASSUME IInv, NEW w \in Workers, DeclineCharge(w) \/ DeclineUpgrade(w)
  PROVE  IInv'
<1> DEFINE o == job[w].order
           a == SeenOrder(w, o)
<1>0. TypeOK /\ Rows /\ Threads
  BY DEF IInv
<1>1. /\ pc[w] = "decline" /\ Finish(w)
      /\ UNCHANGED <<now, periods, ledger, inflight>>
  BY DEF DeclineCharge, DeclineUpgrade, providerVars
<1>2. /\ o \in OrderId /\ orders[o].status # "NONE" /\ a \in OrderRow
      /\ a.kind = orders[o].kind
  BY <1>1, OrderInHand DEF OrderLabels
<1>3. ledger[o] = "DECLINED" \/ LateDeclines
  BY <1>0, <1>1 DEF Threads, ThreadOk
<1>4. sub' \in SubRow
  <2>1. StopRenewal(Seen(w)) \in SubRow
    BY <1>0, SeenRows, SubMethods, 0 \in Nat
  <2> QED
    BY <1>0, <2>1, SubWritten, Types DEF DeclineCharge, DeclineUpgrade
<1>5. CASE StillPending(a)
  <2>1. WriteOrder(w, o, Fail(a))
    BY <1>5 DEF DeclineCharge, DeclineUpgrade
  <2>2. Fail(a) \in OrderRow /\ Fail(a).status = "FAILED" /\ Fail(a).kind = orders[o].kind
    BY <1>2, OrderMethods
  <2>3. Fail(a) # a
    BY <1>5, <2>2 DEF StillPending
  <2>4. orders' = [orders EXCEPT ![o] = Fail(a)]
    BY <2>1, <2>3 DEF WriteOrder
  <2>5. periods' \in [OrderId -> PeriodRow]
    BY <1>0, <1>1 DEF TypeOK
  <2> HIDE DEF o, a
  <2>6. LateDeclines \/ GrantedIsPaid'
    BY <1>1, <1>2, <1>3, <2>2, <2>4, FailIsNotGranted
  <2> QED
    BY <1>1, <1>2, <1>3, <1>4, <2>2, <2>4, <2>5, <2>6, SettlingStep
<1>6. CASE ~StillPending(a)
  <2>1. UNCHANGED orders
    BY <1>6 DEF DeclineCharge, DeclineUpgrade, WriteOrder
  <2> QED
    BY <1>0, <1>1, <1>4, <2>1, FinishOnly, Types
<1> QED
  BY <1>5, <1>6

----------------------------------------------------------------------------
(* Upgrades. *)
LEMMA UpgradeLookups ==
  ASSUME IInv, NEW w \in Workers,
         (\E t \in Tiers : UpgradeRetry(w, t)) \/ ReconcileUpgrade(w)
  PROVE  IInv'
<1> DEFINE o == LatestPending
<1>0. TypeOK /\ Rows /\ Threads
  BY DEF IInv
<1>1. PICK op \in {"upgrade", "reconcile"}, s \in SubRow :
         /\ Pending # {} /\ orders[o].kind = "UPGRADE"
         /\ Goto(w, "lookup", [Start(op) EXCEPT !.order = o])
         /\ Remember(w, s, orders[o])
         /\ UNCHANGED <<now, sub, orders, periods, ledger, inflight>>
  <2>1. CASE \E t \in Tiers : UpgradeRetry(w, t)
    BY <1>0, <2>1, Types DEF UpgradeRetry, dbVars, providerVars
  <2>2. CASE ReconcileUpgrade(w)
    BY <2>2, EmptyRows DEF ReconcileUpgrade, dbVars, providerVars
  <2> QED
    BY <2>1, <2>2
<1> DEFINE j == [Start(op) EXCEPT !.order = o]
<1>2. /\ o \in OrderId /\ orders[o].status = "PENDING" /\ orders[o] \in OrderRow
  BY <1>0, <1>1, LatestPendingIsPending DEF TypeOK
<1>3. j \in Job /\ j.op = op /\ j.order = o
  BY <1>0, <1>2, Types DEF Start, NoJob, Job
<1>4. pc' = [pc EXCEPT ![w] = "lookup"] /\ job' = [job EXCEPT ![w] = j]
  BY <1>1 DEF Goto
<1> HIDE DEF o, j
<1>5. PICK c \in CacheRow : /\ cache' = [cache EXCEPT ![w] = c]
                            /\ c.order.status # "NONE" => c.order = orders[o]
  BY <1>0, <1>1, <1>2, Remembered
<1>6. ThreadOk("lookup", j, c, orders, ledger) /\ "lookup" \in Labels
  BY <1>1, <1>2, <1>3, <1>5 DEF ThreadOk, Labels
<1> QED
  BY <1>0, <1>1, <1>3, <1>4, <1>5, <1>6, MoveOnly, Types

LEMMA UpgradeNewStep ==
  ASSUME IInv, NEW w \in Workers, NEW t \in Tiers, UpgradeNew(w, t)
  PROVE  IInv'
<1> DEFINE n == NextOrder
           row == NewOrder("UPGRADE", t, PeriodEnd(ActivePeriod))
           j == [Start("upgrade") EXCEPT !.order = n]
           k == [sub |-> sub, order |-> row,
                 term |-> ActivePeriod, tier |-> periods[ActivePeriod].tier]
<1>0. TypeOK /\ Rows /\ Threads
  BY DEF IInv
<1>1. /\ Pending = {} /\ ActivePeriods # {} /\ n <= MaxOrders
      /\ orders' = [orders EXCEPT ![n] = row]
      /\ pc' = [pc EXCEPT ![w] = "send"] /\ job' = [job EXCEPT ![w] = j]
      /\ Hold(w, k)
      /\ UNCHANGED <<now, sub, periods, ledger, inflight>>
  BY DEF UpgradeNew, Goto, providerVars
<1>2. /\ now \in Nat /\ PeriodEnd(ActivePeriod) \in Nat
      /\ ActivePeriod \in OrderId /\ periods[ActivePeriod].tier \in Tiers \cup {0}
  <2>1. ActivePeriod \in OrderId
    BY <1>0, <1>1, ActivePeriodIsActive
  <2> QED
    BY <1>0, <2>1 DEF PeriodEnd, TypeOK, OrderRow, PeriodRow
<1>3. row \in OrderRow /\ row.status = "PENDING" /\ row.kind = "UPGRADE"
  BY <1>2, NewOrders
<1> HIDE DEF row
<1>10. k \in CacheRow /\ k.order = row
  BY <1>0, <1>2, <1>3 DEF CacheRow, TypeOK
<1> HIDE DEF k
<1>4. /\ n \in OrderId /\ orders' \in [OrderId -> OrderRow] /\ orders'[n] = row
      /\ Rows' /\ RowsEvolve
  BY <1>0, <1>1, <1>3, OrderPlaced
<1>5. j \in Job /\ j.op = "upgrade" /\ j.order = n
  BY <1>2, <1>4 DEF Start, NoJob, Job
<1> HIDE DEF n, j
<1>6. PICK c \in CacheRow : /\ cache' = [cache EXCEPT ![w] = c]
                            /\ c.order.status # "NONE" => c.order = row
  BY <1>0, <1>1, <1>10, Held
<1>7. ThreadOk("send", j, c, orders', ledger') /\ "send" \in Labels
  BY <1>3, <1>4, <1>5, <1>6 DEF ThreadOk, Labels
<1>8. /\ pc' \in [Workers -> Labels] /\ job' \in [Workers -> Job]
      /\ cache' \in [Workers -> CacheRow] /\ Threads'
  BY <1>0, <1>1, <1>4, <1>5, <1>6, <1>7, ThreadMoves
<1>9. TypeOK'
  BY <1>0, <1>1, <1>4, <1>8 DEF TypeOK, Labels, CacheRow
<1> QED
  BY <1>4, <1>8, <1>9 DEF IInv

LEMMA ConfirmUpgradeStep ==
  ASSUME IInv, NEW w \in Workers, ConfirmUpgrade(w)
  PROVE  IInv'
<1> DEFINE o == job[w].order
           a == SeenOrder(w, o)
           p == ActivePeriod
           raises == /\ StillPending(a) /\ ActivePeriods # {}
                     /\ PeriodEnd(p) = a.end /\ a.tier > SeenTier(w, p)
<1>0. TypeOK /\ Rows /\ Threads
  BY DEF IInv
<1>1. pc[w] = "confirm" /\ job[w].op # "charge" /\ Finish(w)
      /\ UNCHANGED <<now, ledger, inflight>>
  BY DEF ConfirmUpgrade, providerVars
<1>2. /\ o \in OrderId /\ orders[o].status # "NONE" /\ a \in OrderRow
      /\ a.kind = orders[o].kind /\ orders[o].kind # "RENEWAL"
  BY <1>1, OrderInHand DEF OrderLabels
<1>3. ledger[o] \in {"DONE", "CANCELED"}
  BY <1>0, <1>1 DEF Threads, ThreadOk
<1>4. CASE raises
  <2>1. /\ periods' = [periods EXCEPT ![p] = Raise(@, a.tier)]
        /\ WriteSub(w, SelectPlan(Seen(w), a.tier))
        /\ WriteOrder(w, o, Settle(a))
    BY <1>4 DEF ConfirmUpgrade
  <2>2. Settle(a) \in OrderRow /\ Settle(a).status = "DONE" /\ Settle(a).kind = orders[o].kind
    BY <1>2, OrderMethods
  <2>3. orders' = [orders EXCEPT ![o] = Settle(a)]
    <3>1. Settle(a) # a
      BY <1>4, <2>2 DEF StillPending
    <3> QED
      BY <2>1, <3>1 DEF WriteOrder
  <2>4. p \in OrderId /\ periods[p].state = "GRANTED" /\ periods[p] \in PeriodRow
    BY <1>0, <1>4, ActivePeriodIsActive DEF TypeOK
  <2>5. a.tier \in Tiers \cup {0}
    BY <1>2 DEF OrderRow
  <2>6. sub' \in SubRow
    <3>1. SelectPlan(Seen(w), a.tier) \in SubRow
      BY <1>0, <2>5, SeenRows, SubMethods, 0 \in Nat
    <3> QED
      BY <1>0, <2>1, <3>1, SubWritten
  <2>7. /\ Raise(periods[p], a.tier) \in PeriodRow
        /\ Raise(periods[p], a.tier).state = periods[p].state
    BY <1>2, <2>4, <2>5, PeriodMethods
  <2>8. /\ periods' \in [OrderId -> PeriodRow]
        /\ \A q \in OrderId : periods'[q].state = periods[q].state
    BY <1>0, <2>1, <2>4, <2>7 DEF TypeOK
  <2>9. orders'[o] = Settle(a) /\ \A q \in OrderId \ {o} : orders'[q] = orders[q]
    BY <1>0, <1>2, <2>3 DEF TypeOK
  <2> HIDE DEF o, a, p
  <2>10. LateDeclines \/ GrantedIsPaid'
    BY <1>0, <1>1, <1>2, <2>2, <2>8, <2>9 DEF Rows, Settlement, GrantedIsPaid
  <2> QED
    BY <1>1, <1>2, <1>3, <2>2, <2>3, <2>6, <2>8, <2>10, SettlingStep
<1>5. CASE ~raises
  <2>1. UNCHANGED <<sub, orders, periods>>
    BY <1>5 DEF ConfirmUpgrade, dbVars
  <2> QED
    BY <1>0, <1>1, <2>1, FinishOnly, Types
<1> QED
  BY <1>4, <1>5

----------------------------------------------------------------------------
LEMMA InitEstablishesIInv == Init => IInv
<1> SUFFICES ASSUME Init PROVE IInv
  OBVIOUS
<1>1. TypeOK
  BY EmptyRows DEF Init, TypeOK, CacheRow
<1>2. Threads
  BY DEF Init, Threads, ThreadOk, OrderLabels
<1>3. \A o \in OrderId : orders[o].status = "NONE" /\ periods[o].state = "NONE"
  BY DEF Init, NoOrder, NoPeriod
<1>4. PlacedPrefix
  <2>1. Placed = {} /\ 0 \in 0..MaxOrders /\ 1..0 = {}
    BY <1>3, BillingAssumption DEF Placed
  <2> QED
    BY <2>1 DEF PlacedPrefix
<1>5. SinglePending /\ DoneIsPaid /\ Settlement
  BY <1>3 DEF SinglePending, Pending, DoneIsPaid, Settlement, GrantedIsPaid, FailedIsDeclined
<1> QED
  BY <1>1, <1>2, <1>4, <1>5 DEF IInv, Rows

LEMMA NextPreservesIInv == IInv /\ [Next]_vars => IInv'
<1> SUFFICES ASSUME IInv, [Next]_vars PROVE IInv'
  OBVIOUS
<1>1. ASSUME NEW w \in Workers, Charging(w) PROVE IInv'
  BY <1>1, PrepareSteps, ExchangeSteps, ConfirmChargeStep, DeclineSteps DEF Charging
<1>2. ASSUME NEW w \in Workers, Upgrading(w) PROVE IInv'
  <2>1. ASSUME NEW t \in Tiers, UpgradeRetry(w, t) \/ UpgradeNew(w, t) PROVE IInv'
    BY <2>1, UpgradeLookups, UpgradeNewStep
  <2>2. CASE ReconcileUpgrade(w)
    BY <2>2, UpgradeLookups
  <2> QED
    BY <1>2, <2>1, <2>2, ConfirmUpgradeStep, DeclineSteps DEF Upgrading
<1>3. ASSUME NEW w \in Workers, Requesting(w) PROVE IInv'
  BY <1>3, SetupSteps, RequestSteps DEF Requesting
<1>4. ASSUME NEW w \in Workers, ChargeDue(w) \/ Abandon(w) PROVE IInv'
  BY <1>4, RequestSteps, ExchangeSteps
<1>5. CASE Provider \/ Tick
  BY <1>5, EnvironmentSteps
<1>6. CASE UNCHANGED vars
  BY <1>6, StayOnly DEF vars, dbVars, providerVars, IInv, TypeOK
<1> QED
  BY <1>1, <1>2, <1>3, <1>4, <1>5, <1>6 DEF Next

LEMMA SpecKeepsIInv == Spec => []IInv
BY InitEstablishesIInv, NextPreservesIInv, PTL DEF Spec

(* The rows, the locals and the loaded copies of every thread keep their    *)
(* types, whatever interleaving, crash or late answer there is.             *)
THEOREM BillingTypes == Spec => []TypeOK
<1>1. IInv => TypeOK
  BY DEF IInv
<1> QED
  BY <1>1, SpecKeepsIInv, PTL

LEMMA OneOpenIsCounted ==
  ASSUME SinglePending
  PROVE  AtMostOnePending
<1>1. CASE Pending = {}
  BY <1>1, FS_EmptySet DEF AtMostOnePending
<1>2. ASSUME NEW o \in Pending PROVE AtMostOnePending
  <2>1. Pending = {o}
    BY <1>2 DEF SinglePending
  <2>2. Cardinality({o}) = 1
    BY FS_Singleton
  <2> QED
    BY <2>1, <2>2 DEF AtMostOnePending
<1> QED
  BY <1>1, <1>2

(* The member never has two orders of open outcome: the check for a pending *)
(* order and the insertion are under one lock and read committed rows, even *)
(* when the session's copy of the subscription is stale.                    *)
THEOREM OneOpenOrder == Spec => []AtMostOnePending
<1>1. IInv => AtMostOnePending
  BY OneOpenIsCounted DEF IInv, Rows
<1> QED
  BY <1>1, SpecKeepsIInv, PTL

(* A provider that gives one verdict per order: then a period exists exactly *)
(* for the renewals it was paid for, however stale the copies are that the  *)
(* confirming and declining transactions work on.                           *)
THEOREM PeriodsArePaid == ~LateDeclines => (Spec => []GrantedIsPaid)
<1> SUFFICES ASSUME ~LateDeclines PROVE Spec => []GrantedIsPaid
  OBVIOUS
<1>1. IInv => GrantedIsPaid
  BY DEF IInv, Rows, Settlement
<1> QED
  BY <1>1, SpecKeepsIInv, PTL

(* With such a provider no order is recorded as failed of which the money    *)
(* was taken.                                                               *)
THEOREM FailuresAreUnpaid == ~LateDeclines => (Spec => []FailedIsUnpaid)
<1> SUFFICES ASSUME ~LateDeclines PROVE Spec => []FailedIsUnpaid
  OBVIOUS
<1>1. IInv => FailedIsUnpaid
  BY DEF IInv, Rows, Settlement, FailedIsDeclined, FailedIsUnpaid
<1> QED
  BY <1>1, SpecKeepsIInv, PTL

----------------------------------------------------------------------------
(* Terms and verdicts *)

(* With one persistence context per transaction only a setup that is        *)
(* waiting for its lock holds a copy from before it.                        *)
FreshCopies ==
  ~OpenInView => \A w \in Workers : /\ cache[w].order.status = "NONE"
                                    /\ cache[w].sub.exists => pc[w] = "setup"

(* Who can be where. *)
Posts ==
  \A w \in Workers : /\ pc[w] = "issue" => w \in Web
                     /\ pc[w] \in {"issue", "charge"} => sub.exists
                     /\ cache[w].sub.exists => w \in Web

(* The copies of rows that a thread's session holds are the rows as they    *)
(* are now.  A transaction that writes when this is so overwrites nothing   *)
(* it has not read: a version column would let it pass.  The service has no *)
(* such column, and with a session per request (the default) nothing makes  *)
(* it so; with a session per transaction every order is current, and the    *)
(* subscription too unless a setup waits for its lock.                      *)
CurrentOrder(w) == cache[w].order.status # "NONE" => cache[w].order = orders[job[w].order]
CurrentSub(w) == cache[w].sub.exists => cache[w].sub = sub
OrdersAreCurrent ==
  dbVars' # dbVars => \A w \in Workers : pc'[w] # pc[w] => CurrentOrder(w)
SubIsCurrent ==
  dbVars' # dbVars => \A w \in Workers : pc'[w] # pc[w] => CurrentSub(w)

(* A request goes on by a copy of the subscription that is out of date.     *)
OldCopy(w) == pc'[w] # pc[w] /\ cache[w].sub.exists /\ cache[w].sub # sub

(* The transactions, by what they write into subscription and orders.       *)
SubChanges ==
  \/ sub' = sub
  \/ ~sub.exists /\ sub'.exists /\ sub'.paidThrough = 0 /\ ~sub'.autoRenew
  \/ sub' = StopRenewal(sub)
  \/ \E w \in Workers : /\ pc[w] = "issue" /\ pc'[w] = "charge" /\ ~Seen(w).key
                        /\ sub' = RegisterKey(Seen(w))
  \/ \E w \in Web : /\ pc[w] = "idle" /\ pc'[w] = "charge"
                    /\ sub.exists /\ sub' = Resume(sub)
  \/ \E w \in Workers : /\ pc[w] = "setup" /\ pc'[w] = "idle" /\ Seen(w).paidThrough <= now
                        /\ sub' = SelectPlan(Seen(w), job[w].tier)

Quiet == UNCHANGED <<orders, periods>> /\ SubChanges

Places(row) ==
  /\ Pending = {} /\ ~OpenRefund /\ NextOrder <= MaxOrders
  /\ row \in OrderRow /\ row.status = "PENDING" /\ row.refund = "NONE"
  /\ orders' = [orders EXCEPT ![NextOrder] = row]
  /\ \/ row.kind = "UPGRADE" /\ sub.exists
     \/ \E w \in Workers : /\ pc[w] = "charge" /\ pc'[w] = "send"
                           /\ row.start = now
                           /\ Seen(w).paidThrough <= row.start /\ row.start <= row.end
  /\ UNCHANGED <<sub, periods>>

SettlesRenewal(w, o, a) ==
  /\ pc[w] = "confirm" /\ pc'[w] = "idle"
  /\ a.status = "PENDING" /\ orders[o].kind = "RENEWAL"
  /\ periods[o].state = "NONE"
  /\ orders' = [orders EXCEPT ![o] = Settle(a)]
  /\ periods' = [periods EXCEPT ![o] = Grant(a)]
  /\ WriteSub(w, PaidUntil(Seen(w), a.end))

SettlesUpgrade(w, o, a) ==
  /\ pc[w] = "confirm" /\ pc'[w] = "idle"
  /\ a.status = "PENDING" /\ orders[o].kind = "UPGRADE"
  /\ ActivePeriods # {}
  /\ orders' = [orders EXCEPT ![o] = Settle(a)]
  /\ periods' = [periods EXCEPT ![ActivePeriod] = Raise(@, a.tier)]
  /\ WriteSub(w, SelectPlan(Seen(w), a.tier))

Fails(w, o, a) ==
  /\ pc[w] = "decline" /\ pc'[w] = "idle" /\ a.status = "PENDING"
  /\ orders' = [orders EXCEPT ![o] = Fail(a)]
  /\ UNCHANGED periods
  /\ sub' = sub \/ WriteSub(w, StopRenewal(Seen(w)))

Verdict(w) ==
  LET o == job[w].order
      a == SeenOrder(w, o)
  IN  SettlesRenewal(w, o, a) \/ SettlesUpgrade(w, o, a) \/ Fails(w, o, a)

----------------------------------------------------------------------------
(* What a thread whose copies are current sees is the database.             *)
LEMMA SeesRow ==
  ASSUME NEW w \in Workers
  PROVE  /\ CurrentSub(w) => Seen(w) = sub
         /\ CurrentOrder(w) => SeenOrder(w, job[w].order) = orders[job[w].order]
BY DEF CurrentSub, CurrentOrder, Seen, SeenOrder

(* A session per transaction is enough for the orders.                      *)
LEMMA FreshOrders ==
  ASSUME ~OpenInView, FreshCopies
  PROVE  OrdersAreCurrent
BY DEF FreshCopies, OrdersAreCurrent, CurrentOrder

(* In a step that writes, so sees the thread that takes it.                 *)
LEMMA WriterSees ==
  ASSUME NEW w \in Workers, dbVars' # dbVars, pc'[w] # pc[w]
  PROVE  /\ SubIsCurrent => Seen(w) = sub
         /\ OrdersAreCurrent => SeenOrder(w, job[w].order) = orders[job[w].order]
BY SeesRow DEF SubIsCurrent, OrdersAreCurrent

LEMMA FinishIsIdle ==
  ASSUME TypeOK, NEW w \in Workers, Finish(w)
  PROVE  pc'[w] = "idle"
BY DEF Finish, Goto, TypeOK

(* A verdict changes the status of a row and nothing else.                  *)
LEMMA OrderColumns ==
  ASSUME NEW a \in OrderRow
  PROVE  /\ Settle(a).start = a.start /\ Settle(a).end = a.end /\ Settle(a).refund = a.refund
         /\ Settle(a).tier = a.tier
         /\ Fail(a).start = a.start /\ Fail(a).end = a.end /\ Fail(a).refund = a.refund
         /\ Fail(a).tier = a.tier
BY DEF OrderRow, Settle, Fail

(* Each request of the member up to the charge changes no order.            *)
LEMMA RequestsAreQuiet ==
  ASSUME IInv, NEW w \in Workers, Requesting(w)
  PROVE  Quiet
<1>0. TypeOK
  BY DEF IInv
<1>1. ASSUME NEW t \in Tiers, FirstSetup(w, t) PROVE Quiet
  BY <1>1 DEF FirstSetup, Quiet, SubChanges, NoSub
<1>2. ASSUME NEW t \in Tiers, SetupFind(w, t) PROVE Quiet
  BY <1>2 DEF SetupFind, Quiet, SubChanges, dbVars
<1>3. CASE SetupLock(w)
  <2>1. \/ sub' = sub
        \/ Seen(w).paidThrough <= now /\ sub' = SelectPlan(Seen(w), job[w].tier)
    BY <1>3 DEF SetupLock, WriteSub
  <2>2. pc[w] = "setup" /\ pc'[w] = "idle" /\ UNCHANGED <<orders, periods>>
    BY <1>0, <1>3, FinishIsIdle DEF SetupLock
  <2> QED
    BY <2>1, <2>2 DEF Quiet, SubChanges
<1>4. CASE Complete(w)
  BY <1>4 DEF Complete, Quiet, SubChanges, dbVars
<1>5. CASE Register(w)
  <2>1. pc'[w] = "charge" /\ pc[w] = "issue" /\ UNCHANGED <<orders, periods>>
    BY <1>0, <1>5 DEF Register, Goto, TypeOK
  <2>2. sub' = sub \/ (~Seen(w).key /\ sub' = RegisterKey(Seen(w)))
    BY <1>5 DEF Register, WriteSub
  <2> QED
    BY <2>1, <2>2 DEF Quiet, SubChanges
<1>6. CASE Retry(w)
  <2>1. /\ pc'[w] = "charge" /\ pc[w] = "idle" /\ UNCHANGED <<orders, periods>>
        /\ w \in Web /\ sub.exists
    BY <1>0, <1>6 DEF Retry, Goto, TypeOK, Asks
  <2>2. sub' = sub \/ sub' = Resume(sub)
    BY <1>6 DEF Retry, WriteSub
  <2> QED
    BY <2>1, <2>2 DEF Quiet, SubChanges
<1>7. CASE CancelRenewal(w)
  BY <1>7 DEF CancelRenewal, WriteSub, Quiet, SubChanges
<1> QED
  BY <1>1, <1>2, <1>3, <1>4, <1>5, <1>6, <1>7 DEF Requesting

LEMMA NewOrderColumns ==
  ASSUME NEW k \in {"RENEWAL", "UPGRADE"}, NEW t \in Tiers \cup {0}, NEW e \in Nat, now \in Nat
  PROVE  /\ NewOrder(k, t, e).refund = "NONE"
         /\ NewOrder(k, t, e).start = now /\ NewOrder(k, t, e).end = e
BY DEF NewOrder, NoOrder

(* Preparing a charge places at most one order, for a term not yet paid.    *)
LEMMA PreparingPlaces ==
  ASSUME IInv, NEW w \in Workers, SkipCharge(w) \/ PrepareRetry(w) \/ PrepareNew(w)
  PROVE  Quiet \/ \E row \in OrderRow : Places(row)
<1>0. TypeOK
  BY DEF IInv
<1>1. CASE SkipCharge(w) \/ PrepareRetry(w)
  BY <1>1 DEF SkipCharge, PrepareRetry, Quiet, SubChanges, dbVars
<1>2. CASE PrepareNew(w)
  <2> DEFINE row == NewOrder("RENEWAL", Seen(w).tier, now + Month)
  <2>1. now \in Nat /\ now + Month \in Nat /\ now <= now + Month /\ Seen(w).tier \in Tiers \cup {0}
        /\ Seen(w).paidThrough \in Nat
    BY <1>0, Types, SeenRows, BillingAssumption DEF SubRow
  <2>2. row \in OrderRow /\ row.status = "PENDING"
    BY <2>1, NewOrders
  <2>3. row.refund = "NONE" /\ row.start = now /\ row.end = now + Month
    BY <2>1, NewOrderColumns
  <2>4. /\ ~NothingToCharge(Seen(w)) /\ Pending = {} /\ pc[w] = "charge"
        /\ NextOrder <= MaxOrders /\ orders' = [orders EXCEPT ![NextOrder] = row]
        /\ UNCHANGED <<sub, periods>>
        /\ pc'[w] = "send"
    BY <1>0, <1>2 DEF PrepareNew, Place, Goto, TypeOK
  <2>5. ~OpenRefund /\ Seen(w).paidThrough <= now
    BY <2>1, <2>4 DEF NothingToCharge
  <2> HIDE DEF row
  <2> QED
    BY <2>1, <2>2, <2>3, <2>4, <2>5 DEF Places
<1> QED
  BY <1>1, <1>2

LEMMA UpgradingPlaces ==
  ASSUME IInv, NEW w \in Workers,
         (\E t \in Tiers : UpgradeRetry(w, t) \/ UpgradeNew(w, t)) \/ ReconcileUpgrade(w)
  PROVE  Quiet \/ \E row \in OrderRow : Places(row)
<1>0. TypeOK
  BY DEF IInv
<1>1. CASE (\E t \in Tiers : UpgradeRetry(w, t)) \/ ReconcileUpgrade(w)
  BY <1>1 DEF UpgradeRetry, ReconcileUpgrade, Quiet, SubChanges, dbVars
<1>2. ASSUME NEW t \in Tiers, UpgradeNew(w, t) PROVE \E row \in OrderRow : Places(row)
  <2> DEFINE row == NewOrder("UPGRADE", t, PeriodEnd(ActivePeriod))
  <2>1. now \in Nat /\ PeriodEnd(ActivePeriod) \in Nat
    <3>1. ActivePeriod \in OrderId
      BY <1>0, <1>2, ActivePeriodIsActive DEF UpgradeNew
    <3> QED
      BY <1>0, <3>1 DEF PeriodEnd, TypeOK, OrderRow
  <2>2. row \in OrderRow /\ row.status = "PENDING" /\ row.kind = "UPGRADE" /\ row.refund = "NONE"
    BY <2>1, NewOrders, NewOrderColumns
  <2>3. /\ MayUpgrade /\ Pending = {} /\ NextOrder <= MaxOrders
        /\ orders' = [orders EXCEPT ![NextOrder] = row] /\ UNCHANGED <<sub, periods>>
    BY <1>2 DEF UpgradeNew
  <2> HIDE DEF row
  <2> QED
    BY <2>2, <2>3 DEF Places, MayUpgrade
<1> QED
  BY <1>1, <1>2

(* A verdict is written over the copy the thread sees, if that is PENDING.  *)
LEMMA VerdictsWrite ==
  ASSUME IInv, NEW w \in Workers,
         ConfirmCharge(w) \/ DeclineCharge(w) \/ ConfirmUpgrade(w) \/ DeclineUpgrade(w)
  PROVE  Quiet \/ Verdict(w)
<1> DEFINE o == job[w].order
           a == SeenOrder(w, o)
<1>1. pc[w] \in OrderLabels
  BY DEF ConfirmCharge, DeclineCharge, ConfirmUpgrade, DeclineUpgrade, OrderLabels
<1>9. pc'[w] = "idle"
  BY FinishIsIdle DEF IInv, ConfirmCharge, DeclineCharge, ConfirmUpgrade, DeclineUpgrade
<1>2. /\ o \in OrderId /\ a \in OrderRow /\ a.kind = orders[o].kind
      /\ (orders[o].kind = "RENEWAL") <=> (job[w].op = "charge")
  BY <1>1, OrderInHand
<1>3. /\ Settle(a) \in OrderRow /\ Settle(a).status = "DONE"
      /\ Fail(a) \in OrderRow /\ Fail(a).status = "FAILED"
  BY <1>2, OrderMethods
<1>4. a.status = "PENDING" => Settle(a) # a /\ Fail(a) # a
  BY <1>3
<1>5. orders[o].kind \in {"RENEWAL", "UPGRADE"}
  BY <1>2 DEF OrderRow
<1>6. CASE ConfirmCharge(w)
  <2>1. pc[w] = "confirm" /\ orders[o].kind = "RENEWAL"
    BY <1>2, <1>6 DEF ConfirmCharge
  <2>2. CASE StillPending(a) /\ periods[o].state = "NONE"
    <3>1. /\ periods' = [periods EXCEPT ![o] = Grant(a)] /\ WriteOrder(w, o, Settle(a))
          /\ WriteSub(w, PaidUntil(Seen(w), a.end))
      BY <1>6, <2>2 DEF ConfirmCharge
    <3>2. orders' = [orders EXCEPT ![o] = Settle(a)]
      BY <1>4, <2>2, <3>1 DEF WriteOrder, StillPending
    <3> QED
      BY <1>9, <2>1, <2>2, <3>1, <3>2 DEF SettlesRenewal, StillPending, Verdict
  <2>3. CASE ~(StillPending(a) /\ periods[o].state = "NONE")
    BY <1>6, <2>3 DEF ConfirmCharge, Quiet, SubChanges, dbVars
  <2> QED
    BY <2>2, <2>3
<1>7. CASE ConfirmUpgrade(w)
  <2>1. pc[w] = "confirm" /\ orders[o].kind = "UPGRADE"
    BY <1>2, <1>5, <1>7 DEF ConfirmUpgrade
  <2> DEFINE raises == /\ StillPending(a) /\ ActivePeriods # {}
                       /\ PeriodEnd(ActivePeriod) = a.end
                       /\ a.tier > SeenTier(w, ActivePeriod)
  <2>2. CASE raises
    <3>1. /\ periods' = [periods EXCEPT ![ActivePeriod] = Raise(@, a.tier)]
          /\ WriteOrder(w, o, Settle(a)) /\ WriteSub(w, SelectPlan(Seen(w), a.tier))
      BY <1>7, <2>2 DEF ConfirmUpgrade
    <3>2. orders' = [orders EXCEPT ![o] = Settle(a)]
      BY <1>4, <2>2, <3>1 DEF WriteOrder, StillPending
    <3> QED
      BY <1>9, <2>1, <2>2, <3>1, <3>2 DEF SettlesUpgrade, StillPending, Verdict
  <2>3. CASE ~raises
    BY <1>7, <2>3 DEF ConfirmUpgrade, Quiet, SubChanges, dbVars
  <2> QED
    BY <2>2, <2>3
<1>8. CASE DeclineCharge(w) \/ DeclineUpgrade(w)
  <2>1. pc[w] = "decline" /\ UNCHANGED periods
    BY <1>8 DEF DeclineCharge, DeclineUpgrade
  <2>2. CASE StillPending(a)
    <3>1. WriteOrder(w, o, Fail(a)) /\ (sub' = sub \/ WriteSub(w, StopRenewal(Seen(w))))
      BY <1>8, <2>2 DEF DeclineCharge, DeclineUpgrade
    <3>2. orders' = [orders EXCEPT ![o] = Fail(a)]
      BY <1>4, <2>2, <3>1 DEF WriteOrder, StillPending
    <3> QED
      BY <1>9, <2>1, <2>2, <3>1, <3>2 DEF Fails, StillPending, Verdict
  <2>3. CASE ~StillPending(a)
    BY <1>8, <2>1, <2>3 DEF DeclineCharge, DeclineUpgrade, WriteOrder, Quiet, SubChanges
  <2> QED
    BY <2>2, <2>3
<1> QED
  BY <1>6, <1>7, <1>8

(* Every step is one of these. *)
LEMMA StepWrites ==
  ASSUME IInv, [Next]_vars
  PROVE  Quiet \/ (\E row \in OrderRow : Places(row)) \/ (\E w \in Workers : Verdict(w))
<1>1. ASSUME NEW w \in Workers, Charging(w)
      PROVE  Quiet \/ (\E row \in OrderRow : Places(row)) \/ Verdict(w)
  <2>1. CASE \/ LookupMissing(w) \/ LookupPaid(w) \/ LookupUnsettled(w)
             \/ SendCharge(w) \/ Approved(w) \/ Declined(w)
    BY <2>1 DEF LookupMissing, LookupPaid, LookupUnsettled, SendCharge, Approved, Declined,
                Quiet, SubChanges, dbVars
  <2> QED
    BY <1>1, <2>1, PreparingPlaces, VerdictsWrite DEF Charging
<1>2. ASSUME NEW w \in Workers, Upgrading(w)
      PROVE  Quiet \/ (\E row \in OrderRow : Places(row)) \/ Verdict(w)
  BY <1>2, UpgradingPlaces, VerdictsWrite DEF Upgrading
<1>3. ASSUME NEW w \in Workers, ChargeDue(w) \/ Abandon(w) PROVE Quiet
  BY <1>3 DEF ChargeDue, Abandon, Quiet, SubChanges, dbVars
<1>4. CASE Provider \/ Tick
  BY <1>4 DEF Provider, ProviderSettles, ProviderDrops, Tick, Quiet, SubChanges, dbVars
<1>5. CASE UNCHANGED vars
  BY <1>5 DEF vars, dbVars, Quiet, SubChanges
<1> QED
  BY <1>1, <1>2, <1>3, <1>4, <1>5, RequestsAreQuiet DEF Next

----------------------------------------------------------------------------
(* The row of the subscription exists for good. *)
LEMMA SubStays ==
  ASSUME IInv, [Next]_vars, sub.exists
  PROVE  sub'.exists
<1>0. sub \in SubRow /\ \A w \in Workers : Seen(w) \in SubRow /\ Seen(w).exists
  BY SeenRows DEF IInv, TypeOK, Seen
<1>1. CASE Quiet
  <2>1. StopRenewal(sub).exists /\ Resume(sub).exists
    BY <1>0 DEF SubRow, StopRenewal, Resume
  <2>2. \A w \in Workers : RegisterKey(Seen(w)).exists
    BY <1>0 DEF SubRow, RegisterKey
  <2>3. \A w \in Workers : SelectPlan(Seen(w), job[w].tier).exists
    BY <1>0 DEF SubRow, SelectPlan
  <2> QED
    BY <1>0, <1>1, <2>1, <2>2, <2>3 DEF Quiet, SubChanges
<1>2. CASE \E row \in OrderRow : Places(row)
  BY <1>0, <1>2 DEF Places
<1>3. ASSUME NEW w \in Workers, Verdict(w) PROVE sub'.exists
  <2>1. \A e : PaidUntil(Seen(w), e).exists
    BY <1>0 DEF SubRow, PaidUntil
  <2>2. \A t : SelectPlan(Seen(w), t).exists
    BY <1>0 DEF SubRow, SelectPlan
  <2>3. StopRenewal(Seen(w)).exists
    BY <1>0 DEF SubRow, StopRenewal
  <2> QED
    BY <1>0, <1>3, <2>1, <2>2, <2>3
    DEF Verdict, SettlesRenewal, SettlesUpgrade, Fails, WriteSub
<1> QED
  BY <1>1, <1>2, <1>3, StepWrites

LEMMA NothingCached ==
  NoCache.order.status = "NONE" /\ ~NoCache.sub.exists
BY DEF NoCache, NoOrder, NoSub

LEMMA OneMoves ==
  ASSUME TypeOK, FreshCopies, Posts, sub.exists => sub'.exists,
         NEW w \in Workers, NEW l, NEW c, l \in {"issue", "charge"} => sub.exists,
         pc' = [pc EXCEPT ![w] = l], cache' = [cache EXCEPT ![w] = c],
         ~OpenInView => c.order.status = "NONE" /\ (c.sub.exists => l = "setup"),
         l = "issue" => w \in Web, c.sub.exists => w \in Web
  PROVE  FreshCopies' /\ Posts'
<1>1. /\ pc'[w] = l /\ cache'[w] = c
      /\ \A v \in Workers \ {w} : pc'[v] = pc[v] /\ cache'[v] = cache[v]
  BY DEF TypeOK
<1> QED
  BY <1>1 DEF FreshCopies, Posts

LEMMA OneFinishes ==
  ASSUME TypeOK, FreshCopies, Posts, sub.exists => sub'.exists,
         NEW w \in Workers, Finish(w)
  PROVE  FreshCopies' /\ Posts'
BY OneMoves, NothingCached DEF Finish, Goto

LEMMA OneHolds ==
  ASSUME TypeOK, FreshCopies, Posts, sub.exists => sub'.exists,
         NEW w \in Workers, NEW k, Hold(w, k),
         NEW l, NEW j, Goto(w, l, j), l # "setup", l = "issue" => w \in Web,
         l \in {"issue", "charge"} => sub.exists
  PROVE  FreshCopies' /\ Posts'
<1>1. PICK c : cache' = [cache EXCEPT ![w] = c] /\ (~(OpenInView /\ w \in Web) => c = NoCache)
  BY DEF Hold, OneSession
<1> QED
  BY <1>1, OneMoves, NothingCached DEF Goto

LEMMA OneRemembers ==
  ASSUME TypeOK, FreshCopies, Posts, sub.exists => sub'.exists,
         NEW w \in Workers, NEW s, NEW r, Remember(w, s, r),
         NEW l, NEW j, Goto(w, l, j), l # "setup", l = "issue" => w \in Web,
         l \in {"issue", "charge"} => sub.exists
  PROVE  FreshCopies' /\ Posts'
BY OneHolds DEF Remember

LEMMA OneGoesOn ==
  ASSUME TypeOK, FreshCopies, Posts, sub.exists => sub'.exists,
         NEW w \in Workers, cache' = cache,
         NEW l \in {"lookup", "send", "await", "confirm", "decline", "charge"}, NEW j,
         Goto(w, l, j), pc[w] # "setup", l = "charge" => sub.exists
  PROVE  FreshCopies' /\ Posts'
<1>1. cache' = [cache EXCEPT ![w] = cache[w]]
  BY DEF TypeOK
<1>2. ~OpenInView => cache[w].order.status = "NONE" /\ (cache[w].sub.exists => l = "setup")
  BY DEF FreshCopies
<1>3. cache[w].sub.exists => w \in Web
  BY DEF Posts
<1> QED
  BY <1>1, <1>2, <1>3, OneMoves DEF Goto

LEMMA CopiesStayFresh ==
  ASSUME IInv, FreshCopies, Posts, [Next]_vars
  PROVE  FreshCopies' /\ Posts'
<1>0. TypeOK /\ (sub.exists => sub'.exists)
  BY SubStays DEF IInv
<1>1. ASSUME NEW w \in Workers, Charging(w) PROVE FreshCopies' /\ Posts'
  <2>1. CASE \/ SkipCharge(w) \/ LookupUnsettled(w) \/ ConfirmCharge(w) \/ DeclineCharge(w)
    BY <2>1, <1>0, OneFinishes DEF SkipCharge, LookupUnsettled, ConfirmCharge, DeclineCharge
  <2>2. CASE PrepareRetry(w)
    BY <2>2, <1>0, OneRemembers DEF PrepareRetry
  <2>3. CASE PrepareNew(w)
    BY <2>3, <1>0, OneRemembers DEF PrepareNew, Place
  <2>4. CASE LookupMissing(w) \/ LookupPaid(w) \/ SendCharge(w) \/ Approved(w) \/ Declined(w)
    BY <2>4, <1>0, OneGoesOn DEF LookupMissing, LookupPaid, SendCharge, Approved, Declined
  <2> QED
    BY <1>1, <2>1, <2>2, <2>3, <2>4 DEF Charging
<1>2. ASSUME NEW w \in Workers, Upgrading(w) PROVE FreshCopies' /\ Posts'
  <2>1. ASSUME NEW t \in Tiers, UpgradeRetry(w, t) PROVE FreshCopies' /\ Posts'
    BY <2>1, <1>0, OneRemembers DEF UpgradeRetry
  <2>2. ASSUME NEW t \in Tiers, UpgradeNew(w, t) PROVE FreshCopies' /\ Posts'
    BY <2>2, <1>0, OneHolds DEF UpgradeNew
  <2>3. CASE ReconcileUpgrade(w)
    BY <2>3, <1>0, OneRemembers DEF ReconcileUpgrade
  <2>4. CASE ConfirmUpgrade(w) \/ DeclineUpgrade(w)
    BY <2>4, <1>0, OneFinishes DEF ConfirmUpgrade, DeclineUpgrade
  <2> QED
    BY <1>2, <2>1, <2>2, <2>3, <2>4 DEF Upgrading
<1>3. ASSUME NEW w \in Workers, Requesting(w) PROVE FreshCopies' /\ Posts'
  <2>1. CASE (\E t \in Tiers : FirstSetup(w, t)) \/ CancelRenewal(w)
    BY <1>0, <2>1 DEF FirstSetup, CancelRenewal, FreshCopies, Posts
  <2>2. ASSUME NEW t \in Tiers, SetupFind(w, t) PROVE FreshCopies' /\ Posts'
    <3> DEFINE c == [NoCache EXCEPT !.sub = sub]
    <3>1. c.order.status = "NONE"
      BY DEF NoCache, NoOrder
    <3>2. pc' = [pc EXCEPT ![w] = "setup"] /\ cache' = [cache EXCEPT ![w] = c]
      BY <2>2 DEF SetupFind, Goto
    <3> HIDE DEF c
    <3> QED
      BY <2>2, <3>1, <3>2, <1>0, OneMoves DEF SetupFind, Asks
  <2>3. CASE SetupLock(w)
    BY <2>3, <1>0, OneFinishes DEF SetupLock
  <2>4. CASE Complete(w)
    BY <2>4, <1>0, OneRemembers DEF Complete, Asks
  <2>5. CASE Register(w)
    BY <2>5, <1>0, OneRemembers DEF Register, Posts
  <2>6. CASE Retry(w)
    BY <2>6, <1>0, OneRemembers DEF Retry
  <2> QED
    BY <1>3, <2>1, <2>2, <2>3, <2>4, <2>5, <2>6 DEF Requesting
<1>4. ASSUME NEW w \in Workers, ChargeDue(w) PROVE FreshCopies' /\ Posts'
  BY <1>4, <1>0, OneGoesOn DEF ChargeDue, Due
<1>5. ASSUME NEW w \in Workers, Abandon(w) PROVE FreshCopies' /\ Posts'
  BY <1>5, <1>0, OneFinishes DEF Abandon
<1>6. CASE Provider \/ Tick
  BY <1>6 DEF Provider, ProviderSettles, ProviderDrops, Tick, dbVars, FreshCopies, Posts
<1>7. CASE UNCHANGED vars
  BY <1>7 DEF vars, dbVars, FreshCopies, Posts
<1> QED
  BY <1>1, <1>2, <1>3, <1>4, <1>5, <1>6, <1>7 DEF Next

(* The base that the following proofs stand on. *)
StepInv == IInv /\ FreshCopies /\ Posts

LEMMA InitStepInv == Init => StepInv
<1>1. Init => FreshCopies /\ Posts
  BY NothingCached DEF Init, FreshCopies, Posts
<1> QED
  BY <1>1, InitEstablishesIInv DEF StepInv

LEMMA NextStepInv == StepInv /\ [Next]_vars => StepInv'
BY NextPreservesIInv, CopiesStayFresh DEF StepInv, IInv

----------------------------------------------------------------------------
(* auto_renew comes back by the two requests that set it, or by one that    *)
(* writes back an old copy of the row.                                      *)
LEMMA RenewalRestarts ==
  ASSUME StepInv, [Next]_vars, sub.exists, ~sub.autoRenew, sub'.autoRenew
  PROVE  \E w \in Web : Restarts(w) \/ OldCopy(w)
<1>0. TypeOK /\ sub \in SubRow
  BY DEF StepInv, IInv, TypeOK
<1>1. SUFFICES ASSUME \A w \in Web : ~OldCopy(w)
               PROVE  \E w \in Web : Restarts(w)
  OBVIOUS
<1>2. \A w \in Workers : pc'[w] # pc[w] => Seen(w) = sub
  BY <1>1, SeesRow DEF OldCopy, CurrentSub, StepInv, Posts
<1>3. /\ ~StopRenewal(sub).autoRenew
      /\ \A e \in Nat : ~PaidUntil(sub, e).autoRenew
      /\ \A t \in Tiers \cup {0} : ~SelectPlan(sub, t).autoRenew
  BY <1>0 DEF SubRow, StopRenewal, PaidUntil, SelectPlan
<1>4. CASE Quiet
  <2>1. CASE \E w \in Workers : /\ pc[w] = "issue" /\ pc'[w] = "charge" /\ ~Seen(w).key
                                /\ sub' = RegisterKey(Seen(w))
    BY <1>2, <2>1 DEF Restarts, StepInv, Posts
  <2>2. CASE \E w \in Web : /\ pc[w] = "idle" /\ pc'[w] = "charge"
                            /\ sub.exists /\ sub' = Resume(sub)
    BY <2>2 DEF Restarts
  <2>3. CASE sub' = sub \/ sub' = StopRenewal(sub)
    BY <1>3, <2>3
  <2>4. CASE \E w \in Workers : /\ pc[w] = "setup" /\ pc'[w] = "idle"
                                /\ Seen(w).paidThrough <= now
                                /\ sub' = SelectPlan(Seen(w), job[w].tier)
    <3>1. \A w \in Workers : job[w].tier \in Tiers \cup {0}
      BY <1>0 DEF TypeOK, Job
    <3> QED
      BY <1>2, <1>3, <2>4, <3>1
  <2> QED
    BY <1>4, <2>1, <2>2, <2>3, <2>4 DEF Quiet, SubChanges
<1>5. CASE \E row \in OrderRow : Places(row)
  BY <1>5 DEF Places
<1>6. ASSUME NEW w \in Workers, Verdict(w) PROVE FALSE
  <2>1. pc[w] \in OrderLabels /\ pc'[w] # pc[w]
    BY <1>6 DEF Verdict, SettlesRenewal, SettlesUpgrade, Fails, OrderLabels
  <2>2. SeenOrder(w, job[w].order) \in OrderRow
    BY <2>1, OrderInHand DEF StepInv
  <2>3. /\ SeenOrder(w, job[w].order).end \in Nat
        /\ SeenOrder(w, job[w].order).tier \in Tiers \cup {0}
    BY <2>2 DEF OrderRow
  <2> QED
    BY <1>2, <1>3, <1>6, <2>1, <2>3 DEF Verdict, SettlesRenewal, SettlesUpgrade, Fails, WriteSub
<1> QED
  BY <1>4, <1>5, <1>6, StepWrites DEF StepInv

(* Who can start a stopped renewal again, in any configuration: a request   *)
(* that registers a card or retries, or a web request under way that has    *)
(* the row from before the cancellation in its session (setup, or a charge  *)
(* or upgrade with a session per request).  Never the scheduler, whatever   *)
(* it is doing when the member cancels.  And where no transaction writes by *)
(* an old copy of the row, only the requests that mean it.                  *)
THEOREM CancelIsKept ==
  /\ Spec => [][sub.exists /\ ~sub.autoRenew /\ sub'.autoRenew
                  => \E w \in Web : Restarts(w) \/ OldCopy(w)]_vars
  /\ Spec /\ [][SubIsCurrent]_vars => CancelSticks
<1> DEFINE Starts == sub.exists /\ ~sub.autoRenew /\ sub'.autoRenew
           Known == Starts => \E w \in Web : Restarts(w) \/ OldCopy(w)
           Kept == Starts => \E w \in Web : Restarts(w)
<1>1. StepInv /\ [Next]_vars => [Known]_vars
  BY RenewalRestarts
<1>2. Known /\ SubIsCurrent => Kept
  BY DEF SubIsCurrent, OldCopy, CurrentSub, dbVars, Workers
<1>3. [Known]_vars /\ [SubIsCurrent]_vars => [Kept]_vars
  BY <1>2
<1>4. Init => StepInv
  BY InitStepInv
<1>5. StepInv /\ [Next]_vars => StepInv'
  BY NextStepInv
<1>6. Spec => [][Known]_vars
  BY <1>1, <1>4, <1>5, PTL DEF Spec
<1>7. Spec /\ [][SubIsCurrent]_vars => [][Kept]_vars
  BY <1>3, <1>6, PTL
<1> QED
  BY <1>6, <1>7 DEF CancelSticks

----------------------------------------------------------------------------
(* A settled order is not settled again: the writer sees it is no longer    *)
(* PENDING, or the provider has only one verdict to give.                   *)
LEMMA VerdictsStay ==
  ASSUME OrdersAreCurrent \/ ~LateDeclines, StepInv, [Next]_vars, NEW o \in OrderId,
         orders[o].status \in {"FAILED", "DONE"}
  PROVE  orders'[o].status = orders[o].status
<1>0. TypeOK /\ orders \in [OrderId -> OrderRow]
  BY DEF StepInv, IInv, TypeOK
<1>1. CASE Quiet
  BY <1>1 DEF Quiet
<1>2. ASSUME NEW row \in OrderRow, Places(row)
      PROVE  orders'[o].status = orders[o].status
  <2>1. NextOrder \in OrderId /\ orders[NextOrder].status = "NONE"
    BY <1>2, NextOrderIsFree DEF Places, StepInv, IInv, Rows
  <2>2. NextOrder # o
    BY <2>1
  <2> QED
    BY <1>0, <1>2, <2>1, <2>2 DEF Places
<1>3. ASSUME NEW w \in Workers, Verdict(w)
      PROVE  orders'[o].status = orders[o].status
  <2> DEFINE p == job[w].order
             a == SeenOrder(w, p)
  <2>1. pc[w] \in OrderLabels
    BY <1>3 DEF Verdict, SettlesRenewal, SettlesUpgrade, Fails, OrderLabels
  <2>2. p \in OrderId /\ a \in OrderRow
    BY <2>1, OrderInHand DEF StepInv
  <2>3. a.status = "PENDING"
    BY <1>3 DEF Verdict, SettlesRenewal, SettlesUpgrade, Fails
  <2>4. \/ pc[w] = "confirm" /\ orders' = [orders EXCEPT ![p] = Settle(a)]
        \/ pc[w] = "decline" /\ orders' = [orders EXCEPT ![p] = Fail(a)]
    BY <1>3 DEF Verdict, SettlesRenewal, SettlesUpgrade, Fails
  <2>5. Settle(a).status = "DONE" /\ Fail(a).status = "FAILED"
    BY <2>2, OrderMethods
  <2> HIDE DEF a
  <2>6. CASE p # o
    BY <1>0, <2>2, <2>4, <2>6
  <2>7. CASE p = o
    <3>1. CASE OrdersAreCurrent
      <4>1. CASE dbVars' = dbVars
        BY <4>1 DEF dbVars
      <4>2. CASE CurrentOrder(w)
        <5>1. a = orders[o]
          BY <2>7, <4>2, SeesRow DEF a
        <5> QED
          BY <2>3, <5>1
      <4>3. pc'[w] # pc[w]
        BY <1>3 DEF Verdict, SettlesRenewal, SettlesUpgrade, Fails
      <4> QED
        BY <3>1, <4>1, <4>2, <4>3 DEF OrdersAreCurrent
    <3>2. CASE ~LateDeclines
      <4>1. /\ pc[w] = "confirm" => ledger[o] \in {"DONE", "CANCELED"}
            /\ pc[w] = "decline" => ledger[o] = "DECLINED"
        BY <2>7, <3>2 DEF StepInv, IInv, Threads, ThreadOk
      <4>2. /\ orders[o].status = "DONE" => ledger[o] \in {"DONE", "CANCELED"}
            /\ orders[o].status = "FAILED" => ledger[o] = "DECLINED"
        BY <3>2 DEF StepInv, IInv, Rows, DoneIsPaid, Settlement, FailedIsDeclined
      <4>3. orders'[o].status = IF pc[w] = "confirm" THEN "DONE" ELSE "FAILED"
        BY <1>0, <2>2, <2>4, <2>5, <2>7
      <4> QED
        BY <2>4, <4>1, <4>2, <4>3
    <3> QED
      BY <3>1, <3>2
  <2> QED
    BY <2>6, <2>7
<1> QED
  BY <1>1, <1>2, <1>3, StepWrites DEF StepInv

(* The verdict on an order stands, however late another thread's answer is: *)
(* with a session per transaction because the writer reads the status it is *)
(* about to replace, and with one session per request if the provider never *)
(* declines an order it has already taken the money for.                    *)
THEOREM VerdictsAreFinal ==
  ~OpenInView \/ ~LateDeclines => (Spec => SettledIsFinal)
<1> SUFFICES ASSUME ~OpenInView \/ ~LateDeclines PROVE Spec => SettledIsFinal
  OBVIOUS
<1> DEFINE Final ==
      \A o \in OrderId :
        /\ orders[o].status = "FAILED" => orders'[o].status = "FAILED"
        /\ orders[o].status = "DONE" =>
             \/ orders'[o].status = "DONE"
             \/ orders'[o].status = "CANCELED" /\ orders[o].refund = "PENDING"
<1>1. StepInv /\ [Next]_vars => [Final]_vars
  BY VerdictsStay, FreshOrders DEF StepInv
<1>2. Init => StepInv
  BY InitStepInv
<1>3. StepInv /\ [Next]_vars => StepInv'
  BY NextStepInv
<1> QED
  BY <1>1, <1>2, <1>3, PTL DEF Spec, SettledIsFinal

----------------------------------------------------------------------------
(* Only orders that exist are sent to the provider, or answered by it.      *)
SentArePlaced ==
  \A o \in OrderId : o \in inflight \/ ledger[o] # "NONE" => orders[o].status # "NONE"

(* No row that exists goes away. *)
LEMMA PlacedStay ==
  ASSUME IInv, [Next]_vars, NEW o \in OrderId, orders[o].status # "NONE"
  PROVE  orders'[o].status # "NONE"
<1>0. orders \in [OrderId -> OrderRow]
  BY DEF IInv, TypeOK
<1>1. CASE Quiet
  BY <1>1 DEF Quiet
<1>2. ASSUME NEW row \in OrderRow, Places(row) PROVE orders'[o].status # "NONE"
  <2>1. NextOrder \in OrderId
    BY <1>2, NextOrderIsFree DEF Places, IInv, Rows
  <2> QED
    BY <1>0, <1>2, <2>1 DEF Places
<1>3. ASSUME NEW w \in Workers, Verdict(w) PROVE orders'[o].status # "NONE"
  <2> DEFINE p == job[w].order
             a == SeenOrder(w, p)
  <2>1. pc[w] \in OrderLabels
    BY <1>3 DEF Verdict, SettlesRenewal, SettlesUpgrade, Fails, OrderLabels
  <2>2. p \in OrderId /\ a \in OrderRow
    BY <2>1, OrderInHand
  <2>3. Settle(a).status = "DONE" /\ Fail(a).status = "FAILED"
    BY <2>2, OrderMethods
  <2>4. orders' = [orders EXCEPT ![p] = Settle(a)] \/ orders' = [orders EXCEPT ![p] = Fail(a)]
    BY <1>3 DEF Verdict, SettlesRenewal, SettlesUpgrade, Fails
  <2> HIDE DEF a, p
  <2> QED
    BY <1>0, <2>2, <2>3, <2>4
<1> QED
  BY <1>1, <1>2, <1>3, StepWrites

LEMMA SentStayPlaced ==
  ASSUME IInv, SentArePlaced, [Next]_vars
  PROVE  SentArePlaced'
<1>1. ASSUME NEW o \in OrderId,
             o \in inflight' \/ ledger'[o] # "NONE"
      PROVE  orders[o].status # "NONE"
  <2>1. CASE UNCHANGED <<inflight, ledger>>
    BY <1>1, <2>1 DEF SentArePlaced
  <2>2. ASSUME NEW w \in Workers, SendCharge(w) PROVE orders[o].status # "NONE"
    <3>1. orders[job[w].order].status # "NONE"
      BY <2>2, OrderInHand DEF SendCharge, OrderLabels
    <3> QED
      BY <1>1, <2>2, <3>1 DEF SendCharge, SentArePlaced
  <2>3. ASSUME NEW p \in OrderId, ProviderSettles(p) \/ ProviderDrops(p)
        PROVE  orders[o].status # "NONE"
    <3>1. ledger'[o] # "NONE" => ledger[o] # "NONE" \/ o \in inflight
      BY <2>3 DEF ProviderSettles, ProviderDrops, IInv, TypeOK
    <3>2. o \in inflight' => o \in inflight
      BY <2>3 DEF ProviderSettles, ProviderDrops
    <3> QED
      BY <1>1, <3>1, <3>2 DEF SentArePlaced
  <2>4. ASSUME NEW w \in Workers, Charging(w), ~SendCharge(w)
        PROVE  UNCHANGED <<inflight, ledger>>
    BY <2>4 DEF Charging, SkipCharge, PrepareRetry, PrepareNew, LookupMissing, LookupPaid,
                LookupUnsettled, Approved, Declined, ConfirmCharge, DeclineCharge, providerVars
  <2>5. ASSUME NEW w \in Workers, Upgrading(w) PROVE UNCHANGED <<inflight, ledger>>
    BY <2>5 DEF Upgrading, UpgradeRetry, UpgradeNew, ReconcileUpgrade, ConfirmUpgrade,
                DeclineUpgrade, providerVars
  <2>6. ASSUME NEW w \in Workers, Requesting(w) \/ ChargeDue(w) \/ Abandon(w)
        PROVE  UNCHANGED <<inflight, ledger>>
    BY <2>6 DEF Requesting, FirstSetup, SetupFind, SetupLock, Complete, Register, Retry,
                CancelRenewal, ChargeDue, Abandon, providerVars
  <2>7. Tick \/ UNCHANGED vars => UNCHANGED <<inflight, ledger>>
    BY DEF Tick, vars, providerVars
  <2> QED
    BY <2>1, <2>2, <2>3, <2>4, <2>5, <2>6, <2>7 DEF Next, Provider
<1> QED
  BY <1>1, PlacedStay DEF SentArePlaced

----------------------------------------------------------------------------
(* Renewals that count: those that are paid or may yet be.                  *)
Live == {o \in OrderId : /\ orders[o].kind = "RENEWAL"
                         /\ orders[o].status \in {"PENDING", "DONE", "CANCELED"}}
Apart(o, p) == orders[o].end <= orders[p].start \/ orders[p].end <= orders[o].start

(* paid_through is the end of the last term paid for: every settled term    *)
(* lies before it, an open one begins after it, and no two terms overlap.   *)
TermsInOrder ==
  /\ ~sub.exists => sub.paidThrough = 0 /\ Placed = {}
  /\ \A o \in Live :
       /\ orders[o].start <= orders[o].end
       /\ IF orders[o].status = "PENDING" THEN sub.paidThrough <= orders[o].start
                                          ELSE orders[o].end <= sub.paidThrough
  /\ \A o, p \in Live : o # p => Apart(o, p)

TermsInv == StepInv /\ SentArePlaced /\ TermsInOrder

LEMMA InitTermsInv == Init => TermsInv
<1> SUFFICES ASSUME Init PROVE TermsInv
  OBVIOUS
<1>1. \A o \in OrderId : orders[o].status = "NONE" /\ ledger[o] = "NONE" /\ o \notin inflight
  BY DEF Init, NoOrder
<1>2. Placed = {} /\ Live = {}
  BY <1>1 DEF Placed, Live
<1>3. sub.paidThrough = 0
  BY DEF Init, NoSub
<1> QED
  BY <1>1, <1>2, <1>3, InitStepInv DEF TermsInv, SentArePlaced, TermsInOrder

(* Choosing a plan keeps paid_through, whatever plan that is.               *)
LEMMA SetupKeepsPaidThrough ==
  ASSUME NEW s \in SubRow, NEW t
  PROVE  SelectPlan(s, t).paidThrough = s.paidThrough
BY DEF SubRow, SelectPlan

(* Requests of the member do not move paid_through. *)
LEMMA QuietKeepsPaidThrough ==
  ASSUME SubIsCurrent, TypeOK, ~sub.exists => sub.paidThrough = 0, Quiet
  PROVE  sub'.paidThrough = sub.paidThrough
<1>1. sub \in SubRow /\ \A w \in Workers : sub' # sub /\ pc'[w] # pc[w] => Seen(w) = sub
  BY WriterSees DEF TypeOK, dbVars
<1>2. /\ StopRenewal(sub).paidThrough = sub.paidThrough
      /\ RegisterKey(sub).paidThrough = sub.paidThrough
      /\ Resume(sub).paidThrough = sub.paidThrough
  BY <1>1 DEF SubRow, StopRenewal, RegisterKey, Resume
<1> QED
  BY <1>1, <1>2, SetupKeepsPaidThrough DEF Quiet, SubChanges

LEMMA QuietKeepsTerms ==
  ASSUME SubIsCurrent, TermsInv, [Next]_vars, Quiet
  PROVE  TermsInOrder'
<1>1. sub'.paidThrough = sub.paidThrough
  BY QuietKeepsPaidThrough DEF TermsInv, TermsInOrder, StepInv, IInv
<1>2. sub.exists => sub'.exists
  BY SubStays DEF TermsInv, StepInv
<1>3. UNCHANGED orders
  BY DEF Quiet
<1> QED
  BY <1>1, <1>2, <1>3 DEF TermsInv, TermsInOrder, Live, Apart, Placed

(* A new term begins where all paid ones have ended, and none is open.      *)
LEMMA PlacingKeepsTerms ==
  ASSUME SubIsCurrent, TermsInv, NEW row \in OrderRow, Places(row)
  PROVE  TermsInOrder'
<1> DEFINE n == NextOrder
<1>0. orders \in [OrderId -> OrderRow]
  BY DEF TermsInv, StepInv, IInv, TypeOK
<1>1. n \in OrderId /\ orders[n].status = "NONE"
  BY NextOrderIsFree DEF TermsInv, StepInv, IInv, Rows, Places
<1>2. /\ Pending = {} /\ row.status = "PENDING" /\ sub' = sub
      /\ orders' = [orders EXCEPT ![n] = row]
  BY DEF Places
<1>3. /\ sub.exists
      /\ row.kind = "RENEWAL" => sub.paidThrough <= row.start /\ row.start <= row.end
  <2>1. CASE row.kind = "UPGRADE" /\ sub.exists
    BY <2>1
  <2>2. ASSUME NEW w \in Workers, pc[w] = "charge", pc'[w] = "send",
               Seen(w).paidThrough <= row.start, row.start <= row.end
        PROVE  sub.exists /\ sub.paidThrough <= row.start /\ row.start <= row.end
    <3>1. orders' # orders
      BY <1>0, <1>1, <1>2
    <3> QED
      BY <2>2, <3>1, WriterSees DEF TermsInv, StepInv, Posts, dbVars
  <2> QED
    BY <2>1, <2>2 DEF Places
<1> HIDE DEF n
<1>4. orders'[n] = row /\ \A o \in OrderId \ {n} : orders'[o] = orders[o]
  BY <1>0, <1>1, <1>2
<1>5. n \notin Live /\ \A o \in Live' : o # n => o \in Live
  BY <1>1, <1>4 DEF Live
<1>6. \A o \in Live : orders[o].end <= sub.paidThrough /\ orders[o].start <= orders[o].end
  BY <1>2 DEF TermsInv, TermsInOrder, Live, Pending
<1>7. n \in Live' => row.kind = "RENEWAL"
  BY <1>4 DEF Live
<1>8. \A o \in OrderId : /\ orders[o].start \in Nat /\ orders[o].end \in Nat
                         /\ row.start \in Nat /\ row.end \in Nat
  BY <1>0 DEF OrderRow
<1>9. sub.paidThrough \in Nat
  BY DEF TermsInv, StepInv, IInv, TypeOK, SubRow
<1>10. \A o \in Live' : /\ orders'[o].start <= orders'[o].end
                        /\ IF orders'[o].status = "PENDING"
                           THEN sub'.paidThrough <= orders'[o].start
                           ELSE orders'[o].end <= sub'.paidThrough
  <2> TAKE o \in Live'
  <2>1. CASE o = n
    BY <1>2, <1>3, <1>4, <1>7, <2>1
  <2>2. CASE o # n
    <3>1. o \in Live /\ orders'[o] = orders[o] /\ orders[o].status # "PENDING"
      BY <1>2, <1>4, <1>5, <2>2 DEF Live, Pending
    <3> QED
      BY <1>2, <1>6, <3>1
  <2> QED
    BY <2>1, <2>2
<1>11. \A o, p \in Live' : o # p => Apart(o, p)'
  <2>1. \A o \in Live' : o # n => o \in Live /\ o \in OrderId /\ orders'[o] = orders[o]
    BY <1>4, <1>5 DEF Live
  <2>2. \A o \in Live' : o # n /\ n \in Live' => orders'[o].end <= orders'[n].start
    <3> SUFFICES ASSUME NEW o \in Live', o # n, n \in Live'
                 PROVE  orders'[o].end <= orders'[n].start
      OBVIOUS
    <3>1. orders[o].end <= sub.paidThrough /\ sub.paidThrough <= row.start
      BY <1>3, <1>6, <1>7, <2>1
    <3> QED
      BY <1>4, <1>8, <1>9, <2>1, <3>1
  <2>3. \A o, p \in Live : o # p => Apart(o, p)
    BY DEF TermsInv, TermsInOrder
  <2> QED
    BY <2>1, <2>2, <2>3 DEF Apart
<1> QED
  BY <1>2, <1>3, <1>10, <1>11 DEF TermsInOrder

(* Settling the open renewal moves paid_through to its end: all others are  *)
(* settled, and end before it began.                                        *)
LEMMA VerdictKeepsTerms ==
  ASSUME OrdersAreCurrent, SubIsCurrent, TermsInv, [Next]_vars, dbVars' # dbVars,
         NEW w \in Workers, Verdict(w)
  PROVE  TermsInOrder'
<1> DEFINE o == job[w].order
           a == orders[o]
<1>0. orders \in [OrderId -> OrderRow] /\ sub \in SubRow
  BY DEF TermsInv, StepInv, IInv, TypeOK
<1>1. pc[w] \in OrderLabels /\ pc'[w] # pc[w]
  BY DEF Verdict, SettlesRenewal, SettlesUpgrade, Fails, OrderLabels
<1>2. o \in OrderId
  BY <1>1, OrderInHand DEF TermsInv, StepInv
<1>3. SeenOrder(w, o) = a /\ Seen(w) = sub
  BY <1>1, WriterSees
<1>4. SettlesRenewal(w, o, a) \/ SettlesUpgrade(w, o, a) \/ Fails(w, o, a)
  BY <1>3 DEF Verdict
<1>5. a \in OrderRow /\ a.status = "PENDING"
  BY <1>0, <1>2, <1>4 DEF SettlesRenewal, SettlesUpgrade, Fails
<1> HIDE DEF o
<1>6. PICK b \in OrderRow :
        /\ orders' = [orders EXCEPT ![o] = b]
        /\ b.start = a.start /\ b.end = a.end /\ b.kind = a.kind
        /\ b.status \in {"DONE", "FAILED"}
        /\ b.status = "DONE" => a.kind = "UPGRADE" \/ sub'.paidThrough = a.end
        /\ ~(b.status = "DONE" /\ a.kind = "RENEWAL") => sub'.paidThrough = sub.paidThrough
  <2>1. /\ Settle(a) \in OrderRow /\ Settle(a).status = "DONE" /\ Settle(a).kind = a.kind
        /\ Fail(a) \in OrderRow /\ Fail(a).status = "FAILED" /\ Fail(a).kind = a.kind
        /\ Settle(a).start = a.start /\ Settle(a).end = a.end
        /\ Fail(a).start = a.start /\ Fail(a).end = a.end
    BY <1>5, OrderMethods, OrderColumns
  <2>2. CASE SettlesRenewal(w, o, a)
    <3>1. PaidUntil(sub, a.end).paidThrough = a.end
      BY <1>0 DEF SubRow, PaidUntil
    <3>2. sub'.paidThrough = a.end
      BY <1>3, <2>2, <3>1 DEF SettlesRenewal, WriteSub
    <3> QED
      BY <2>1, <2>2, <3>2 DEF SettlesRenewal
  <2>3. CASE SettlesUpgrade(w, o, a)
    <3>1. SelectPlan(sub, a.tier).paidThrough = sub.paidThrough
      BY <1>0 DEF SubRow, SelectPlan
    <3>2. sub'.paidThrough = sub.paidThrough
      BY <1>3, <2>3, <3>1 DEF SettlesUpgrade, WriteSub
    <3> QED
      BY <2>1, <2>3, <3>2 DEF SettlesUpgrade
  <2>4. CASE Fails(w, o, a)
    <3>1. StopRenewal(sub).paidThrough = sub.paidThrough
      BY <1>0 DEF SubRow, StopRenewal
    <3>2. sub'.paidThrough = sub.paidThrough
      BY <1>3, <2>4, <3>1 DEF Fails, WriteSub
    <3> QED
      BY <2>1, <2>4, <3>2 DEF Fails
  <2> QED
    BY <1>4, <2>2, <2>3, <2>4
<1>7. orders'[o] = b /\ \A p \in OrderId \ {o} : orders'[p] = orders[p]
  BY <1>0, <1>2, <1>6
<1>8. /\ \A p \in OrderId : orders'[p].start = orders[p].start /\ orders'[p].end = orders[p].end
      /\ Live' \subseteq Live
      /\ o \in Live' => b.status = "DONE" /\ a.kind = "RENEWAL"
  BY <1>2, <1>5, <1>6, <1>7 DEF Live
<1>9. \A p \in Live : p # o => orders[p].status # "PENDING"
  BY <1>2, <1>5 DEF TermsInv, StepInv, IInv, Rows, SinglePending, Pending, Live
<1>10. \A p \in Live :
         /\ orders[p].start <= orders[p].end
         /\ p # o => orders[p].end <= sub.paidThrough
         /\ p = o => sub.paidThrough <= orders[p].start
  BY <1>5, <1>9 DEF TermsInv, TermsInOrder
<1>11. /\ sub.paidThrough \in Nat
       /\ \A p \in OrderId : orders[p].start \in Nat /\ orders[p].end \in Nat
  BY <1>0 DEF SubRow, OrderRow
<1>12. \A p \in Live' :
         /\ orders'[p].start <= orders'[p].end
         /\ IF orders'[p].status = "PENDING" THEN sub'.paidThrough <= orders'[p].start
                                             ELSE orders'[p].end <= sub'.paidThrough
  <2> SUFFICES ASSUME NEW p \in Live'
               PROVE  /\ orders'[p].start <= orders'[p].end
                      /\ IF orders'[p].status = "PENDING"
                         THEN sub'.paidThrough <= orders'[p].start
                         ELSE orders'[p].end <= sub'.paidThrough
    OBVIOUS
  <2>1. p \in Live /\ p \in OrderId
    BY <1>8 DEF Live
  <2>2. CASE p = o
    <3>1. b.status = "DONE" /\ sub'.paidThrough = a.end
      BY <1>6, <1>8, <2>2
    <3> QED
      BY <1>6, <1>7, <1>10, <1>11, <2>1, <2>2, <3>1
  <2>3. CASE p # o /\ sub'.paidThrough = sub.paidThrough
    BY <1>7, <1>9, <1>10, <2>1, <2>3
  <2>4. CASE p # o /\ sub'.paidThrough # sub.paidThrough
    <3>1. a.kind = "RENEWAL" /\ sub'.paidThrough = a.end /\ o \in Live
      BY <1>2, <1>5, <1>6, <2>4 DEF Live
    <3>2. orders[p].end <= sub.paidThrough /\ sub.paidThrough <= a.start /\ a.start <= a.end
      BY <1>10, <2>1, <2>4, <3>1
    <3>3. orders[p].end <= a.end
      BY <1>2, <1>11, <2>1, <3>2
    <3> QED
      BY <1>7, <1>9, <1>10, <2>1, <2>4, <3>1, <3>3
  <2> QED
    BY <2>2, <2>3, <2>4
<1>13. \A p, q \in Live' : p # q => Apart(p, q)'
  BY <1>8 DEF TermsInv, TermsInOrder, Apart, Live
<1>14. ~sub'.exists => FALSE
  <2>1. o \in Placed
    BY <1>2, <1>5 DEF Placed
  <2>2. sub.exists
    BY <2>1 DEF TermsInv, TermsInOrder
  <2> QED
    BY <2>2, SubStays DEF TermsInv, StepInv
<1> QED
  BY <1>12, <1>13, <1>14 DEF TermsInOrder

(* The provider takes money for no two renewals whose terms overlap, in any *)
(* configuration in which each transaction writes by current copies: the    *)
(* next term is ordered only when no order is open and the last paid term   *)
(* is over.  So when a member of the deployed service is charged twice for  *)
(* a term, a transaction has put back an old paid_through or an old status; *)
(* lost calls, retries, polls and doubled requests alone never do it.       *)
THEOREM NoTermIsPaidTwice ==
  Spec /\ [][OrdersAreCurrent /\ SubIsCurrent]_vars => []TermsPaidOnce
<1> DEFINE Current == OrdersAreCurrent /\ SubIsCurrent
<1>1. TermsInv /\ [Next]_vars /\ [Current]_vars => TermsInv'
  <2> SUFFICES ASSUME TermsInv, [Next]_vars, [Current]_vars PROVE TermsInv'
    OBVIOUS
  <2>1. StepInv' /\ SentArePlaced'
    BY NextStepInv, SentStayPlaced DEF TermsInv, StepInv
  <2>2. CASE UNCHANGED dbVars
    BY <2>1, <2>2 DEF dbVars, TermsInv, TermsInOrder, Live, Apart, Placed
  <2>3. CASE ~UNCHANGED dbVars
    <3>1. OrdersAreCurrent /\ SubIsCurrent
      BY <2>3 DEF vars
    <3>2. TermsInOrder'
      BY <2>3, <3>1, StepWrites, QuietKeepsTerms, PlacingKeepsTerms, VerdictKeepsTerms
      DEF TermsInv, StepInv
    <3> QED
      BY <2>1, <3>2 DEF TermsInv
  <2> QED
    BY <2>2, <2>3
<1>2. TermsInv => TermsPaidOnce
  <2> SUFFICES ASSUME TermsInv PROVE PaidTerms \subseteq Live
    BY DEF TermsInv, TermsInOrder, TermsPaidOnce, Apart
  <2>1. \A o \in OrderId : orders[o].status \in {"NONE", "PENDING", "DONE", "FAILED", "CANCELED"}
    BY DEF TermsInv, StepInv, IInv, TypeOK, OrderRow
  <2> QED
    BY <2>1 DEF TermsInv, SentArePlaced, PaidTerms, Live
<1> QED
  BY InitTermsInv, <1>1, <1>2, PTL DEF Spec

----------------------------------------------------------------------------
(* The promise of PaidOrders. *)

(* A card decline is recorded of an order the provider has spoken of.       *)
DeclinesAreHeard ==
  /\ \A w \in Workers : pc[w] = "decline" => ledger[job[w].order] # "NONE"
  /\ \A o \in OrderId : orders[o].status = "FAILED" => ledger[o] # "NONE"

(* An order is open only while its money has not been given back.           *)
OpenIsKept == \A o \in OrderId : orders[o].status = "PENDING" => ledger[o] # "CANCELED"

(* While nobody refunds, nothing is given back.                             *)
NothingBack == \A o \in OrderId : ledger[o] # "CANCELED" /\ orders[o].status # "CANCELED"

(* What the promise is about, in the rows. *)
Statuses == [o \in OrderId |-> orders[o].status]
Renewals == {o \in Placed : orders[o].kind = "RENEWAL"}
Terms == {o \in OrderId : periods[o].state = "GRANTED"}
promised == <<Statuses, ledger, Renewals, Terms>>

(* The steps of the promise, by names of this module's own.                 *)
Placing(o) == Promise!Place(o)
Answering(o) == Promise!Answer(o)
Settling(o) == Promise!Settle(o)
Failing(o) == Promise!Fail(o)

(* The ledger moves when the provider settles a call, and only then.        *)
LEMMA LedgerMoves ==
  ASSUME [Next]_vars
  PROVE  UNCHANGED ledger \/ \E o \in OrderId : ProviderSettles(o)
<1>1. ASSUME NEW w \in Workers, Charging(w) PROVE UNCHANGED ledger
  BY <1>1 DEF Charging, SkipCharge, PrepareRetry, PrepareNew, LookupMissing, LookupPaid,
              LookupUnsettled, SendCharge, Approved, Declined, ConfirmCharge, DeclineCharge,
              providerVars
<1>2. ASSUME NEW w \in Workers, Upgrading(w) PROVE UNCHANGED ledger
  BY <1>2 DEF Upgrading, UpgradeRetry, UpgradeNew, ReconcileUpgrade, ConfirmUpgrade,
              DeclineUpgrade, providerVars
<1>3. ASSUME NEW w \in Workers, Requesting(w) \/ ChargeDue(w) \/ Abandon(w)
      PROVE  UNCHANGED ledger
  BY <1>3 DEF Requesting, FirstSetup, SetupFind, SetupLock, Complete, Register, Retry,
              CancelRenewal, ChargeDue, Abandon, providerVars
<1>4. Tick \/ UNCHANGED vars => UNCHANGED ledger
  BY DEF Tick, vars, providerVars
<1> QED
  BY <1>1, <1>2, <1>3, <1>4 DEF Next, Provider, ProviderDrops

(* A thread comes to the recording of a decline by hearing of one.          *)
LEMMA DeclinesAreToldOf ==
  ASSUME TypeOK, [Next]_vars, NEW v \in Workers, pc'[v] = "decline"
  PROVE  Declined(v) \/ (pc[v] = "decline" /\ job'[v] = job[v])
<1>0. pc \in [Workers -> Labels] /\ job \in [Workers -> Job]
  BY DEF TypeOK, Labels
<1> DEFINE Goal == Declined(v) \/ (pc[v] = "decline" /\ job'[v] = job[v])
<1>1. ASSUME NEW w \in Workers, NEW l, l # "decline", NEW j, Goto(w, l, j) PROVE Goal
  BY <1>0, <1>1 DEF Goto
<1>2. ASSUME NEW w \in Workers, Finish(w) PROVE Goal
  BY <1>2, <1>1 DEF Finish
<1>3. ASSUME UNCHANGED <<pc, job>> PROVE Goal
  BY <1>3
<1>4. ASSUME NEW w \in Workers, Charging(w) PROVE Goal
  <2>1. CASE Declined(w)
    BY <1>0, <2>1 DEF Declined, Goto
  <2> QED
    BY <1>1, <1>2, <1>4, <2>1
    DEF Charging, SkipCharge, PrepareRetry, PrepareNew, Place, LookupMissing, LookupPaid,
        LookupUnsettled, SendCharge, Approved, ConfirmCharge, DeclineCharge
<1>5. ASSUME NEW w \in Workers, Upgrading(w) PROVE Goal
  BY <1>1, <1>2, <1>5
  DEF Upgrading, UpgradeRetry, UpgradeNew, ReconcileUpgrade, ConfirmUpgrade, DeclineUpgrade
<1>6. ASSUME NEW w \in Workers, Requesting(w) PROVE Goal
  <2>1. CASE Complete(w)
    BY <1>1, <2>1 DEF Complete
  <2> QED
    BY <1>1, <1>2, <1>3, <1>6, <2>1
    DEF Requesting, FirstSetup, SetupFind, SetupLock, Register, Retry, CancelRenewal
<1>7. ASSUME NEW w \in Workers, ChargeDue(w) \/ Abandon(w) PROVE Goal
  BY <1>1, <1>2, <1>7 DEF ChargeDue, Abandon
<1>8. CASE Provider \/ Tick \/ UNCHANGED vars
  BY <1>3, <1>8 DEF Provider, ProviderSettles, ProviderDrops, Tick, vars
<1> QED
  BY <1>4, <1>5, <1>6, <1>7, <1>8 DEF Next

LEMMA DeclinesStayHeard ==
  ASSUME IInv, DeclinesAreHeard, [Next]_vars
  PROVE  DeclinesAreHeard'
<1>0. /\ orders \in [OrderId -> OrderRow]
      /\ ledger \in [OrderId -> {"NONE", "DONE", "DECLINED", "CANCELED"}]
      /\ TypeOK
  BY DEF IInv, TypeOK
<1>1. ASSUME NEW o, ledger[o] # "NONE", o \in OrderId PROVE ledger'[o] # "NONE"
  BY <1>0, <1>1, LedgerMoves DEF ProviderSettles
<1>2. ASSUME NEW w \in Workers, pc'[w] = "decline" PROVE ledger'[job'[w].order] # "NONE"
  <2>1. CASE Declined(w)
    <3>1. job[w].order \in OrderId
      BY <2>1, OrderInHand DEF Declined, OrderLabels
    <3>2. ledger[job[w].order] # "NONE" /\ job' = [job EXCEPT ![w] = job[w]]
      BY <2>1 DEF Declined, CardDeclined, Goto
    <3>3. job'[w] = job[w]
      BY <1>0, <3>2 DEF TypeOK
    <3> QED
      BY <1>1, <3>1, <3>2, <3>3
  <2>2. CASE pc[w] = "decline" /\ job'[w] = job[w]
    <3>1. job[w].order \in OrderId
      BY <2>2, OrderInHand DEF OrderLabels
    <3> QED
      BY <1>1, <2>2, <3>1 DEF DeclinesAreHeard
  <2> QED
    BY <1>0, <1>2, <2>1, <2>2, DeclinesAreToldOf
<1>3. ASSUME NEW o \in OrderId, orders'[o].status = "FAILED" PROVE ledger'[o] # "NONE"
  <2>1. CASE orders[o].status = "FAILED"
    BY <1>1, <2>1 DEF DeclinesAreHeard
  <2>2. CASE Quiet
    BY <1>3, <2>1, <2>2 DEF Quiet
  <2>3. ASSUME NEW row \in OrderRow, Places(row) PROVE ledger'[o] # "NONE"
    <3>1. NextOrder \in OrderId
      BY <2>3, NextOrderIsFree DEF Places, IInv, Rows
    <3> QED
      BY <1>0, <1>3, <2>1, <2>3, <3>1 DEF Places
  <2>4. ASSUME NEW w \in Workers, Verdict(w) PROVE ledger'[o] # "NONE"
    <3> DEFINE p == job[w].order
               a == SeenOrder(w, p)
    <3>1. pc[w] \in OrderLabels
      BY <2>4 DEF Verdict, SettlesRenewal, SettlesUpgrade, Fails, OrderLabels
    <3>2. p \in OrderId /\ a \in OrderRow
      BY <3>1, OrderInHand
    <3>3. Settle(a).status = "DONE"
      BY <3>2, OrderMethods
    <3>4. \/ orders' = [orders EXCEPT ![p] = Settle(a)]
          \/ pc[w] = "decline" /\ orders' = [orders EXCEPT ![p] = Fail(a)]
      BY <2>4 DEF Verdict, SettlesRenewal, SettlesUpgrade, Fails
    <3>5. pc[w] = "decline" => ledger[p] # "NONE"
      BY DEF DeclinesAreHeard
    <3> HIDE DEF a, p
    <3> QED
      BY <1>0, <1>1, <1>3, <2>1, <3>2, <3>3, <3>4, <3>5
  <2> QED
    BY <2>2, <2>3, <2>4, StepWrites
<1> QED
  BY <1>2, <1>3 DEF DeclinesAreHeard

(* A row that is written changes its own status alone. *)
LEMMA OneStatus ==
  ASSUME TypeOK, NEW o \in OrderId, NEW row \in OrderRow,
         orders' = [orders EXCEPT ![o] = row]
  PROVE  /\ Statuses' = [Statuses EXCEPT ![o] = row.status]
         /\ row.kind = orders[o].kind /\ row.status # "NONE" /\ orders[o].status # "NONE"
              => Renewals' = Renewals
<1>0. orders \in [OrderId -> OrderRow]
  BY DEF TypeOK
<1>1. orders'[o] = row /\ \A p \in OrderId \ {o} : orders'[p] = orders[p]
  BY <1>0
<1>2. Statuses' = [Statuses EXCEPT ![o] = row.status]
  BY <1>0, <1>1 DEF Statuses
<1> QED
  BY <1>1, <1>2 DEF Renewals, Placed

(* The promised steps, said of the rows. *)
LEMMA PromisedPlacing ==
  ASSUME TypeOK, NEW o \in OrderId, Pending = {},
         orders[o].status = "NONE", ledger[o] = "NONE",
         NEW row \in OrderRow, row.status = "PENDING", orders' = [orders EXCEPT ![o] = row],
         UNCHANGED <<periods, ledger>>
  PROVE  Placing(o)
<1>0. orders \in [OrderId -> OrderRow]
  BY DEF TypeOK
<1>1. orders'[o] = row /\ \A p \in OrderId \ {o} : orders'[p] = orders[p]
  BY <1>0
<1>2. Statuses' = [Statuses EXCEPT ![o] = "PENDING"]
  BY OneStatus
<1>3. \A p \in OrderId : Statuses[p] # "PENDING" /\ Statuses[o] = "NONE"
  BY DEF Statuses, Pending
<1>4. Renewals' \in {Renewals, Renewals \cup {o}}
  <2>1. CASE row.kind = "RENEWAL"
    BY <1>1, <2>1 DEF Renewals, Placed
  <2>2. CASE row.kind # "RENEWAL"
    BY <1>1, <2>2 DEF Renewals, Placed
  <2> QED
    BY <2>1, <2>2
<1>5. Terms' = Terms
  BY DEF Terms
<1> QED
  BY <1>2, <1>3, <1>4, <1>5 DEF Placing, Promise!Place, Statuses, Renewals, Terms

LEMMA PromisedAnswer ==
  ASSUME TypeOK, NEW o \in OrderId, orders[o].status = "PENDING", ledger[o] = "NONE",
         NEW verdict \in {"DONE", "DECLINED"}, ledger' = [ledger EXCEPT ![o] = verdict],
         UNCHANGED <<orders, periods>>
  PROVE  Answering(o)
<1>1. Statuses' = Statuses /\ Renewals' = Renewals /\ Terms' = Terms /\ Statuses[o] = "PENDING"
  BY DEF Statuses, Renewals, Placed, Terms
<1> QED
  BY <1>1 DEF Answering, Promise!Answer, Statuses, Renewals, Terms

LEMMA PromisedVerdict ==
  ASSUME TypeOK, NEW o \in OrderId, orders[o].status = "PENDING",
         NEW row \in OrderRow, row.kind = orders[o].kind, orders' = [orders EXCEPT ![o] = row],
         UNCHANGED ledger
  PROVE  /\ /\ row.status = "DONE" /\ ledger[o] = "DONE"
            /\ IF orders[o].kind = "RENEWAL" THEN Terms' = Terms \cup {o}
                                             ELSE Terms # {} /\ Terms' = Terms
            => Settling(o)
         /\ /\ row.status = "FAILED"
            /\ ledger[o] = "DECLINED" \/ (LateDeclines /\ ledger[o] = "DONE")
            /\ Terms' = Terms
            => Failing(o)
<1>1. ASSUME row.status # "NONE"
      PROVE  Statuses' = [Statuses EXCEPT ![o] = row.status] /\ Renewals' = Renewals
  BY <1>1, OneStatus
<1>2. Statuses[o] = "PENDING" /\ (o \in Renewals <=> orders[o].kind = "RENEWAL")
  BY DEF Statuses, Renewals, Placed
<1> QED
  BY <1>1, <1>2 DEF Settling, Failing, Promise!Settle, Promise!Fail, Statuses, Renewals, Terms

(* A verdict given again changes nothing that is promised. *)
LEMMA RepeatedVerdict ==
  ASSUME TypeOK, NEW o \in OrderId, orders[o].status # "NONE",
         NEW row \in OrderRow, row.kind = orders[o].kind, row.status = orders[o].status,
         orders' = [orders EXCEPT ![o] = row], Terms' = Terms, UNCHANGED ledger
  PROVE  UNCHANGED promised
<1>1. /\ Statuses' = [Statuses EXCEPT ![o] = orders[o].status]
      /\ Renewals' = Renewals
  BY OneStatus
<1>2. Statuses' = Statuses
  BY <1>1 DEF Statuses
<1> QED
  BY <1>1, <1>2 DEF promised

(* What a verdict does to the terms that are held.                          *)
LEMMA VerdictTerms ==
  ASSUME TypeOK, NEW w \in Workers, NEW o \in OrderId, NEW a
  PROVE  /\ SettlesRenewal(w, o, a) => Terms' = Terms \cup {o}
         /\ SettlesUpgrade(w, o, a) => Terms # {} /\ Terms' = Terms
         /\ Fails(w, o, a) => Terms' = Terms
<1>0. periods \in [OrderId -> PeriodRow]
  BY DEF TypeOK
<1>1. CASE SettlesRenewal(w, o, a)
  <2>1. Grant(a).state = "GRANTED"
    BY DEF Grant
  <2>2. periods' = [periods EXCEPT ![o] = Grant(a)]
    BY <1>1 DEF SettlesRenewal
  <2>3. periods'[o].state = "GRANTED" /\ \A p \in OrderId \ {o} : periods'[p] = periods[p]
    BY <1>0, <2>1, <2>2
  <2> QED
    BY <1>1, <2>3 DEF Terms, SettlesRenewal, SettlesUpgrade, Fails
<1>2. CASE SettlesUpgrade(w, o, a)
  <2> DEFINE p == ActivePeriod
  <2>1. p \in OrderId /\ periods[p].state = "GRANTED"
    BY <1>2, ActivePeriodIsActive DEF SettlesUpgrade
  <2>2. periods' = [periods EXCEPT ![p] = Raise(periods[p], a.tier)]
    BY <1>2 DEF SettlesUpgrade
  <2> HIDE DEF p
  <2>3. Raise(periods[p], a.tier).state = periods[p].state
    BY <1>0, <2>1 DEF PeriodRow, Raise
  <2>4. \A q \in OrderId : periods'[q].state = periods[q].state
    BY <1>0, <2>1, <2>2, <2>3
  <2> QED
    BY <1>2, <2>1, <2>4 DEF Terms, SettlesRenewal, SettlesUpgrade, Fails
<1>3. CASE Fails(w, o, a)
  <2>1. Terms' = Terms
    BY <1>3 DEF Fails, Terms
  <2> QED
    BY <1>3, <2>1 DEF SettlesRenewal, SettlesUpgrade, Fails
<1> QED
  BY <1>1, <1>2, <1>3

(* Every transaction of billing and every answer of the provider is one     *)
(* step of the promise, or none of it.                                      *)
LEMMA VerdictsArePromised ==
  ASSUME OrdersAreCurrent \/ (~LateDeclines /\ NothingBack),
         StepInv, DeclinesAreHeard, OpenIsKept, dbVars' # dbVars,
         NEW w \in Workers, Verdict(w), UNCHANGED ledger
  PROVE  (\E o \in OrderId : Settling(o) \/ Failing(o)) \/ UNCHANGED promised
<1>0. TypeOK /\ IInv /\ FreshCopies
  BY DEF StepInv, IInv
<1>1. pc[w] \in OrderLabels
  BY DEF Verdict, SettlesRenewal, SettlesUpgrade, Fails, OrderLabels
<1>a. PICK o \in OrderId : o = job[w].order
  BY <1>0, <1>1, OrderInHand
<1>b. PICK a \in OrderRow : a = SeenOrder(w, o)
  BY <1>0, <1>1, <1>a, OrderInHand
<1>2. orders[o].status # "NONE" /\ a.kind = orders[o].kind
  BY <1>0, <1>1, <1>a, <1>b, OrderInHand
<1>3. /\ Settle(a) \in OrderRow /\ Settle(a).status = "DONE" /\ Settle(a).kind = orders[o].kind
      /\ Fail(a) \in OrderRow /\ Fail(a).status = "FAILED" /\ Fail(a).kind = orders[o].kind
  BY <1>2, OrderMethods
<1>4. SettlesRenewal(w, o, a) \/ SettlesUpgrade(w, o, a) \/ Fails(w, o, a)
  BY <1>a, <1>b DEF Verdict
<1>5. /\ pc[w] = "confirm" => ledger[o] \in {"DONE", "CANCELED"}
      /\ pc[w] = "decline" => ledger[o] = "DECLINED" \/ (LateDeclines /\ ledger[o] # "NONE")
  BY <1>0, <1>a DEF IInv, Threads, ThreadOk, DeclinesAreHeard
<1>6. OrdersAreCurrent => a = orders[o]
  <2>1. pc'[w] # pc[w]
    BY <1>4 DEF SettlesRenewal, SettlesUpgrade, Fails
  <2> QED
    BY <1>a, <1>b, <2>1, WriterSees
<1>7. ledger[o] \in {"NONE", "DONE", "DECLINED", "CANCELED"}
      /\ orders[o].status \in {"NONE", "PENDING", "DONE", "FAILED", "CANCELED"}
      /\ orders[o].kind \in {"RENEWAL", "UPGRADE"}
  BY <1>0, <1>2 DEF TypeOK, OrderRow
<1>8. a.status = "PENDING"
  BY <1>4 DEF SettlesRenewal, SettlesUpgrade, Fails
<1>9. /\ ~LateDeclines /\ pc[w] = "confirm" => orders[o].status # "FAILED"
      /\ ~LateDeclines /\ pc[w] = "decline" => orders[o].status \in {"PENDING", "FAILED"}
  BY <1>0, <1>2, <1>5, <1>7
  DEF IInv, Rows, DoneIsPaid, Settlement, FailedIsDeclined
<1>10. orders[o].status = "PENDING" => ledger[o] # "CANCELED"
  BY <1>2 DEF OpenIsKept
<1>11. ~LateDeclines /\ periods[o].state = "NONE" /\ orders[o].kind = "RENEWAL"
         => orders[o].status \notin {"DONE", "CANCELED"}
  BY <1>0, <1>2 DEF IInv, Rows, Settlement, DoneIsPaid, GrantedIsPaid
<1>12. CASE SettlesRenewal(w, o, a)
  <2>1. /\ pc[w] = "confirm" /\ orders[o].kind = "RENEWAL" /\ periods[o].state = "NONE"
        /\ orders' = [orders EXCEPT ![o] = Settle(a)]
        /\ Terms' = Terms \cup {o}
    BY <1>0, <1>2, <1>12, VerdictTerms DEF SettlesRenewal
  <2>2. orders[o].status = "PENDING" /\ ledger[o] = "DONE"
    BY <1>2, <1>5, <1>6, <1>7, <1>8, <1>9, <1>10, <1>11, <2>1
  <2>3. Settling(o)
    BY <1>0, <1>2, <1>3, <2>1, <2>2, PromisedVerdict
  <2> QED
    BY <1>2, <2>3
<1>13. CASE SettlesUpgrade(w, o, a)
  <2>1. /\ pc[w] = "confirm" /\ orders[o].kind = "UPGRADE"
        /\ orders' = [orders EXCEPT ![o] = Settle(a)]
        /\ Terms # {} /\ Terms' = Terms
    BY <1>0, <1>2, <1>13, VerdictTerms DEF SettlesUpgrade
  <2>2. CASE orders[o].status = "PENDING"
    <3>1. ledger[o] = "DONE"
      BY <1>5, <1>10, <2>1, <2>2
    <3>2. Settling(o)
      BY <1>0, <1>2, <1>3, <2>1, <2>2, <3>1, PromisedVerdict
    <3> QED
      BY <1>2, <3>2
  <2>3. CASE orders[o].status = "DONE"
    BY <1>0, <1>2, <1>3, <2>1, <2>3, RepeatedVerdict
  <2> QED
    <3>1. ~OrdersAreCurrent => ~LateDeclines /\ orders[o].status # "CANCELED"
      BY DEF NothingBack
    <3> QED
      BY <1>2, <1>6, <1>7, <1>8, <1>9, <2>1, <2>2, <2>3, <3>1
<1>14. CASE Fails(w, o, a)
  <2>1. /\ pc[w] = "decline" /\ orders' = [orders EXCEPT ![o] = Fail(a)]
        /\ Terms' = Terms
    BY <1>0, <1>2, <1>14, VerdictTerms DEF Fails
  <2>2. CASE orders[o].status = "PENDING"
    <3>1. ledger[o] = "DECLINED" \/ (LateDeclines /\ ledger[o] = "DONE")
      BY <1>5, <1>7, <1>10, <2>1, <2>2
    <3>2. Failing(o)
      BY <1>0, <1>2, <1>3, <2>1, <2>2, <3>1, PromisedVerdict
    <3> QED
      BY <1>2, <3>2
  <2>3. CASE orders[o].status = "FAILED"
    BY <1>0, <1>2, <1>3, <2>1, <2>3, RepeatedVerdict
  <2> QED
    BY <1>6, <1>8, <1>9, <2>1, <2>2, <2>3
<1> QED
  BY <1>4, <1>12, <1>13, <1>14

LEMMA StepsArePromised ==
  ASSUME OrdersAreCurrent \/ (~LateDeclines /\ NothingBack),
         StepInv, SentArePlaced, DeclinesAreHeard, OpenIsKept, [Next]_vars
  PROVE  [Promise!Next]_promised
<1>0. TypeOK /\ IInv /\ Rows
  BY DEF StepInv, IInv
<1>1. ASSUME NEW o \in OrderId, Placing(o) \/ Answering(o) \/ Settling(o) \/ Failing(o)
      PROVE  Promise!Next
  BY <1>1 DEF Placing, Answering, Settling, Failing, Promise!Next
<1>2. ASSUME NEW o \in OrderId, ProviderSettles(o) PROVE [Promise!Next]_promised
  <2>1. UNCHANGED <<orders, periods>> /\ o \in inflight
    BY <1>2 DEF ProviderSettles, dbVars
  <2>2. CASE ledger[o] = "NONE"
    <3>1. PICK verdict \in {"DONE", "DECLINED"} : ledger' = [ledger EXCEPT ![o] = verdict]
      BY <1>2, <2>2 DEF ProviderSettles
    <3>2. orders[o].status = "PENDING"
      <4>1. orders[o].status \in {"NONE", "PENDING", "DONE", "FAILED", "CANCELED"}
        BY <1>0 DEF TypeOK, OrderRow
      <4> QED
        BY <1>0, <2>1, <2>2, <4>1 DEF SentArePlaced, DeclinesAreHeard, Rows, DoneIsPaid
    <3>3. Answering(o)
      BY <1>0, <2>1, <2>2, <3>1, <3>2, PromisedAnswer
    <3> QED
      BY <1>1, <3>3
  <2>3. CASE ledger[o] # "NONE"
    BY <1>2, <2>1, <2>3 DEF ProviderSettles, promised, Statuses, Renewals, Placed, Terms
  <2> QED
    BY <2>2, <2>3
<1>3. CASE UNCHANGED ledger
  <2>1. CASE Quiet
    BY <1>3, <2>1 DEF Quiet, promised, Statuses, Renewals, Placed, Terms
  <2>2. ASSUME NEW row \in OrderRow, Places(row) PROVE Promise!Next
    <3>1. PICK o \in OrderId : o = NextOrder
      BY <1>0, <2>2, NextOrderIsFree DEF Places, Rows
    <3>2. orders[o].status = "NONE"
      BY <1>0, <2>2, <3>1, NextOrderIsFree DEF Places, Rows
    <3>3. ledger[o] = "NONE"
      BY <3>2 DEF SentArePlaced
    <3>4. Placing(o)
      BY <1>0, <1>3, <2>2, <3>1, <3>2, <3>3, PromisedPlacing DEF Places
    <3> QED
      BY <1>1, <3>4
  <2>3. ASSUME NEW w \in Workers, Verdict(w) PROVE [Promise!Next]_promised
    <3>1. CASE UNCHANGED dbVars
      BY <1>3, <3>1 DEF dbVars, promised, Statuses, Renewals, Placed, Terms
    <3>2. CASE ~UNCHANGED dbVars
      <4>1. (\E o \in OrderId : Settling(o) \/ Failing(o)) \/ UNCHANGED promised
        BY <1>3, <2>3, <3>2, VerdictsArePromised
      <4> QED
        BY <1>1, <4>1
    <3> QED
      BY <3>1, <3>2
  <2> QED
    BY <1>0, <2>1, <2>2, <2>3, StepWrites
<1> QED
  BY <1>2, <1>3, LedgerMoves

LEMMA NothingComesBack ==
  ASSUME IInv, NothingBack, [Next]_vars
  PROVE  NothingBack'
<1>0. /\ orders \in [OrderId -> OrderRow]
      /\ ledger \in [OrderId -> {"NONE", "DONE", "DECLINED", "CANCELED"}]
  BY DEF IInv, TypeOK
<1>1. \A o \in OrderId : ledger'[o] # "CANCELED"
  BY <1>0, LedgerMoves DEF ProviderSettles, NothingBack
<1>2. \A o \in OrderId : orders'[o].status # "CANCELED"
  <2>1. CASE Quiet
    BY <2>1 DEF Quiet, NothingBack
  <2>2. ASSUME NEW row \in OrderRow, Places(row)
        PROVE  \A o \in OrderId : orders'[o].status # "CANCELED"
    BY <1>0, <2>2 DEF Places, NothingBack
  <2>3. ASSUME NEW w \in Workers, Verdict(w)
        PROVE  \A o \in OrderId : orders'[o].status # "CANCELED"
    <3> DEFINE p == job[w].order
               a == SeenOrder(w, p)
    <3>1. pc[w] \in OrderLabels
      BY <2>3 DEF Verdict, SettlesRenewal, SettlesUpgrade, Fails, OrderLabels
    <3>2. p \in OrderId /\ a \in OrderRow
      BY <3>1, OrderInHand
    <3>3. Settle(a).status = "DONE" /\ Fail(a).status = "FAILED"
      BY <3>2, OrderMethods
    <3>4. orders' = [orders EXCEPT ![p] = Settle(a)] \/ orders' = [orders EXCEPT ![p] = Fail(a)]
      BY <2>3 DEF Verdict, SettlesRenewal, SettlesUpgrade, Fails
    <3> HIDE DEF a, p
    <3> QED
      BY <1>0, <3>2, <3>3, <3>4 DEF NothingBack
  <2> QED
    BY <2>1, <2>2, <2>3, StepWrites
<1> QED
  BY <1>1, <1>2 DEF NothingBack

PromiseInv == StepInv /\ SentArePlaced /\ DeclinesAreHeard /\ NothingBack

LEMMA InitPromiseInv == Init => PromiseInv
<1> SUFFICES ASSUME Init PROVE PromiseInv
  OBVIOUS
<1>1. \A o \in OrderId : orders[o].status = "NONE" /\ ledger[o] = "NONE" /\ o \notin inflight
  BY DEF Init, NoOrder
<1>2. \A w \in Workers : pc[w] = "idle"
  BY DEF Init
<1> QED
  BY <1>1, <1>2, InitStepInv DEF PromiseInv, SentArePlaced, DeclinesAreHeard, NothingBack

LEMMA InitIsPromised == Init => Promise!Init
<1> SUFFICES ASSUME Init PROVE Promise!Init
  OBVIOUS
<1>1. \A o \in OrderId : orders[o].status = "NONE" /\ periods[o].state = "NONE"
  BY DEF Init, NoOrder, NoPeriod
<1>2. Statuses = [o \in OrderId |-> "NONE"]
  BY <1>1 DEF Statuses
<1>3. Renewals = {} /\ Terms = {}
  BY <1>1 DEF Renewals, Placed, Terms
<1>4. ledger = [o \in OrderId |-> "NONE"]
  BY DEF Init
<1> QED
  BY <1>2, <1>3, <1>4 DEF Promise!Init, Statuses, Renewals, Terms

(* Billing implements PaidOrders: whatever copies its threads hold and      *)
(* however calls are lost, repeated or answered late, an order is placed    *)
(* when no other is open, gets one verdict, which is the provider's, and    *)
(* its term is held from the transaction on that records the payment.  It   *)
(* needs a session per transaction, or else a provider that never declines  *)
(* an order it has taken the money for.                                     *)
THEOREM BillingKeepsItsPromise ==
  ~OpenInView \/ ~LateDeclines => (Spec => ImplementsPaidOrders)
<1> SUFFICES ASSUME ~OpenInView \/ ~LateDeclines PROVE Spec => ImplementsPaidOrders
  OBVIOUS
<1>1. PromiseInv /\ [Next]_vars => PromiseInv'
  BY NextStepInv, SentStayPlaced, DeclinesStayHeard, NothingComesBack DEF PromiseInv, StepInv
<1>2. PromiseInv /\ [Next]_vars => [Promise!Next]_promised
  <2>1. PromiseInv => OpenIsKept
    BY DEF PromiseInv, NothingBack, OpenIsKept
  <2> QED
    BY <2>1, StepsArePromised, FreshOrders DEF PromiseInv, StepInv
<1>3. Promise!Init /\ [][Promise!Next]_promised => ImplementsPaidOrders
  BY DEF ImplementsPaidOrders, Promise!Spec, promised, Statuses, Renewals, Terms
<1> QED
  BY InitPromiseInv, InitIsPromised, <1>1, <1>2, <1>3, PTL DEF Spec

-----------------------------------------------------------------------------
(* Refunds                                                                 *)
(*                                                                         *)
(* Refunds beside charges, for any number of threads of both, orders and   *)
(* ticks.  The first half holds with one persistence context per request   *)
(* too, where a refund may write an order it loaded long ago; the second   *)
(* half holds there where no refund or charge does.                        *)

ReviewLabels == {"idle", "request", "approve", "reject", "lookup", "check", "cancel",
                 "await", "complete"}
Settled == {"DONE", "CANCELED"}

RefundTypes ==
  /\ rpc \in [Reviewers -> ReviewLabels]
  /\ rjob \in [Reviewers -> RefundJob]
  /\ cancels \subseteq OrderId
  /\ ai \in {"free", "busy", "abandoned"}

(* A copy of an order, however old: its kind is right, and if it says       *)
(* settled then the money was taken, and the order is settled to this day   *)
(* (a provider that declines after it has taken the money aside).           *)
CopyOk(o, a, os, ld) ==
  /\ a.kind = os[o].kind /\ a.status # "NONE"
  /\ a.refund # "NONE" => a.status \in Settled
  /\ a.status \in Settled =>
       ld[o] \in Settled /\ (LateDeclines \/ os[o].status \in Settled)

(* What a refund thread knows of the order it is about.                     *)
ReviewOk(l, j, os, ld) ==
  l # "idle" =>
    /\ j.order \in OrderId /\ os[j.order].status # "NONE"
    /\ CopyOk(j.order, j.copy, os, ld)
    /\ l = "cancel" => ld[j.order] \in Settled
    /\ l = "complete" => ld[j.order] = "CANCELED"

Reviews == \A r \in Reviewers : ReviewOk(rpc[r], rjob[r], orders, ledger)

(* Refunds are of settled orders; a charging thread holds no other copies   *)
(* than of orders without one.                                              *)
RefundsAreSettled ==
  /\ \A o \in OrderId : orders[o].refund # "NONE" => orders[o].status \in Settled
  /\ \A w \in Workers : cache[w].order.refund = "NONE"

CancelsArePaid == \A o \in cancels : ledger[o] \in Settled

RInv == StepInv /\ RefundTypes /\ Reviews /\ RefundsAreSettled /\ CancelsArePaid
                /\ NoUseWhileCanceling

(* How the rows move. *)
Evolves ==
  /\ RowsEvolve
  /\ \A o \in OrderId :
       LateDeclines \/ (orders[o].status \in Settled => orders'[o].status \in Settled)

LEMMA ReviewStays ==
  ASSUME Evolves, NEW l, NEW j, ReviewOk(l, j, orders, ledger)
  PROVE  ReviewOk(l, j, orders', ledger')
BY DEF Evolves, RowsEvolve, ReviewOk, CopyOk, Settled

LEMMA ReviewsStay ==
  ASSUME Evolves, Reviews, UNCHANGED <<rpc, rjob>>
  PROVE  Reviews'
BY ReviewStays DEF Reviews

LEMMA ReviewerMoves ==
  ASSUME RefundTypes, Reviews, Evolves, NEW r \in Reviewers, NEW l \in ReviewLabels,
         NEW j \in RefundJob, RGoto(r, l, j), ReviewOk(l, j, orders', ledger')
  PROVE  /\ rpc' \in [Reviewers -> ReviewLabels] /\ rjob' \in [Reviewers -> RefundJob]
         /\ Reviews'
<1>1. /\ rpc'[r] = l /\ rjob'[r] = j
      /\ \A q \in Reviewers \ {r} : rpc'[q] = rpc[q] /\ rjob'[q] = rjob[q]
      /\ rpc' \in [Reviewers -> ReviewLabels] /\ rjob' \in [Reviewers -> RefundJob]
  BY DEF RefundTypes, RGoto
<1>2. ASSUME NEW q \in Reviewers PROVE ReviewOk(rpc'[q], rjob'[q], orders', ledger')
  <2>1. CASE q = r
    BY <1>1, <2>1
  <2>2. CASE q # r
    <3>1. ReviewOk(rpc[q], rjob[q], orders, ledger)
      BY DEF Reviews
    <3> QED
      BY <1>1, <2>2, <3>1, ReviewStays
  <2> QED
    BY <2>1, <2>2
<1> QED
  BY <1>1, <1>2 DEF Reviews

LEMMA EmptyRefundJob == NoRefundJob \in RefundJob
BY EmptyRows DEF NoRefundJob, RefundJob

LEMMA ReviewerFinishes ==
  ASSUME RefundTypes, Reviews, Evolves, NEW r \in Reviewers, RFinish(r)
  PROVE  /\ rpc' \in [Reviewers -> ReviewLabels] /\ rjob' \in [Reviewers -> RefundJob]
         /\ Reviews'
<1>1. ReviewOk("idle", NoRefundJob, orders', ledger') /\ "idle" \in ReviewLabels
  BY DEF ReviewOk, ReviewLabels
<1> QED
  BY <1>1, EmptyRefundJob, ReviewerMoves DEF RFinish

----------------------------------------------------------------------------
(* The steps of Billing, beside refunds. *)

(* Charges make the provider give verdicts, and neither change nor undo one. *)
LEMMA LedgerStays ==
  ASSUME IInv, [Next]_vars, NEW o \in OrderId
  PROVE  ledger'[o] = ledger[o] \/ (ledger[o] = "NONE" /\ ledger'[o] \in {"DONE", "DECLINED"})
<1>1. ASSUME NEW p \in OrderId, ProviderSettles(p) \/ ProviderDrops(p)
      PROVE  \/ ledger'[o] = ledger[o]
             \/ ledger[o] = "NONE" /\ ledger'[o] \in {"DONE", "DECLINED"}
  BY <1>1 DEF ProviderSettles, ProviderDrops, IInv, TypeOK
<1>2. ASSUME NEW w \in Workers, Charging(w) PROVE UNCHANGED ledger
  BY <1>2 DEF Charging, SkipCharge, PrepareRetry, PrepareNew, LookupMissing, LookupPaid,
              LookupUnsettled, SendCharge, Approved, Declined, ConfirmCharge, DeclineCharge,
              providerVars
<1>3. ASSUME NEW w \in Workers, Upgrading(w) PROVE UNCHANGED ledger
  BY <1>3 DEF Upgrading, UpgradeRetry, UpgradeNew, ReconcileUpgrade, ConfirmUpgrade,
              DeclineUpgrade, providerVars
<1>4. ASSUME NEW w \in Workers, Requesting(w) \/ ChargeDue(w) \/ Abandon(w)
      PROVE  UNCHANGED ledger
  BY <1>4 DEF Requesting, FirstSetup, SetupFind, SetupLock, Complete, Register, Retry,
              CancelRenewal, ChargeDue, Abandon, providerVars
<1>5. Tick \/ UNCHANGED vars => UNCHANGED ledger
  BY DEF Tick, vars, providerVars
<1> QED
  BY <1>1, <1>2, <1>3, <1>4, <1>5 DEF Next, Provider

(* What a charging thread remembers of orders it has just read or written. *)
LEMMA NewCopies ==
  ASSUME IInv, [Next]_vars, NEW w \in Workers
  PROVE  \/ cache'[w].order = cache[w].order \/ cache'[w].order = NoOrder
         \/ \E o \in OrderId : orders[o].status = "PENDING" /\ cache'[w].order = orders[o]
         \/ cache'[w].order.refund = "NONE"
<1> DEFINE Good == \/ cache'[w].order = cache[w].order \/ cache'[w].order = NoOrder
                   \/ \E o \in OrderId : /\ orders[o].status = "PENDING"
                                         /\ cache'[w].order = orders[o]
                   \/ cache'[w].order.refund = "NONE"
<1>0. cache \in [Workers -> CacheRow] /\ now \in Nat
  BY DEF IInv, TypeOK, CacheRow
<1>11. ASSUME NEW v \in Workers, NEW k, Hold(v, k),
              k.order = NoOrder \/ k.order.refund = "NONE"
                \/ \E o \in OrderId : orders[o].status = "PENDING" /\ k.order = orders[o]
       PROVE  Good
  BY <1>0, <1>11 DEF Hold, NoCache
<1>1. ASSUME NEW v \in Workers, NEW s, NEW x, Remember(v, s, x),
             x = NoOrder \/ x.refund = "NONE"
               \/ \E o \in OrderId : orders[o].status = "PENDING" /\ x = orders[o]
      PROVE  Good
  <2> DEFINE k == [NoCache EXCEPT !.sub = s, !.order = x]
  <2>1. k.order = x
    BY DEF NoCache
  <2>2. Hold(v, k)
    BY <1>1 DEF Remember
  <2> HIDE DEF k, Good
  <2> QED
    BY <1>1, <1>11, <2>1, <2>2
<1>2. ASSUME NEW v \in Workers, Finish(v) PROVE Good
  BY <1>0, <1>2 DEF Finish, NoCache
<1>3. ASSUME UNCHANGED cache PROVE Good
  BY <1>3
<1>4. Pending # {} => /\ LatestPending \in OrderId
                      /\ orders[LatestPending].status = "PENDING"
  BY LatestPendingIsPending
<1>5. \A k, t, e : NewOrder(k, t, e).refund = "NONE"
  BY DEF NewOrder, NoOrder
<1> HIDE DEF Good
<1>6. ASSUME NEW v \in Workers, Charging(v) PROVE Good
  <2>1. CASE SkipCharge(v) \/ LookupUnsettled(v) \/ ConfirmCharge(v) \/ DeclineCharge(v)
    BY <1>2, <2>1 DEF SkipCharge, LookupUnsettled, ConfirmCharge, DeclineCharge
  <2>2. CASE PrepareRetry(v)
    BY <1>1, <1>4, <2>2 DEF PrepareRetry
  <2>3. CASE PrepareNew(v)
    BY <1>1, <1>5, <2>3 DEF PrepareNew, Place
  <2>4. CASE LookupMissing(v) \/ LookupPaid(v) \/ SendCharge(v) \/ Approved(v) \/ Declined(v)
    BY <1>3, <2>4 DEF LookupMissing, LookupPaid, SendCharge, Approved, Declined
  <2> QED
    BY <1>6, <2>1, <2>2, <2>3, <2>4 DEF Charging
<1>7. ASSUME NEW v \in Workers, Upgrading(v) PROVE Good
  <2>1. ASSUME NEW t \in Tiers, UpgradeRetry(v, t) PROVE Good
    BY <1>1, <1>4, <2>1 DEF UpgradeRetry
  <2>2. ASSUME NEW t \in Tiers, UpgradeNew(v, t) PROVE Good
    BY <1>5, <1>11, <2>2 DEF UpgradeNew
  <2>3. CASE ReconcileUpgrade(v)
    BY <1>1, <1>4, <2>3 DEF ReconcileUpgrade
  <2>4. CASE ConfirmUpgrade(v) \/ DeclineUpgrade(v)
    BY <1>2, <2>4 DEF ConfirmUpgrade, DeclineUpgrade
  <2> QED
    BY <1>7, <2>1, <2>2, <2>3, <2>4 DEF Upgrading
<1>8. ASSUME NEW v \in Workers, Requesting(v) PROVE Good
  <2>1. CASE (\E t \in Tiers : FirstSetup(v, t)) \/ CancelRenewal(v)
    BY <1>3, <2>1 DEF FirstSetup, CancelRenewal
  <2>2. ASSUME NEW t \in Tiers, SetupFind(v, t) PROVE Good
    BY <1>0, <2>2 DEF SetupFind, NoCache, Good
  <2>3. CASE SetupLock(v)
    BY <1>2, <2>3 DEF SetupLock
  <2>4. CASE Complete(v)
    BY <1>1, <2>4 DEF Complete
  <2>5. CASE Register(v)
    BY <1>1, <2>5 DEF Register
  <2>6. CASE Retry(v)
    BY <1>1, <2>6 DEF Retry
  <2> QED
    BY <1>8, <2>1, <2>2, <2>3, <2>4, <2>5, <2>6 DEF Requesting
<1>9. ASSUME NEW v \in Workers, ChargeDue(v) \/ Abandon(v) PROVE Good
  BY <1>2, <1>3, <1>9 DEF ChargeDue, Abandon
<1>10. CASE Provider \/ Tick \/ UNCHANGED vars
  BY <1>3, <1>10 DEF Provider, ProviderSettles, ProviderDrops, Tick, vars
<1> QED
  BY <1>6, <1>7, <1>8, <1>9, <1>10 DEF Next, Good

(* What a step of Billing does to one order: nothing, or it places it, or   *)
(* it settles the copy it sees, which was PENDING when it was loaded.       *)
LEMMA OrderMoves ==
  ASSUME IInv, [Next]_vars, NEW o \in OrderId
  PROVE  \/ orders'[o] = orders[o]
         \/ /\ orders[o].status = "NONE" /\ ~OpenRefund
            /\ orders'[o].status = "PENDING" /\ orders'[o].refund = "NONE"
         \/ \E w \in Workers :
              /\ Verdict(w) /\ o = job[w].order /\ SeenOrder(w, o).status = "PENDING"
              /\ \/ pc[w] = "confirm" /\ orders'[o] = Settle(SeenOrder(w, o))
                 \/ pc[w] = "decline" /\ orders'[o] = Fail(SeenOrder(w, o))
              /\ SeenOrder(w, o) \in OrderRow /\ SeenOrder(w, o).kind = orders[o].kind
              /\ orders[o].status # "NONE"
<1>0. orders \in [OrderId -> OrderRow]
  BY DEF IInv, TypeOK
<1>1. CASE Quiet
  BY <1>1 DEF Quiet
<1>2. ASSUME NEW row \in OrderRow, Places(row)
      PROVE  \/ orders'[o] = orders[o]
             \/ /\ orders[o].status = "NONE" /\ ~OpenRefund
                /\ orders'[o].status = "PENDING" /\ orders'[o].refund = "NONE"
  <2>1. NextOrder \in OrderId /\ orders[NextOrder].status = "NONE"
    BY <1>2, NextOrderIsFree DEF Places, IInv, Rows
  <2> QED
    BY <1>0, <1>2, <2>1 DEF Places
<1>3. ASSUME NEW w \in Workers, Verdict(w), orders'[o] # orders[o]
      PROVE  /\ o = job[w].order /\ SeenOrder(w, o).status = "PENDING"
             /\ \/ pc[w] = "confirm" /\ orders'[o] = Settle(SeenOrder(w, o))
                \/ pc[w] = "decline" /\ orders'[o] = Fail(SeenOrder(w, o))
             /\ SeenOrder(w, o) \in OrderRow /\ SeenOrder(w, o).kind = orders[o].kind
             /\ orders[o].status # "NONE"
  <2> DEFINE p == job[w].order
             a == SeenOrder(w, p)
  <2>1. pc[w] \in OrderLabels
    BY <1>3 DEF Verdict, SettlesRenewal, SettlesUpgrade, Fails, OrderLabels
  <2>2. p \in OrderId /\ a \in OrderRow /\ a.kind = orders[p].kind /\ orders[p].status # "NONE"
    BY <2>1, OrderInHand
  <2>3. a.status = "PENDING"
    BY <1>3 DEF Verdict, SettlesRenewal, SettlesUpgrade, Fails
  <2>4. \/ pc[w] = "confirm" /\ orders' = [orders EXCEPT ![p] = Settle(a)]
        \/ pc[w] = "decline" /\ orders' = [orders EXCEPT ![p] = Fail(a)]
    BY <1>3 DEF Verdict, SettlesRenewal, SettlesUpgrade, Fails
  <2> HIDE DEF a, p
  <2>5. o = p
    BY <1>0, <1>3, <2>2, <2>4
  <2>6. \/ pc[w] = "confirm" /\ orders'[o] = Settle(a)
        \/ pc[w] = "decline" /\ orders'[o] = Fail(a)
    BY <1>0, <2>2, <2>4, <2>5
  <2> QED
    BY <2>2, <2>3, <2>5, <2>6 DEF a, p
<1> QED
  BY <1>1, <1>2, <1>3, StepWrites

LEMMA NextEvolves ==
  ASSUME StepInv, [Next]_vars
  PROVE  Evolves
<1>0. IInv
  BY DEF StepInv
<1>1. ASSUME NEW o \in OrderId, orders[o].status # "NONE"
      PROVE  orders'[o].status # "NONE" /\ orders'[o].kind = orders[o].kind
  <2>1. orders'[o].status # "NONE"
    BY <1>0, <1>1, PlacedStay
  <2>2. orders'[o].kind = orders[o].kind
    BY <1>0, <1>1, OrderMoves, OrderMethods
  <2> QED
    BY <2>1, <2>2
<1>2. RowsEvolve
  BY <1>0, <1>1, LedgerStays DEF RowsEvolve
<1>3. ASSUME NEW o \in OrderId, ~LateDeclines, orders[o].status \in Settled
      PROVE  orders'[o].status \in Settled
  <2>1. ASSUME NEW w \in Workers, o = job[w].order, pc[w] = "decline" PROVE FALSE
    <3>1. ledger[o] = "DECLINED"
      BY <1>0, <1>3, <2>1 DEF IInv, Threads, ThreadOk
    <3>2. ledger[o] \in {"DONE", "CANCELED"}
      BY <1>0, <1>3 DEF IInv, Rows, DoneIsPaid, Settled
    <3> QED
      BY <3>1, <3>2
  <2>2. \A a \in OrderRow : Settle(a).status = "DONE"
    BY OrderMethods
  <2> QED
    BY <1>0, <1>3, <2>1, <2>2, OrderMoves DEF Settled
<1> QED
  BY <1>2, <1>3 DEF Evolves

(* Charges give no order a refund, and take no refund under way away unless *)
(* they write a copy from before it.                                        *)
LEMMA NextRefunds ==
  ASSUME StepInv, RefundsAreSettled, [Next]_vars
  PROVE  /\ RefundsAreSettled'
         /\ \A o \in OrderId : orders'[o].refund \in {orders[o].refund, "NONE"}
<1>0. IInv /\ TypeOK
  BY DEF StepInv, IInv
<1>1. \A w \in Workers, o \in OrderId :
         SeenOrder(w, o).status = "PENDING" => SeenOrder(w, o).refund = "NONE"
  BY DEF RefundsAreSettled, SeenOrder, Settled
<1>2. ASSUME NEW o \in OrderId
      PROVE  /\ orders'[o].refund \in {orders[o].refund, "NONE"}
             /\ orders'[o].refund # "NONE" => orders'[o].status \in Settled
  <2>1. \A a \in OrderRow : Settle(a).refund = a.refund /\ Fail(a).refund = a.refund
    BY OrderColumns
  <2>2. orders'[o] = orders[o] \/ orders'[o].refund = "NONE"
    BY <1>0, <1>1, <2>1, OrderMoves
  <2> QED
    BY <2>2 DEF RefundsAreSettled
<1>3. ASSUME NEW w \in Workers PROVE cache'[w].order.refund = "NONE"
  <2>1. NoOrder.refund = "NONE"
    BY DEF NoOrder
  <2> QED
    BY <1>0, <2>1, NewCopies DEF RefundsAreSettled, Settled
<1> QED
  BY <1>2, <1>3 DEF RefundsAreSettled

LEMMA ChargesKeepRInv ==
  ASSUME RInv, [Next]_vars, UNCHANGED refundVars
  PROVE  RInv'
<1>0. /\ StepInv /\ IInv /\ RefundTypes /\ Reviews /\ RefundsAreSettled /\ CancelsArePaid
      /\ NoUseWhileCanceling
      /\ UNCHANGED <<rpc, rjob, cancels, ai>>
  BY DEF RInv, StepInv, refundVars
<1>1. StepInv' /\ Evolves
  BY <1>0, NextStepInv, NextEvolves
<1>2. RefundTypes' /\ Reviews'
  BY <1>0, <1>1, ReviewsStay DEF RefundTypes
<1>3. RefundsAreSettled' /\ \A o \in OrderId : orders'[o].refund \in {orders[o].refund, "NONE"}
  BY <1>0, NextRefunds
<1>4. CancelsArePaid'
  BY <1>0, LedgerStays DEF CancelsArePaid, Settled, RefundTypes
<1>5. NoUseWhileCanceling'
  BY <1>0, <1>3 DEF NoUseWhileCanceling, CancelPending
<1> QED
  BY <1>1, <1>2, <1>3, <1>4, <1>5 DEF RInv

----------------------------------------------------------------------------
(* The steps of a refund. *)

(* The order a refund thread works on, as its transaction sees it.          *)
LEMMA OrderReviewed ==
  ASSUME RInv, NEW r \in Reviewers, rpc[r] # "idle"
  PROVE  /\ rjob[r] \in RefundJob
         /\ rjob[r].order \in OrderId
         /\ orders[rjob[r].order].status # "NONE"
         /\ Copy(r) \in OrderRow
         /\ CopyOk(rjob[r].order, Copy(r), orders, ledger)
         /\ CopyOk(rjob[r].order, rjob[r].copy, orders, ledger)
<1>1. /\ rjob[r] \in RefundJob /\ rjob[r].copy \in OrderRow
      /\ orders \in [OrderId -> OrderRow]
  BY DEF RInv, RefundTypes, RefundJob, StepInv, IInv, TypeOK
<1>2. ReviewOk(rpc[r], rjob[r], orders, ledger)
  BY DEF RInv, Reviews
<1>3. rjob[r].order \in OrderId /\ orders[rjob[r].order].status # "NONE"
  BY <1>2 DEF ReviewOk
<1>4. CopyOk(rjob[r].order, rjob[r].copy, orders, ledger)
  BY <1>2 DEF ReviewOk
<1>5. CopyOk(rjob[r].order, orders[rjob[r].order], orders, ledger)
  BY <1>3 DEF CopyOk, RInv, RefundsAreSettled, StepInv, IInv, Rows, DoneIsPaid, Settled
<1> QED
  BY <1>1, <1>3, <1>4, <1>5 DEF Copy

(* A settled order is written, with its kind and as settled as it was.      *)
LEMMA RowReviewed ==
  ASSUME StepInv, NEW o \in OrderId, orders[o].status # "NONE",
         NEW row \in OrderRow, row.kind = orders[o].kind, row.status \in Settled,
         ledger[o] \in Settled, LateDeclines \/ orders[o].status \in Settled,
         orders' = [orders EXCEPT ![o] = row],
         periods' \in [OrderId -> PeriodRow],
         \A p \in OrderId : periods'[p].state = "NONE" <=> periods[p].state = "NONE",
         sub' \in SubRow, sub.exists => sub'.exists,
         UNCHANGED <<now, ledger, inflight, pc, job, cache>>
  PROVE  StepInv' /\ Evolves
<1>0. TypeOK /\ Threads /\ Rows /\ FreshCopies /\ Posts
  BY DEF StepInv, IInv
<1>1. orders' \in [OrderId -> OrderRow]
  BY <1>0 DEF TypeOK
<1>2. orders'[o] = row /\ \A p \in OrderId \ {o} : orders'[p] = orders[p]
  BY <1>0 DEF TypeOK
<1>3. Evolves
  BY <1>2 DEF Evolves, RowsEvolve, Settled
<1>4. TypeOK'
  BY <1>0, <1>1 DEF TypeOK
<1>5. Threads'
  BY <1>0, <1>3, ThreadsStay DEF Evolves
<1>6. PlacedPrefix'
  <2>1. Placed' = Placed
    BY <1>2 DEF Placed, Settled
  <2> QED
    BY <1>0, <2>1 DEF Rows, PlacedPrefix
<1>7. SinglePending'
  <2>1. Pending' \subseteq Pending
    BY <1>2 DEF Pending, Settled
  <2> QED
    BY <1>0, <2>1 DEF Rows, SinglePending
<1>8. DoneIsPaid'
  BY <1>0, <1>2 DEF Rows, DoneIsPaid, Settled
<1>9. Settlement'
  <2>1. CASE LateDeclines
    BY <2>1 DEF Settlement
  <2>2. CASE ~LateDeclines
    <3>1. GrantedIsPaid /\ FailedIsDeclined
      BY <1>0, <2>2 DEF Rows, Settlement
    <3>2. GrantedIsPaid'
      BY <1>2, <2>2, <3>1 DEF GrantedIsPaid, Settled
    <3>3. FailedIsDeclined'
      BY <1>2, <3>1 DEF FailedIsDeclined, Settled
    <3> QED
      BY <3>2, <3>3 DEF Settlement
  <2> QED
    BY <2>1, <2>2
<1>10. FreshCopies' /\ Posts'
  BY <1>0 DEF FreshCopies, Posts
<1> QED
  BY <1>3, <1>4, <1>5, <1>6, <1>7, <1>8, <1>9, <1>10 DEF StepInv, IInv, Rows

LEMMA RefundMethods ==
  ASSUME NEW a \in OrderRow
  PROVE  /\ RequestRefund(a) \in OrderRow /\ RequestRefund(a).refund = "REQUESTED"
         /\ RequestRefund(a).kind = a.kind /\ RequestRefund(a).status = a.status
         /\ RequestRefund(a).end = a.end
         /\ ApproveRefund(a) \in OrderRow /\ ApproveRefund(a).refund = "PENDING"
         /\ ApproveRefund(a).kind = a.kind /\ ApproveRefund(a).status = a.status
         /\ ApproveRefund(a).end = a.end
         /\ RejectRefund(a) \in OrderRow /\ RejectRefund(a).refund = "REJECTED"
         /\ RejectRefund(a).kind = a.kind /\ RejectRefund(a).status = a.status
         /\ RejectRefund(a).end = a.end
         /\ CompleteRefund(a) \in OrderRow /\ CompleteRefund(a).refund = "DONE"
         /\ CompleteRefund(a).kind = a.kind /\ CompleteRefund(a).status = "CANCELED"
         /\ CompleteRefund(a).end = a.end
BY DEF OrderRow, RequestRefund, ApproveRefund, RejectRefund, CompleteRefund

(* What the transactions of a refund write into the rows.                   *)
RequestWrites(r) ==
  /\ rpc[r] = "request" /\ Refundable(rjob[r].copy)
  /\ orders' = [orders EXCEPT ![rjob[r].order] = RequestRefund(rjob[r].copy)]
  /\ sub' = StopRenewal(sub) /\ UNCHANGED periods

ApproveWrites(r) ==
  /\ rpc[r] = "approve" /\ ~MemberLocked /\ MayApprove(r)
  /\ orders' = [orders EXCEPT ![rjob[r].order] = ApproveRefund(Copy(r))]
  /\ UNCHANGED <<sub, periods>>

RejectWrites(r) ==
  /\ rpc[r] = "reject" /\ ~MemberLocked /\ MayReject(Copy(r))
  /\ orders' = [orders EXCEPT ![rjob[r].order] = RejectRefund(Copy(r))]
  /\ UNCHANGED <<sub, periods>>

Forgets(r) ==
  LET s == ForgetTerm(StopRenewal(SubCopy(r)), Copy(r).end)
  IN  sub' = IF s = SubCopy(r) THEN sub ELSE s

CompleteWrites(r) ==
  /\ rpc[r] = "complete" /\ ~MemberLocked
  /\ Copy(r).refund = "PENDING" /\ periods[rjob[r].order].state # "NONE"
  /\ orders' = [orders EXCEPT ![rjob[r].order] = CompleteRefund(Copy(r))]
  /\ periods' = [periods EXCEPT ![rjob[r].order] = Revoke(@)]
  /\ Forgets(r)

RefundWrites(r) ==
  /\ RequestWrites(r) \/ ApproveWrites(r) \/ RejectWrites(r) \/ CompleteWrites(r)
  /\ UNCHANGED <<now, ledger, inflight, pc, job, cache>>

LEMMA ReviewWrites ==
  ASSUME NEW r \in Reviewers, Reviewing(r)
  PROVE  UNCHANGED vars \/ RefundWrites(r)
<1>1. ASSUME NEW o \in OrderId,
             \/ RequestRead(r, o) \/ ReadOrder(r, o, "approve") \/ ReadOrder(r, o, "reject")
             \/ ReconcileRefund(r, o)
      PROVE  UNCHANGED vars
  BY <1>1 DEF RequestRead, ReadOrder, ReconcileRefund
<1>2. CASE \/ LookupCanceled(r) \/ LookupPaidInFull(r) \/ SendCancel(r) \/ CancelAnswered(r)
           \/ RAbandon(r)
  BY <1>2 DEF LookupCanceled, LookupPaidInFull, SendCancel, CancelAnswered, RAbandon
<1>3. CASE RequestCommit(r)
  BY <1>3 DEF RequestCommit, Update, RequestWrites, RefundWrites, vars, dbVars, providerVars
<1>4. CASE ApproveCommit(r)
  BY <1>4 DEF ApproveCommit, Update, ApproveWrites, RefundWrites, vars, dbVars, providerVars
<1>5. CASE RejectCommit(r)
  BY <1>5 DEF RejectCommit, Update, RejectWrites, RefundWrites, vars, dbVars, providerVars
<1>6. CASE CompleteCommit(r)
  <2>1. CASE Copy(r).refund = "PENDING" /\ periods[rjob[r].order].state # "NONE"
    BY <1>6, <2>1 DEF CompleteCommit, Update, CompleteWrites, RefundWrites, Forgets,
                      providerVars
  <2>2. CASE ~(Copy(r).refund = "PENDING" /\ periods[rjob[r].order].state # "NONE")
    BY <1>6, <2>2 DEF CompleteCommit, vars, dbVars, providerVars
  <2> QED
    BY <2>1, <2>2
<1> QED
  BY <1>1, <1>2, <1>3, <1>4, <1>5, <1>6 DEF Reviewing

(* The member's row, after a refund is requested or completed.              *)
LEMMA RefundKeepsSub ==
  ASSUME RInv, NEW r \in Reviewers, rpc[r] # "idle",
         sub' = sub \/ sub' = StopRenewal(sub) \/ Forgets(r)
  PROVE  sub' \in SubRow /\ (sub.exists => sub'.exists)
<1>1. sub \in SubRow /\ SubCopy(r) \in SubRow /\ (sub.exists => SubCopy(r).exists)
  BY DEF SubCopy, RInv, RefundTypes, RefundJob, StepInv, IInv, TypeOK
<1>2. \A s \in SubRow : /\ StopRenewal(s) \in SubRow
                        /\ StopRenewal(s).exists = s.exists
                        /\ \A e : /\ ForgetTerm(s, e) \in SubRow
                                  /\ ForgetTerm(s, e).exists = s.exists
  BY DEF SubRow, StopRenewal, ForgetTerm, PaidUntil
<1>3. CASE Forgets(r)
  <2> DEFINE s == ForgetTerm(StopRenewal(SubCopy(r)), Copy(r).end)
  <2>1. s \in SubRow /\ s.exists = SubCopy(r).exists
    BY <1>1, <1>2
  <2>2. sub' = IF s = SubCopy(r) THEN sub ELSE s
    BY <1>3 DEF Forgets
  <2> HIDE DEF s
  <2> QED
    BY <1>1, <2>1, <2>2
<1> QED
  BY <1>1, <1>2, <1>3

LEMMA RefundKeepsRows ==
  ASSUME RInv, NEW r \in Reviewers, RefundWrites(r)
  PROVE  /\ StepInv' /\ Evolves /\ RefundsAreSettled'
         /\ CancelPending' => CancelPending \/ ai = "free"
         /\ \A p \in OrderId : orders[p].status = "NONE" => orders'[p] = orders[p]
<1> DEFINE o == rjob[r].order
<1>0. rpc[r] # "idle"
  BY DEF RefundWrites, RequestWrites, ApproveWrites, RejectWrites, CompleteWrites
<1>1. /\ o \in OrderId /\ orders[o].status # "NONE"
      /\ Copy(r) \in OrderRow /\ CopyOk(o, Copy(r), orders, ledger)
      /\ rjob[r].copy \in OrderRow /\ CopyOk(o, rjob[r].copy, orders, ledger)
  BY <1>0, OrderReviewed DEF RefundJob
<1>2. /\ orders \in [OrderId -> OrderRow] /\ periods \in [OrderId -> PeriodRow]
      /\ StepInv
  BY DEF RInv, StepInv, IInv, TypeOK
<1> HIDE DEF o
<1>3. PICK row \in OrderRow :
        /\ row.kind = orders[o].kind /\ row.status \in Settled
        /\ ledger[o] \in Settled /\ (LateDeclines \/ orders[o].status \in Settled)
        /\ row.refund = "PENDING" => ai = "free"
        /\ orders' = [orders EXCEPT ![o] = row]
  <2>1. CASE RequestWrites(r)
    <3>1. rjob[r].copy.status = "DONE"
      BY <2>1 DEF RequestWrites, Refundable
    <3> DEFINE row == RequestRefund(rjob[r].copy)
    <3>2. /\ row \in OrderRow /\ row.kind = orders[o].kind /\ row.status \in Settled
          /\ row.refund = "PENDING" => ai = "free"
      BY <1>1, <3>1, RefundMethods DEF CopyOk, Settled
    <3>3. ledger[o] \in Settled /\ (LateDeclines \/ orders[o].status \in Settled)
      BY <1>1, <3>1 DEF CopyOk, Settled
    <3>4. orders' = [orders EXCEPT ![o] = row]
      BY <2>1 DEF RequestWrites, o
    <3> HIDE DEF row
    <3> QED
      BY <3>2, <3>3, <3>4
  <2>2. CASE ApproveWrites(r)
    <3>1. Copy(r).refund # "NONE" /\ ai = "free"
      BY <2>2 DEF ApproveWrites, MayApprove, NoAiRequest
    <3> DEFINE row == ApproveRefund(Copy(r))
    <3>2. /\ row \in OrderRow /\ row.kind = orders[o].kind /\ row.status \in Settled
          /\ row.refund = "PENDING" => ai = "free"
      BY <1>1, <3>1, RefundMethods DEF CopyOk
    <3>3. ledger[o] \in Settled /\ (LateDeclines \/ orders[o].status \in Settled)
      BY <1>1, <3>1 DEF CopyOk
    <3>4. orders' = [orders EXCEPT ![o] = row]
      BY <2>2 DEF ApproveWrites, o
    <3> HIDE DEF row
    <3> QED
      BY <3>2, <3>3, <3>4
  <2>3. CASE RejectWrites(r)
    <3>1. Copy(r).refund # "NONE"
      BY <2>3 DEF RejectWrites, MayReject
    <3> DEFINE row == RejectRefund(Copy(r))
    <3>2. /\ row \in OrderRow /\ row.kind = orders[o].kind /\ row.status \in Settled
          /\ row.refund = "PENDING" => ai = "free"
      BY <1>1, <3>1, RefundMethods DEF CopyOk
    <3>3. ledger[o] \in Settled /\ (LateDeclines \/ orders[o].status \in Settled)
      BY <1>1, <3>1 DEF CopyOk
    <3>4. orders' = [orders EXCEPT ![o] = row]
      BY <2>3 DEF RejectWrites, o
    <3> HIDE DEF row
    <3> QED
      BY <3>2, <3>3, <3>4
  <2>4. CASE CompleteWrites(r)
    <3>1. Copy(r).refund # "NONE"
      BY <2>4 DEF CompleteWrites
    <3> DEFINE row == CompleteRefund(Copy(r))
    <3>2. /\ row \in OrderRow /\ row.kind = orders[o].kind /\ row.status \in Settled
          /\ row.refund = "PENDING" => ai = "free"
      BY <1>1, <3>1, RefundMethods DEF CopyOk, Settled
    <3>3. ledger[o] \in Settled /\ (LateDeclines \/ orders[o].status \in Settled)
      BY <1>1, <3>1 DEF CopyOk
    <3>4. orders' = [orders EXCEPT ![o] = row]
      BY <2>4 DEF CompleteWrites, o
    <3> HIDE DEF row
    <3> QED
      BY <3>2, <3>3, <3>4
  <2> QED
    BY <2>1, <2>2, <2>3, <2>4 DEF RefundWrites
<1>4. /\ periods' \in [OrderId -> PeriodRow]
      /\ \A p \in OrderId : periods'[p].state = "NONE" <=> periods[p].state = "NONE"
  <2>1. CASE UNCHANGED periods
    BY <1>2, <2>1
  <2>2. CASE CompleteWrites(r)
    <3>1. Revoke(periods[o]) \in PeriodRow /\ Revoke(periods[o]).state = "REVOKED"
      BY <1>1, <1>2 DEF PeriodRow, Revoke
    <3>2. periods' = [periods EXCEPT ![o] = Revoke(periods[o])] /\ periods[o].state # "NONE"
      BY <2>2 DEF CompleteWrites, o
    <3> QED
      BY <1>1, <1>2, <3>1, <3>2
  <2> QED
    BY <2>1, <2>2 DEF RefundWrites, RequestWrites, ApproveWrites, RejectWrites
<1>5. sub' \in SubRow /\ (sub.exists => sub'.exists)
  BY <1>0, RefundKeepsSub
  DEF RefundWrites, RequestWrites, ApproveWrites, RejectWrites, CompleteWrites
<1>6. UNCHANGED <<now, ledger, inflight, pc, job, cache>>
  BY DEF RefundWrites
<1>7. StepInv' /\ Evolves
  BY <1>1, <1>2, <1>3, <1>4, <1>5, <1>6, RowReviewed
<1>8. orders'[o] = row /\ \A p \in OrderId \ {o} : orders'[p] = orders[p]
  BY <1>1, <1>2, <1>3
<1>9. RefundsAreSettled'
  BY <1>3, <1>6, <1>8 DEF RInv, RefundsAreSettled
<1>10. CancelPending' => CancelPending \/ ai = "free"
  BY <1>3, <1>8 DEF CancelPending
<1> QED
  BY <1>1, <1>7, <1>8, <1>9, <1>10

(* Where a refund thread goes, and what it knows there. *)
LEMMA LoadsKnow ==
  ASSUME RInv, NEW o \in OrderId, orders[o].status # "NONE"
  PROVE  /\ Load(o) \in RefundJob
         /\ \A l \in {"request", "approve", "reject", "check"} :
              ReviewOk(l, Load(o), orders, ledger)
<1>1. orders[o] \in OrderRow
  BY DEF RInv, StepInv, IInv, TypeOK
<1>2. Load(o) \in RefundJob /\ Load(o).order = o /\ Load(o).copy = orders[o]
  BY <1>1, EmptyRows DEF Load, NoRefundJob, RefundJob
<1>3. CopyOk(o, orders[o], orders, ledger)
  BY DEF CopyOk, RInv, RefundsAreSettled, StepInv, IInv, Rows, DoneIsPaid, Settled
<1> QED
  BY <1>2, <1>3 DEF ReviewOk

LEMMA ReviewThreads ==
  ASSUME RInv, Evolves, NEW r \in Reviewers, Reviewing(r)
  PROVE  /\ rpc' \in [Reviewers -> ReviewLabels] /\ rjob' \in [Reviewers -> RefundJob]
         /\ Reviews'
<1> DEFINE Goal == /\ rpc' \in [Reviewers -> ReviewLabels]
                   /\ rjob' \in [Reviewers -> RefundJob] /\ Reviews'
           j == rjob[r]
<1>0. RefundTypes /\ Reviews
  BY DEF RInv
<1>1. ASSUME RFinish(r) PROVE Goal
  BY <1>0, <1>1, ReviewerFinishes
<1>2. ASSUME NEW l \in ReviewLabels, NEW k \in RefundJob, RGoto(r, l, k),
             ReviewOk(l, k, orders, ledger)
      PROVE  Goal
  BY <1>0, <1>2, ReviewerMoves, ReviewStays
<1>3. ASSUME rpc[r] # "idle"
      PROVE  j \in RefundJob /\ ReviewOk(rpc[r], j, orders, ledger)
  BY <1>0, <1>3 DEF RefundTypes, Reviews
<1> SUFFICES Goal
  BY DEF Goal
<1> HIDE DEF Goal, j
<1>4. ASSUME NEW o \in OrderId,
             \/ RequestRead(r, o) \/ ReadOrder(r, o, "approve") \/ ReadOrder(r, o, "reject")
             \/ ReconcileRefund(r, o)
      PROVE  Goal
  <2>1. orders[o].status # "NONE"
    BY <1>4 DEF RequestRead, ReadOrder, ReconcileRefund, RInv, RefundsAreSettled, Settled
  <2>2. PICK l \in {"request", "approve", "reject", "check"} : RGoto(r, l, Load(o))
    BY <1>4 DEF RequestRead, ReadOrder, ReconcileRefund
  <2> QED
    BY <1>2, <2>1, <2>2, LoadsKnow DEF ReviewLabels
<1>5. CASE LookupCanceled(r) \/ CancelAnswered(r)
  <2>1. rpc[r] # "idle" /\ ledger[j.order] = "CANCELED" /\ RGoto(r, "complete", j)
    BY <1>5 DEF LookupCanceled, CancelAnswered, CancelConfirmed, j
  <2>2. ReviewOk("complete", j, orders, ledger)
    BY <1>3, <2>1 DEF ReviewOk
  <2> QED
    BY <1>2, <1>3, <2>1, <2>2 DEF ReviewLabels
<1>6. CASE LookupPaidInFull(r)
  <2>1. rpc[r] # "idle" /\ ledger[j.order] = "DONE" /\ RGoto(r, "cancel", j)
    BY <1>6 DEF LookupPaidInFull, j
  <2>2. ReviewOk("cancel", j, orders, ledger)
    BY <1>3, <2>1 DEF ReviewOk, Settled
  <2> QED
    BY <1>2, <1>3, <2>1, <2>2 DEF ReviewLabels
<1>7. CASE SendCancel(r)
  <2>1. rpc[r] # "idle" /\ RGoto(r, "await", j)
    BY <1>7 DEF SendCancel, j
  <2>2. ReviewOk("await", j, orders, ledger)
    BY <1>3, <2>1 DEF ReviewOk
  <2> QED
    BY <1>2, <1>3, <2>1, <2>2 DEF ReviewLabels
<1>8. CASE RAbandon(r) \/ RequestCommit(r) \/ RejectCommit(r) \/ CompleteCommit(r)
  BY <1>1, <1>8 DEF RAbandon, RequestCommit, RejectCommit, CompleteCommit
<1>9. CASE ApproveCommit(r) /\ ~MayApprove(r)
  BY <1>1, <1>9 DEF ApproveCommit
<1>10. CASE ApproveCommit(r) /\ MayApprove(r)
  <2> DEFINE row == ApproveRefund(Copy(r))
             k == [j EXCEPT !.copy = row, !.sub = sub]
  <2>1. rpc[r] # "idle" /\ RGoto(r, "lookup", k)
    BY <1>10 DEF ApproveCommit, j
  <2>2. Copy(r) \in OrderRow /\ CopyOk(j.order, Copy(r), orders, ledger)
        /\ j \in RefundJob /\ j.order \in OrderId /\ orders[j.order].status # "NONE"
    BY <2>1, OrderReviewed DEF j
  <2>3. Copy(r).refund # "NONE"
    BY <1>10 DEF MayApprove
  <2>4. row \in OrderRow /\ CopyOk(j.order, row, orders, ledger)
    BY <2>2, <2>3, RefundMethods DEF CopyOk
  <2>5. sub \in SubRow
    BY DEF RInv, StepInv, IInv, TypeOK
  <2> HIDE DEF row
  <2>6. k \in RefundJob /\ k.order = j.order /\ k.copy = row
    BY <2>2, <2>4, <2>5 DEF RefundJob
  <2> HIDE DEF k
  <2>7. ReviewOk("lookup", k, orders, ledger)
    BY <2>2, <2>4, <2>6 DEF ReviewOk
  <2> QED
    BY <1>2, <2>1, <2>6, <2>7 DEF ReviewLabels
<1> QED
  BY <1>4, <1>5, <1>6, <1>7, <1>8, <1>9, <1>10 DEF Reviewing, Goal

(* Cancel calls are made for orders whose payment was found complete.       *)
LEMMA CancelsAreSent ==
  ASSUME RInv, NEW r \in Reviewers, Reviewing(r)
  PROVE  /\ UNCHANGED ai
         /\ cancels' = cancels \/ SendCancel(r)
         /\ cancels' \subseteq OrderId /\ CancelsArePaid'
<1>0. cancels \subseteq OrderId /\ CancelsArePaid
  BY DEF RInv, RefundTypes
<1>1. ASSUME ~SendCancel(r) PROVE UNCHANGED <<cancels, ledger, ai>>
  BY <1>1 DEF Reviewing, RequestRead, ReadOrder, ReconcileRefund, RequestCommit, ApproveCommit,
              RejectCommit, LookupCanceled, LookupPaidInFull, CancelAnswered, CompleteCommit,
              RAbandon, vars, providerVars
<1>2. CASE SendCancel(r)
  <2>1. rpc[r] = "cancel" /\ cancels' = cancels \cup {rjob[r].order} /\ UNCHANGED <<ledger, ai>>
    BY <1>2 DEF SendCancel, vars, providerVars
  <2>2. rjob[r].order \in OrderId /\ ledger[rjob[r].order] \in Settled
    BY <2>1 DEF RInv, Reviews, ReviewOk
  <2> QED
    BY <1>0, <1>2, <2>1, <2>2 DEF CancelsArePaid
<1> QED
  BY <1>0, <1>1, <1>2 DEF CancelsArePaid

LEMMA ReviewKeepsRInv ==
  ASSUME RInv, NEW r \in Reviewers, Reviewing(r)
  PROVE  RInv'
<1>1. /\ StepInv' /\ Evolves /\ RefundsAreSettled'
      /\ CancelPending' => CancelPending \/ ai = "free"
  <2>1. CASE UNCHANGED vars
    <3>1. StepInv' /\ Evolves
      BY <2>1, NextStepInv, NextEvolves DEF RInv
    <3>2. RefundsAreSettled' /\ (CancelPending' => CancelPending)
      BY <2>1 DEF RInv, RefundsAreSettled, CancelPending, vars, dbVars
    <3> QED
      BY <3>1, <3>2
  <2>2. CASE RefundWrites(r)
    BY <2>2, RefundKeepsRows
  <2> QED
    BY <2>1, <2>2, ReviewWrites
<1>2. RefundTypes' /\ Reviews'
  BY <1>1, ReviewThreads, CancelsAreSent DEF RefundTypes, RInv
<1>3. CancelsArePaid' /\ UNCHANGED ai
  BY CancelsAreSent
<1>4. NoUseWhileCanceling'
  BY <1>1, <1>3 DEF RInv, NoUseWhileCanceling
<1> QED
  BY <1>1, <1>2, <1>3, <1>4 DEF RInv

(* The provider returns the money of a payment it took. *)
LEMMA ReturnKeepsRInv ==
  ASSUME RInv, NEW o \in OrderId, ProviderCancels(o)
  PROVE  RInv' /\ Evolves
<1>0. /\ TypeOK /\ Threads /\ Rows /\ FreshCopies /\ Posts /\ RefundTypes /\ Reviews
      /\ RefundsAreSettled /\ CancelsArePaid /\ NoUseWhileCanceling
  BY DEF RInv, StepInv, IInv
<1>1. /\ o \in cancels /\ cancels' = cancels \ {o}
      /\ ledger' = [ledger EXCEPT ![o] = "CANCELED"]
      /\ UNCHANGED <<now, sub, orders, periods, inflight, pc, job, cache, rpc, rjob, ai>>
  BY DEF ProviderCancels, dbVars
<1>2. ledger'[o] = "CANCELED" /\ \A p \in OrderId \ {o} : ledger'[p] = ledger[p]
  BY <1>0, <1>1 DEF TypeOK
<1>3. ledger[o] \in Settled
  BY <1>0, <1>1 DEF CancelsArePaid
<1>4. Evolves
  BY <1>1, <1>2, <1>3 DEF Evolves, RowsEvolve, Settled
<1>5. TypeOK'
  BY <1>0, <1>1 DEF TypeOK
<1>6. Threads'
  BY <1>0, <1>1, <1>4, ThreadsStay DEF Evolves
<1>7. PlacedPrefix' /\ SinglePending' /\ DoneIsPaid'
  BY <1>0, <1>1, <1>2 DEF Rows, PlacedPrefix, Placed, SinglePending, Pending, DoneIsPaid
<1>8. Settlement'
  BY <1>0, <1>1, <1>2, <1>3 DEF Rows, Settlement, GrantedIsPaid, FailedIsDeclined, Settled
<1>9. FreshCopies' /\ Posts' /\ RefundTypes' /\ RefundsAreSettled' /\ NoUseWhileCanceling'
  BY <1>0, <1>1 DEF FreshCopies, Posts, RefundTypes, RefundsAreSettled, NoUseWhileCanceling,
                    CancelPending
<1>10. Reviews'
  BY <1>0, <1>1, <1>4, ReviewsStay
<1>11. CancelsArePaid'
  BY <1>0, <1>1, <1>2 DEF CancelsArePaid, RefundTypes
<1> QED
  BY <1>4, <1>5, <1>6, <1>7, <1>8, <1>9, <1>10, <1>11 DEF RInv, StepInv, IInv, Rows

LEMMA LeaseKeepsRInv ==
  ASSUME RInv, AiStart \/ \E outcome \in {"free", "abandoned"} : AiEnd(outcome)
  PROVE  RInv'
<1>0. /\ StepInv /\ RefundTypes /\ Reviews /\ RefundsAreSettled /\ CancelsArePaid
  BY DEF RInv
<1>1. UNCHANGED <<vars, rpc, rjob, cancels>> /\ ai' \in {"free", "busy", "abandoned"}
      /\ (ai' = "busy" => ~CancelPending)
  BY DEF AiStart, AiEnd
<1>2. StepInv' /\ Evolves
  BY <1>0, <1>1, NextStepInv, NextEvolves
<1>3. Reviews'
  BY <1>0, <1>1, <1>2, ReviewsStay
<1>4. RefundTypes' /\ RefundsAreSettled' /\ CancelsArePaid' /\ NoUseWhileCanceling'
  BY <1>0, <1>1 DEF RefundTypes, RefundsAreSettled, CancelsArePaid, NoUseWhileCanceling,
                    CancelPending, vars, dbVars, providerVars
<1> QED
  BY <1>2, <1>3, <1>4 DEF RInv

LEMMA InitRInv == RInit => RInv
<1> SUFFICES ASSUME RInit PROVE RInv
  OBVIOUS
<1>1. StepInv
  BY InitStepInv DEF RInit
<1>2. RefundTypes
  BY EmptyRefundJob DEF RInit, RefundTypes, ReviewLabels
<1>3. Reviews
  BY DEF RInit, Reviews, ReviewOk
<1>4. RefundsAreSettled
  <2>1. NoOrder.refund = "NONE" /\ NoCache.order = NoOrder
    BY DEF NoOrder, NoCache
  <2> QED
    BY <2>1 DEF RInit, Init, RefundsAreSettled
<1>5. CancelsArePaid /\ NoUseWhileCanceling
  BY DEF RInit, CancelsArePaid, NoUseWhileCanceling
<1> QED
  BY <1>1, <1>2, <1>3, <1>4, <1>5 DEF RInv

LEMMA NextRInv == RInv /\ [RNext]_allVars => RInv'
<1> SUFFICES ASSUME RInv, [RNext]_allVars PROVE RInv'
  OBVIOUS
<1>1. CASE (Next /\ UNCHANGED refundVars) \/ UNCHANGED allVars
  <2>1. [Next]_vars /\ UNCHANGED refundVars
    BY <1>1 DEF allVars
  <2> QED
    BY <2>1, ChargesKeepRInv
<1> QED
  BY <1>1, ReviewKeepsRInv, ReturnKeepsRInv, LeaseKeepsRInv DEF RNext

LEMMA SpecKeepsRInv == RSpec => []RInv
BY InitRInv, NextRInv, PTL DEF RSpec

(* Rows, locals and loaded copies keep their types beside refunds too.      *)
THEOREM RefundTypesHold == RSpec => [](TypeOK /\ RefundTypes)
<1>1. RInv => TypeOK /\ RefundTypes
  BY DEF RInv, StepInv, IInv
<1> QED
  BY <1>1, SpecKeepsRInv, PTL

(* No AI request runs while money is on its way back, however many admins   *)
(* approve, and whatever copies of the order they hold: the lease is looked *)
(* at under the lock that a request needs to start.                         *)
THEOREM NoUseDuringRefund == RSpec => []NoUseWhileCanceling
<1>1. RInv => NoUseWhileCanceling
  BY DEF RInv
<1> QED
  BY <1>1, SpecKeepsRInv, PTL

(* No charge, poll, retry or upgrade places an order while a refund of the  *)
(* member is requested or approved, with any number of them under way.      *)
THEOREM NoOrderUnderReview == RSpec => NoOrderDuringReview
<1> DEFINE Kept ==
      OpenRefund => \A o \in OrderId : orders[o].status = "NONE" => orders'[o].status = "NONE"
<1>1. ASSUME RInv, [RNext]_allVars, NEW o \in OrderId, OpenRefund, orders[o].status = "NONE"
      PROVE  orders'[o].status = "NONE"
  <2>1. CASE Next \/ UNCHANGED allVars
    <3>1. [Next]_vars
      BY <2>1 DEF allVars
    <3> QED
      BY <1>1, <3>1, OrderMoves DEF RInv, StepInv
  <2>2. ASSUME NEW r \in Reviewers, Reviewing(r) PROVE orders'[o].status = "NONE"
    BY <1>1, <2>2, ReviewWrites, RefundKeepsRows DEF vars, dbVars
  <2>3. CASE \/ \E p \in OrderId : ProviderCancels(p)
             \/ AiStart \/ \E outcome \in {"free", "abandoned"} : AiEnd(outcome)
    BY <1>1, <2>3 DEF ProviderCancels, AiStart, AiEnd, vars, dbVars
  <2> QED
    BY <1>1, <2>1, <2>2, <2>3 DEF RNext
<1>2. RInv /\ [RNext]_allVars => [Kept]_allVars
  BY <1>1
<1> QED
  BY <1>2, SpecKeepsRInv, PTL DEF RSpec, NoOrderDuringReview

(* The promises of Billing on orders and paid periods survive refunds: one  *)
(* order of open outcome, and a period for what was paid, revoked or not.   *)
THEOREM ChargesSurviveRefunds ==
  RSpec => [](AtMostOnePending /\ (LateDeclines \/ (GrantedIsPaid /\ FailedIsUnpaid)))
<1>1. RInv => AtMostOnePending
  BY OneOpenIsCounted DEF RInv, StepInv, IInv, Rows
<1>2. RInv => LateDeclines \/ (GrantedIsPaid /\ FailedIsUnpaid)
  BY DEF RInv, StepInv, IInv, Rows, Settlement, FailedIsDeclined, FailedIsUnpaid
<1> QED
  BY <1>1, <1>2, SpecKeepsRInv, PTL

----------------------------------------------------------------------------
(* Where each transaction writes by copies of the rows as they are.         *)

(* The order and the subscription of a refund transaction are as it sees    *)
(* them.  With a session per transaction they always are.                   *)
CurrentReview(r) == Copy(r) = orders[rjob[r].order]
ReviewsAreCurrent ==
  dbVars' # dbVars => \A r \in Reviewers : rpc'[r] # rpc[r] => CurrentReview(r)
ReviewSubsAreCurrent ==
  dbVars' # dbVars => \A r \in Reviewers : rpc'[r] # rpc[r] => SubCopy(r) = sub

(* Labels between the approval of a refund and its end. *)
PayingLabels == {"lookup", "check", "cancel", "await", "complete"}

(* A request has the member's row locked, so it is alone, and the order it  *)
(* read is still what it was; what has been approved is not taken back, and *)
(* whoever has read an approval may rely on it.                             *)
OneAsks == \A r, q \in Reviewers : rpc[r] = "request" /\ rpc[q] = "request" => r = q
AskedCopy ==
  \A r \in Reviewers : rpc[r] = "request" /\ Refundable(rjob[r].copy)
                         => orders[rjob[r].order] = rjob[r].copy
ApprovedStays ==
  \A r \in Reviewers :
    rpc[r] \in PayingLabels => orders[rjob[r].order].refund \in {"PENDING", "DONE"}
GrantsArePlaced ==
  \A o \in OrderId : periods[o].state # "NONE" => orders[o].status # "NONE"

CopiesKnow ==
  \A r \in Reviewers :
    rpc[r] # "idle" /\ rjob[r].copy.refund \in {"PENDING", "DONE"}
      => orders[rjob[r].order].refund \in {"PENDING", "DONE"}

ReviewsInOrder == OneAsks /\ AskedCopy /\ ApprovedStays /\ CopiesKnow
RowsInOrder == GrantsArePlaced /\ RefundIsReal /\ ReturnedIsApproved

PInv == RInv /\ ReviewsInOrder /\ RowsInOrder

(* One order and its period, in a step of Billing.                          *)
LEMMA RowMoves ==
  ASSUME OrdersAreCurrent, RInv, [Next]_vars, NEW o \in OrderId
  PROVE  \/ orders'[o] = orders[o] /\ periods'[o].state = periods[o].state
         \/ /\ orders[o].status = "NONE" /\ orders'[o].status = "PENDING"
            /\ orders'[o].refund = "NONE" /\ periods'[o].state = periods[o].state
         \/ /\ orders[o].status = "PENDING" /\ orders'[o].status \in {"DONE", "FAILED"}
            /\ orders'[o].refund = orders[o].refund /\ orders'[o].end = orders[o].end
            /\ \/ periods'[o].state = periods[o].state
               \/ periods[o].state = "NONE" /\ periods'[o].state = "GRANTED"
<1> DEFINE Goal ==
         \/ orders'[o] = orders[o] /\ periods'[o].state = periods[o].state
         \/ /\ orders[o].status = "NONE" /\ orders'[o].status = "PENDING"
            /\ orders'[o].refund = "NONE" /\ periods'[o].state = periods[o].state
         \/ /\ orders[o].status = "PENDING" /\ orders'[o].status \in {"DONE", "FAILED"}
            /\ orders'[o].refund = orders[o].refund /\ orders'[o].end = orders[o].end
            /\ \/ periods'[o].state = periods[o].state
               \/ periods[o].state = "NONE" /\ periods'[o].state = "GRANTED"
<1> SUFFICES ASSUME dbVars' # dbVars PROVE Goal
  BY DEF dbVars
<1>0. /\ orders \in [OrderId -> OrderRow] /\ periods \in [OrderId -> PeriodRow]
      /\ IInv /\ TypeOK /\ FreshCopies
  BY DEF RInv, StepInv, IInv, TypeOK
<1>1. CASE Quiet
  BY <1>1 DEF Quiet
<1>2. ASSUME NEW row \in OrderRow, Places(row) PROVE Goal
  <2>1. NextOrder \in OrderId /\ orders[NextOrder].status = "NONE"
    BY <1>0, <1>2, NextOrderIsFree DEF Places, IInv, Rows
  <2> QED
    BY <1>0, <1>2, <2>1 DEF Places
<1>3. ASSUME NEW w \in Workers, Verdict(w) PROVE Goal
  <2> DEFINE p == job[w].order
             a == orders[p]
  <2>1. pc[w] \in OrderLabels /\ pc'[w] # pc[w]
    BY <1>3 DEF Verdict, SettlesRenewal, SettlesUpgrade, Fails, OrderLabels
  <2>2. p \in OrderId
    BY <1>0, <2>1, OrderInHand
  <2>3. SeenOrder(w, p) = a
    BY <2>1, WriterSees
  <2>4. SettlesRenewal(w, p, a) \/ SettlesUpgrade(w, p, a) \/ Fails(w, p, a)
    BY <1>3, <2>3 DEF Verdict
  <2>5. a \in OrderRow /\ a.status = "PENDING"
    BY <1>0, <2>2, <2>4 DEF SettlesRenewal, SettlesUpgrade, Fails
  <2> HIDE DEF p
  <2>6. /\ Settle(a).status = "DONE" /\ Settle(a).refund = a.refund /\ Settle(a).end = a.end
        /\ Fail(a).status = "FAILED" /\ Fail(a).refund = a.refund /\ Fail(a).end = a.end
    BY <2>5, OrderMethods, OrderColumns
  <2>7. orders' = [orders EXCEPT ![p] = Settle(a)] \/ orders' = [orders EXCEPT ![p] = Fail(a)]
    BY <2>4 DEF SettlesRenewal, SettlesUpgrade, Fails
  <2>8. \/ orders'[o] = orders[o] /\ o # p
        \/ /\ o = p /\ orders'[o].status \in {"DONE", "FAILED"}
           /\ orders'[o].refund = a.refund /\ orders'[o].end = a.end
    BY <1>0, <2>2, <2>6, <2>7
  <2>9. \/ periods'[o].state = periods[o].state
        \/ o = p /\ periods[o].state = "NONE" /\ periods'[o].state = "GRANTED"
    <3>1. CASE SettlesRenewal(w, p, a)
      <4>1. Grant(a).state = "GRANTED"
        BY DEF Grant
      <4> QED
        BY <1>0, <2>2, <3>1, <4>1 DEF SettlesRenewal
    <3>2. CASE SettlesUpgrade(w, p, a)
      <4>1. ActivePeriod \in OrderId
        BY <1>0, <3>2, ActivePeriodIsActive DEF SettlesUpgrade
      <4>2. Raise(periods[ActivePeriod], a.tier).state = periods[ActivePeriod].state
        BY <1>0, <4>1 DEF PeriodRow, Raise
      <4> QED
        BY <1>0, <3>2, <4>1, <4>2 DEF SettlesUpgrade
    <3>3. CASE Fails(w, p, a)
      BY <3>3 DEF Fails
    <3> QED
      BY <2>4, <3>1, <3>2, <3>3
  <2> QED
    BY <2>5, <2>8, <2>9
<1> QED
  BY <1>0, <1>1, <1>2, <1>3, StepWrites

LEMMA ClockRuns ==
  ASSUME TypeOK, [Next]_vars
  PROVE  now' \in Nat /\ now <= now'
<1>1. ASSUME NEW w \in Workers, Charging(w) PROVE now' = now
  BY <1>1 DEF Charging, SkipCharge, PrepareRetry, PrepareNew, LookupMissing, LookupPaid,
              LookupUnsettled, SendCharge, Approved, Declined, ConfirmCharge, DeclineCharge
<1>2. ASSUME NEW w \in Workers, Upgrading(w) PROVE now' = now
  BY <1>2 DEF Upgrading, UpgradeRetry, UpgradeNew, ReconcileUpgrade, ConfirmUpgrade,
              DeclineUpgrade
<1>3. ASSUME NEW w \in Workers, Requesting(w) \/ ChargeDue(w) \/ Abandon(w) PROVE now' = now
  BY <1>3 DEF Requesting, FirstSetup, SetupFind, SetupLock, Complete, Register, Retry,
              CancelRenewal, ChargeDue, Abandon
<1>4. Provider \/ UNCHANGED vars => now' = now
  BY DEF Provider, ProviderSettles, ProviderDrops, vars
<1>5. Tick => now' = now + 1
  BY DEF Tick
<1> QED
  BY <1>1, <1>2, <1>3, <1>4, <1>5 DEF Next, TypeOK

LEMMA ChargesKeepRows ==
  ASSUME OrdersAreCurrent, PInv, [Next]_vars, UNCHANGED refundVars
  PROVE  RowsInOrder'
<1>0. /\ GrantsArePlaced /\ RefundIsReal /\ ReturnedIsApproved
      /\ RInv /\ TypeOK /\ cancels' = cancels
  BY DEF PInv, RowsInOrder, RInv, StepInv, IInv, refundVars
<1>1. \A o \in OrderId : orders[o].status \in {"NONE", "PENDING"} => orders[o].refund = "NONE"
  BY <1>0 DEF RInv, RefundsAreSettled, Settled
<1>2. ASSUME NEW o \in OrderId
      PROVE  /\ periods'[o].state # "NONE" => orders'[o].status # "NONE"
             /\ (orders'[o].refund = "DONE") <=> (orders'[o].status = "CANCELED")
             /\ (orders'[o].refund = "DONE") <=> (periods'[o].state = "REVOKED")
             /\ orders[o].refund \in {"PENDING", "DONE"} => orders'[o].refund = orders[o].refund
             /\ orders'[o].refund = "DONE" => orders[o].refund = "DONE"
  <2>1. /\ periods[o].state # "NONE" => orders[o].status # "NONE"
        /\ (orders[o].refund = "DONE") <=> (orders[o].status = "CANCELED")
        /\ (orders[o].refund = "DONE") <=> (periods[o].state = "REVOKED")
    BY <1>0 DEF GrantsArePlaced, RefundIsReal
  <2> QED
    BY <1>0, <1>1, <2>1, RowMoves
<1>3. \A o \in OrderId : /\ ledger[o] = "CANCELED" => ledger'[o] = "CANCELED"
                         /\ ledger'[o] = "CANCELED" => ledger[o] = "CANCELED"
  BY <1>0, LedgerStays DEF RInv, StepInv
<1>4. GrantsArePlaced'
  BY <1>2 DEF GrantsArePlaced
<1>5. RefundIsReal'
  BY <1>0, <1>2, <1>3 DEF RefundIsReal
<1>6. ReturnedIsApproved'
  BY <1>0, <1>2, <1>3 DEF ReturnedIsApproved
<1> QED
  BY <1>4, <1>5, <1>6 DEF RowsInOrder

LEMMA ChargesKeepReviews ==
  ASSUME OrdersAreCurrent, PInv, [Next]_vars, UNCHANGED refundVars
  PROVE  ReviewsInOrder'
<1>0. /\ OneAsks /\ AskedCopy /\ ApprovedStays /\ CopiesKnow /\ RInv
      /\ UNCHANGED <<rpc, rjob>>
  BY DEF PInv, ReviewsInOrder, refundVars
<1>1. \A r \in Reviewers : rpc[r] # "idle" => rjob[r].order \in OrderId
  BY <1>0 DEF RInv, Reviews, ReviewOk
<1>2. ASSUME NEW o \in OrderId
      PROVE  /\ Refundable(orders[o]) => orders'[o] = orders[o]
             /\ orders[o].refund \in {"PENDING", "DONE"} => orders'[o].refund = orders[o].refund
  <2>1. orders[o].refund \in {"PENDING", "DONE"} => orders[o].status \in Settled
    BY <1>0 DEF RInv, RefundsAreSettled
  <2> QED
    BY <1>0, <2>1, RowMoves DEF Refundable, Settled
<1>3. OneAsks' /\ AskedCopy' /\ ApprovedStays' /\ CopiesKnow'
  BY <1>0, <1>1, <1>2 DEF OneAsks, AskedCopy, ApprovedStays, CopiesKnow, PayingLabels
<1> QED
  BY <1>3 DEF ReviewsInOrder

(* A refund that writes does so in a step of its own thread.                *)
LEMMA WritesMove ==
  ASSUME RefundTypes, NEW r \in Reviewers, Reviewing(r), RefundWrites(r)
  PROVE  UNCHANGED vars \/ rpc'[r] # rpc[r]
<1>1. ASSUME NEW o \in OrderId,
             \/ RequestRead(r, o) \/ ReadOrder(r, o, "approve") \/ ReadOrder(r, o, "reject")
             \/ ReconcileRefund(r, o)
      PROVE  UNCHANGED vars
  BY <1>1 DEF RequestRead, ReadOrder, ReconcileRefund
<1>2. CASE \/ LookupCanceled(r) \/ LookupPaidInFull(r) \/ SendCancel(r) \/ CancelAnswered(r)
           \/ RAbandon(r)
  BY <1>2 DEF LookupCanceled, LookupPaidInFull, SendCancel, CancelAnswered, RAbandon
<1>3. CASE RequestCommit(r) \/ RejectCommit(r) \/ CompleteCommit(r)
  BY <1>3 DEF RequestCommit, RejectCommit, CompleteCommit, RFinish, RGoto, RefundTypes
<1>4. CASE ApproveCommit(r)
  BY <1>4 DEF ApproveCommit, RFinish, RGoto, RefundTypes
<1> QED
  BY <1>1, <1>2, <1>3, <1>4 DEF Reviewing

(* ... and where copies are current, by the rows as they are.               *)
LEMMA ReviewerSees ==
  ASSUME RInv, NEW r \in Reviewers, Reviewing(r), ~UNCHANGED vars
  PROVE  /\ RefundWrites(r)
         /\ ReviewsAreCurrent => CurrentReview(r)
         /\ ReviewSubsAreCurrent => SubCopy(r) = sub
<1>1. RefundWrites(r)
  BY ReviewWrites
<1>2. rpc'[r] # rpc[r]
  BY <1>1, WritesMove DEF RInv
<1>3. dbVars' # dbVars
  BY <1>1 DEF RefundWrites, vars, providerVars
<1> QED
  BY <1>1, <1>2, <1>3 DEF ReviewsAreCurrent, ReviewSubsAreCurrent

(* A refund writes the order as it is, with the next state of the refund.   *)
LEMMA RefundMoves ==
  ASSUME PInv, NEW r \in Reviewers, RefundWrites(r), CurrentReview(r)
  PROVE  LET o == rjob[r].order
             a == orders[o]
         IN  /\ rpc[r] # "idle" /\ o \in OrderId /\ a \in OrderRow
             /\ rpc[r] = "request" \/ ~MemberLocked
             /\ \/ /\ rpc[r] = "request" /\ a.refund = "NONE" /\ UNCHANGED periods
                   /\ orders' = [orders EXCEPT ![o] = RequestRefund(a)]
                   /\ sub' = StopRenewal(sub)
                \/ /\ rpc[r] = "approve" /\ a.refund \in {"REQUESTED", "PENDING"}
                   /\ orders' = [orders EXCEPT ![o] = ApproveRefund(a)]
                   /\ UNCHANGED <<sub, periods>>
                \/ /\ rpc[r] = "reject" /\ a.refund = "REQUESTED"
                   /\ orders' = [orders EXCEPT ![o] = RejectRefund(a)]
                   /\ UNCHANGED <<sub, periods>>
                \/ /\ rpc[r] = "complete" /\ a.refund = "PENDING" /\ ledger[o] = "CANCELED"
                   /\ orders' = [orders EXCEPT ![o] = CompleteRefund(a)]
                   /\ periods[o].state # "NONE"
                   /\ periods' = [periods EXCEPT ![o] = Revoke(@)]
                   /\ Forgets(r)
<1> DEFINE o == rjob[r].order
           a == orders[o]
<1>0. rpc[r] # "idle"
  BY DEF RefundWrites, RequestWrites, ApproveWrites, RejectWrites, CompleteWrites
<1>1. o \in OrderId /\ a \in OrderRow
  BY <1>0, OrderReviewed DEF PInv, RInv, StepInv, IInv, TypeOK
<1>2. Copy(r) = a
  BY DEF CurrentReview
<1>3. CASE RequestWrites(r)
  <2>1. rjob[r].copy = a
    BY <1>3 DEF RequestWrites, PInv, ReviewsInOrder, AskedCopy
  <2> QED
    BY <1>0, <1>1, <1>3, <2>1 DEF RequestWrites, Refundable
<1>4. CASE ApproveWrites(r)
  BY <1>0, <1>1, <1>2, <1>4 DEF ApproveWrites, MayApprove
<1>5. CASE RejectWrites(r)
  BY <1>0, <1>1, <1>2, <1>5 DEF RejectWrites, MayReject
<1>6. CASE CompleteWrites(r)
  <2>1. ledger[o] = "CANCELED"
    BY <1>6 DEF CompleteWrites, PInv, RInv, Reviews, ReviewOk
  <2> QED
    BY <1>0, <1>1, <1>2, <1>6, <2>1 DEF CompleteWrites
<1> QED
  BY <1>3, <1>4, <1>5, <1>6 DEF RefundWrites

(* ... and so each order and its period, the one it is about among them.    *)
LEMMA RefundRowMoves ==
  ASSUME PInv, NEW r \in Reviewers, RefundWrites(r), CurrentReview(r), NEW p \in OrderId
  PROVE  /\ orders'[p].end = orders[p].end
         /\ orders[p].status = "NONE" => orders'[p].status = "NONE"
         /\ orders'[p].status = "NONE" => orders[p].status = "NONE"
         /\ p # rjob[r].order => orders'[p] = orders[p] /\ periods'[p] = periods[p]
         /\ \/ /\ orders'[p].refund = orders[p].refund
               /\ orders'[p].status = orders[p].status /\ periods'[p] = periods[p]
            \/ /\ orders[p].refund = "NONE" /\ orders'[p].refund = "REQUESTED"
               /\ orders'[p].status = orders[p].status /\ periods'[p] = periods[p]
            \/ /\ orders[p].refund \in {"REQUESTED", "PENDING"} /\ orders'[p].refund = "PENDING"
               /\ orders'[p].status = orders[p].status /\ periods'[p] = periods[p]
            \/ /\ orders[p].refund = "REQUESTED" /\ orders'[p].refund = "REJECTED"
               /\ orders'[p].status = orders[p].status /\ periods'[p] = periods[p]
            \/ /\ orders[p].refund = "PENDING" /\ orders'[p].refund = "DONE"
               /\ ledger[p] = "CANCELED" /\ orders'[p].status = "CANCELED"
               /\ periods[p].state # "NONE" /\ periods'[p].state = "REVOKED"
<1> DEFINE o == rjob[r].order
           a == orders[o]
<1>0. orders \in [OrderId -> OrderRow] /\ periods \in [OrderId -> PeriodRow]
  BY DEF PInv, RInv, StepInv, IInv, TypeOK
<1>1. o \in OrderId /\ a \in OrderRow
  BY RefundMoves
<1>2. orders[o].status # "NONE"
  BY RefundMoves, OrderReviewed DEF PInv
<1>3. Revoke(periods[o]).state = "REVOKED"
  BY <1>0, <1>1 DEF PeriodRow, Revoke
<1>4. CASE rpc[r] = "request"
  <2>1. a.refund = "NONE" /\ UNCHANGED periods /\ orders' = [orders EXCEPT ![o] = RequestRefund(a)]
    BY <1>4, RefundMoves
  <2> HIDE DEF o
  <2> QED
    BY <1>0, <1>1, <2>1, RefundMethods DEF o
<1>5. CASE rpc[r] = "approve"
  <2>1. /\ a.refund \in {"REQUESTED", "PENDING"} /\ UNCHANGED periods
        /\ orders' = [orders EXCEPT ![o] = ApproveRefund(a)]
    BY <1>5, RefundMoves
  <2> QED
    BY <1>0, <1>1, <2>1, RefundMethods
<1>6. CASE rpc[r] = "reject"
  <2>1. /\ a.refund = "REQUESTED" /\ UNCHANGED periods
        /\ orders' = [orders EXCEPT ![o] = RejectRefund(a)]
    BY <1>6, RefundMoves
  <2> QED
    BY <1>0, <1>1, <2>1, RefundMethods
<1>7. CASE rpc[r] = "complete"
  <2>1. /\ a.refund = "PENDING" /\ ledger[o] = "CANCELED" /\ periods[o].state # "NONE"
        /\ orders' = [orders EXCEPT ![o] = CompleteRefund(a)]
        /\ periods' = [periods EXCEPT ![o] = Revoke(periods[o])]
    BY <1>7, RefundMoves
  <2> QED
    BY <1>0, <1>1, <1>2, <1>3, <2>1, RefundMethods
<1> QED
  BY <1>4, <1>5, <1>6, <1>7, RefundMoves

LEMMA RefundsKeepRows ==
  ASSUME ReviewsAreCurrent, PInv, NEW r \in Reviewers, Reviewing(r)
  PROVE  RowsInOrder'
<1>0. /\ GrantsArePlaced /\ RefundIsReal /\ ReturnedIsApproved /\ RInv
  BY DEF PInv, RowsInOrder
<1>1. ASSUME NEW o \in cancels' PROVE o \in cancels \/ orders[o].refund \in {"PENDING", "DONE"}
  BY <1>0, <1>1, CancelsAreSent
  DEF SendCancel, PInv, ReviewsInOrder, ApprovedStays, PayingLabels
<1>2. CASE UNCHANGED vars
  BY <1>0, <1>1, <1>2 DEF RowsInOrder, GrantsArePlaced, RefundIsReal, ReturnedIsApproved,
                          vars, dbVars, providerVars
<1>3. CASE RefundWrites(r) /\ CurrentReview(r)
  <2>1. UNCHANGED <<now, ledger>>
    BY <1>3 DEF RefundWrites
  <2>2. GrantsArePlaced'
    BY <1>0, <1>3, RefundRowMoves DEF GrantsArePlaced
  <2>3. RefundIsReal'
    <3> SUFFICES ASSUME NEW p \in OrderId
                 PROVE  /\ (orders'[p].refund = "DONE") <=> (orders'[p].status = "CANCELED")
                        /\ (orders'[p].refund = "DONE") <=> (periods'[p].state = "REVOKED")
                        /\ orders'[p].refund = "DONE" => ledger'[p] = "CANCELED"
      BY DEF RefundIsReal
    <3>1. /\ (orders[p].refund = "DONE") <=> (orders[p].status = "CANCELED")
          /\ (orders[p].refund = "DONE") <=> (periods[p].state = "REVOKED")
          /\ orders[p].refund = "DONE" => ledger[p] = "CANCELED"
      BY <1>0 DEF RefundIsReal
    <3> QED
      BY <1>3, <2>1, <3>1, RefundRowMoves
  <2>4. ReturnedIsApproved'
    <3>1. \A p \in OrderId : orders[p].refund \in {"PENDING", "DONE"}
                               => orders'[p].refund \in {"PENDING", "DONE"}
      BY <1>3, RefundRowMoves
    <3> QED
      BY <1>0, <1>1, <2>1, <3>1 DEF ReturnedIsApproved
  <2> QED
    BY <2>2, <2>3, <2>4 DEF RowsInOrder
<1> QED
  BY <1>0, <1>2, <1>3, ReviewerSees

(* Where a refund thread gets to: alone to a request, and to the payment    *)
(* only over an approval.                                                   *)
LEMMA ReviewArrives ==
  ASSUME PInv, NEW r \in Reviewers, Reviewing(r)
  PROVE  /\ \A q \in Reviewers \ {r} : rpc'[q] = rpc[q] /\ rjob'[q] = rjob[q]
         /\ rpc'[r] = "request" =>
              ~MemberLocked /\ UNCHANGED vars /\ orders[rjob'[r].order] = rjob'[r].copy
         /\ rpc'[r] \in PayingLabels => orders'[rjob'[r].order].refund \in {"PENDING", "DONE"}
         /\ rpc'[r] # "idle" /\ rjob'[r].copy.refund \in {"PENDING", "DONE"}
              => orders'[rjob'[r].order].refund \in {"PENDING", "DONE"}
<1>0. rpc \in [Reviewers -> ReviewLabels] /\ rjob \in [Reviewers -> RefundJob]
      /\ orders \in [OrderId -> OrderRow]
  BY DEF PInv, RInv, RefundTypes, StepInv, IInv, TypeOK
<1>1. \A l, j : RGoto(r, l, j) =>
        /\ rpc'[r] = l /\ rjob'[r] = j
        /\ \A q \in Reviewers \ {r} : rpc'[q] = rpc[q] /\ rjob'[q] = rjob[q]
  BY <1>0 DEF RGoto
<1>2. \A o : Load(o).order = o /\ Load(o).copy = orders[o]
  BY DEF Load, NoRefundJob
<1>3. /\ rpc[r] \in PayingLabels => orders[rjob[r].order].refund \in {"PENDING", "DONE"}
      /\ rpc[r] # "idle" /\ rjob[r].copy.refund \in {"PENDING", "DONE"}
           => orders[rjob[r].order].refund \in {"PENDING", "DONE"}
  BY DEF PInv, ReviewsInOrder, ApprovedStays, CopiesKnow
<1>4. ASSUME NEW o \in OrderId, RequestRead(r, o)
      PROVE  /\ RGoto(r, "request", Load(o)) /\ ~MemberLocked /\ UNCHANGED vars
  BY <1>4 DEF RequestRead
<1>5. ASSUME NEW o \in OrderId, ReadOrder(r, o, "approve") \/ ReadOrder(r, o, "reject")
      PROVE  /\ RGoto(r, "approve", Load(o)) \/ RGoto(r, "reject", Load(o))
             /\ UNCHANGED orders
  BY <1>5 DEF ReadOrder, vars, dbVars
<1>6. ASSUME NEW o \in OrderId, ReconcileRefund(r, o)
      PROVE  RGoto(r, "check", Load(o)) /\ orders'[o].refund = "PENDING"
  BY <1>6 DEF ReconcileRefund, vars, dbVars
<1>7. CASE LookupCanceled(r) \/ LookupPaidInFull(r) \/ SendCancel(r) \/ CancelAnswered(r)
  <2>1. rpc[r] \in PayingLabels /\ UNCHANGED orders
    BY <1>7 DEF LookupCanceled, LookupPaidInFull, SendCancel, CancelAnswered, PayingLabels,
                vars, dbVars
  <2>2. PICK l \in PayingLabels : RGoto(r, l, rjob[r])
    BY <1>7 DEF LookupCanceled, LookupPaidInFull, SendCancel, CancelAnswered, PayingLabels
  <2> QED
    BY <1>1, <1>3, <2>1, <2>2 DEF PayingLabels
<1>8. CASE RAbandon(r) \/ RequestCommit(r) \/ RejectCommit(r) \/ CompleteCommit(r)
  <2>1. RGoto(r, "idle", NoRefundJob)
    BY <1>8 DEF RAbandon, RequestCommit, RejectCommit, CompleteCommit, RFinish
  <2> QED
    BY <1>1, <2>1 DEF PayingLabels
<1>9. CASE ApproveCommit(r)
  <2>1. CASE ~MayApprove(r)
    <3>1. RGoto(r, "idle", NoRefundJob)
      BY <1>9, <2>1 DEF ApproveCommit, RFinish
    <3> QED
      BY <1>1, <3>1 DEF PayingLabels
  <2>2. CASE MayApprove(r)
    <3> DEFINE o == rjob[r].order
               row == ApproveRefund(Copy(r))
               k == [rjob[r] EXCEPT !.copy = row, !.sub = sub]
    <3>1. /\ rpc[r] = "approve" /\ RGoto(r, "lookup", k)
          /\ IF row = Copy(r) THEN UNCHANGED orders ELSE Update(r, row)
      BY <1>9, <2>2 DEF ApproveCommit
    <3>2. o \in OrderId /\ rjob[r] \in RefundJob /\ Copy(r) \in OrderRow
      BY <3>1, OrderReviewed DEF PInv
    <3>3. row.refund = "PENDING"
      BY <3>2, RefundMethods
    <3> HIDE DEF row
    <3>4. orders'[o].refund \in {"PENDING", "DONE"}
      <4>1. CASE row = Copy(r)
        BY <1>3, <3>1, <3>3, <4>1 DEF Copy
      <4>2. CASE row # Copy(r)
        BY <1>0, <3>1, <3>2, <3>3, <4>2 DEF Update
      <4> QED
        BY <4>1, <4>2
    <3>5. k.order = o
      BY <3>2 DEF RefundJob
    <3> HIDE DEF k
    <3> QED
      BY <1>1, <3>1, <3>4, <3>5
  <2> QED
    BY <2>1, <2>2
<1>10. CASE \E o \in OrderId : RequestRead(r, o)
  BY <1>1, <1>2, <1>4, <1>10 DEF PayingLabels, vars, dbVars
<1>11. CASE \E o \in OrderId : ReadOrder(r, o, "approve") \/ ReadOrder(r, o, "reject")
  BY <1>1, <1>2, <1>5, <1>11 DEF PayingLabels
<1>12. CASE \E o \in OrderId : ReconcileRefund(r, o)
  BY <1>1, <1>2, <1>6, <1>12
<1> QED
  BY <1>7, <1>8, <1>9, <1>10, <1>11, <1>12 DEF Reviewing

LEMMA RefundsKeepReviews ==
  ASSUME ReviewsAreCurrent, PInv, NEW r \in Reviewers, Reviewing(r)
  PROVE  ReviewsInOrder'
<1>0. OneAsks /\ AskedCopy /\ ApprovedStays /\ CopiesKnow /\ RInv
  BY DEF PInv, ReviewsInOrder
<1>1. \A q \in Reviewers : rpc[q] # "idle" => rjob[q].order \in OrderId
  BY DEF PInv, RInv, Reviews, ReviewOk
<1>2. OneAsks'
  BY <1>0, ReviewArrives DEF OneAsks, MemberLocked
<1>3. UNCHANGED orders \/ (RefundWrites(r) /\ CurrentReview(r))
  BY <1>0, ReviewerSees DEF vars, dbVars
<1>4. ASSUME NEW q \in Reviewers, rpc'[q] = "request", Refundable(rjob'[q].copy)
      PROVE  orders'[rjob'[q].order] = rjob'[q].copy
  <2>1. CASE q = r
    BY <1>4, <2>1, ReviewArrives DEF vars, dbVars
  <2>2. CASE q # r
    <3>1. /\ rpc[q] = "request" /\ rjob'[q] = rjob[q]
          /\ orders[rjob[q].order] = rjob[q].copy
      BY <1>0, <1>4, <2>2, ReviewArrives DEF AskedCopy
    <3>2. ~(RefundWrites(r) /\ CurrentReview(r))
      <4>1. rpc[r] # "request" /\ MemberLocked
        BY <1>0, <2>2, <3>1 DEF OneAsks, MemberLocked
      <4> QED
        BY <4>1, RefundMoves
    <3> QED
      BY <1>3, <3>1, <3>2
  <2> QED
    BY <2>1, <2>2
<1>5. ASSUME NEW q \in Reviewers, rpc'[q] \in PayingLabels
      PROVE  orders'[rjob'[q].order].refund \in {"PENDING", "DONE"}
  <2>1. CASE q = r
    BY <1>5, <2>1, ReviewArrives
  <2>2. CASE q # r
    <3>1. /\ rpc[q] \in PayingLabels /\ rjob'[q] = rjob[q]
          /\ orders[rjob[q].order].refund \in {"PENDING", "DONE"}
          /\ rjob[q].order \in OrderId
      BY <1>0, <1>1, <1>5, <2>2, ReviewArrives DEF ApprovedStays, PayingLabels
    <3> QED
      BY <1>3, <3>1, RefundRowMoves
  <2> QED
    BY <2>1, <2>2
<1>6. ASSUME NEW q \in Reviewers, rpc'[q] # "idle", rjob'[q].copy.refund \in {"PENDING", "DONE"}
      PROVE  orders'[rjob'[q].order].refund \in {"PENDING", "DONE"}
  <2>1. CASE q = r
    BY <1>6, <2>1, ReviewArrives
  <2>2. CASE q # r
    <3>1. /\ rjob'[q] = rjob[q] /\ rjob[q].order \in OrderId
          /\ orders[rjob[q].order].refund \in {"PENDING", "DONE"}
      BY <1>0, <1>1, <1>6, <2>2, ReviewArrives DEF CopiesKnow
    <3> QED
      BY <1>3, <3>1, RefundRowMoves
  <2> QED
    BY <2>1, <2>2
<1> QED
  BY <1>2, <1>4, <1>5, <1>6 DEF ReviewsInOrder, AskedCopy, ApprovedStays, CopiesKnow

LEMMA InitPInv == RInit => PInv
<1> SUFFICES ASSUME RInit PROVE PInv
  OBVIOUS
<1>1. RInv
  BY InitRInv
<1>2. \A r \in Reviewers : rpc[r] = "idle"
  BY DEF RInit
<1>3. ReviewsInOrder
  BY <1>2 DEF ReviewsInOrder, OneAsks, AskedCopy, ApprovedStays, CopiesKnow, PayingLabels
<1>4. /\ \A o \in OrderId : /\ orders[o].status = "NONE" /\ orders[o].refund = "NONE"
                            /\ periods[o].state = "NONE" /\ ledger[o] = "NONE"
      /\ cancels = {}
  BY DEF RInit, Init, NoOrder, NoPeriod
<1>5. RowsInOrder
  BY <1>4 DEF RowsInOrder, GrantsArePlaced, RefundIsReal, ReturnedIsApproved
<1> QED
  BY <1>1, <1>3, <1>5 DEF PInv

LEMMA OthersKeepOrder ==
  ASSUME PInv,
         \/ \E o \in OrderId : ProviderCancels(o)
         \/ AiStart \/ \E outcome \in {"free", "abandoned"} : AiEnd(outcome)
  PROVE  ReviewsInOrder' /\ RowsInOrder'
<1>0. ReviewsInOrder /\ RowsInOrder /\ TypeOK
  BY DEF PInv, RInv, StepInv, IInv
<1>1. UNCHANGED <<now, sub, orders, periods, rpc, rjob>>
  BY DEF ProviderCancels, AiStart, AiEnd, vars, dbVars
<1>2. \A o \in OrderId : /\ ledger[o] = "CANCELED" => ledger'[o] = "CANCELED"
                         /\ ledger'[o] = "CANCELED" => ledger[o] = "CANCELED" \/ o \in cancels
                         /\ o \in cancels' => o \in cancels
  BY <1>0 DEF ProviderCancels, AiStart, AiEnd, vars, dbVars, providerVars, TypeOK
<1>3. ReviewsInOrder'
  BY <1>0, <1>1 DEF ReviewsInOrder, OneAsks, AskedCopy, ApprovedStays, CopiesKnow
<1>4. RowsInOrder'
  BY <1>0, <1>1, <1>2 DEF RowsInOrder, GrantsArePlaced, RefundIsReal, ReturnedIsApproved
<1> QED
  BY <1>3, <1>4

(* The copies of charging threads and of refund threads alike.              *)
CopiesAreCurrent == OrdersAreCurrent /\ ReviewsAreCurrent
SubCopiesAreCurrent == SubIsCurrent /\ ReviewSubsAreCurrent

LEMMA StutteringIsCurrent ==
  [CopiesAreCurrent]_allVars => OrdersAreCurrent /\ ReviewsAreCurrent
BY DEF CopiesAreCurrent, OrdersAreCurrent, ReviewsAreCurrent, allVars, vars

LEMMA NextPInv ==
  ASSUME OrdersAreCurrent, ReviewsAreCurrent, PInv, [RNext]_allVars
  PROVE  PInv'
<1>1. RInv'
  BY NextRInv DEF PInv
<1>2. ReviewsInOrder' /\ RowsInOrder'
  <2>1. CASE (Next /\ UNCHANGED refundVars) \/ UNCHANGED allVars
    <3>1. [Next]_vars /\ UNCHANGED refundVars
      BY <2>1 DEF allVars
    <3> QED
      BY <3>1, ChargesKeepRows, ChargesKeepReviews
  <2>2. CASE \E r \in Reviewers : Reviewing(r)
    BY <2>2, RefundsKeepRows, RefundsKeepReviews
  <2> QED
    BY <2>1, <2>2, OthersKeepOrder DEF RNext
<1> QED
  BY <1>1, <1>2 DEF PInv

(* A session per transaction is enough for all orders: the premise of the   *)
(* theorems below says less than that setting.                              *)
LEMMA SessionPerTransaction == ~OpenInView => (RSpec => [][CopiesAreCurrent]_allVars)
<1> SUFFICES ASSUME ~OpenInView PROVE RSpec => [][CopiesAreCurrent]_allVars
  OBVIOUS
<1>1. RInv => CopiesAreCurrent
  BY FreshOrders DEF RInv, StepInv, CopiesAreCurrent, ReviewsAreCurrent, CurrentReview, Copy
<1> QED
  BY <1>1, SpecKeepsRInv, PTL

LEMMA SpecKeepsPInv == RSpec /\ [][CopiesAreCurrent]_allVars => []PInv
<1>1. PInv /\ [RNext]_allVars /\ [CopiesAreCurrent]_allVars => PInv'
  BY NextPInv, StutteringIsCurrent
<1> QED
  BY <1>1, InitPInv, PTL DEF RSpec

(* A refund is recorded as done exactly for the orders that are canceled    *)
(* and whose period is revoked, and only when the provider has returned the *)
(* money: however many admins approve, reject and reconcile at once, and in *)
(* any configuration, as long as no transaction writes by an order that has *)
(* changed since it was loaded.                                             *)
THEOREM RefundsAreReal ==
  RSpec /\ [][CopiesAreCurrent]_allVars => []RefundIsReal
<1>1. PInv => RefundIsReal
  BY DEF PInv, RowsInOrder
<1> QED
  BY <1>1, SpecKeepsPInv, PTL

(* The provider is asked to return money, and returns it, only for orders   *)
(* whose refund stands approved from then on: a later rejection, request or *)
(* charge overwrites the approval only by an order it loaded before.        *)
THEOREM ReturnsAreApproved ==
  RSpec /\ [][CopiesAreCurrent]_allVars => []ReturnedIsApproved
<1>1. PInv => ReturnedIsApproved
  BY DEF PInv, RowsInOrder
<1> QED
  BY <1>1, SpecKeepsPInv, PTL

----------------------------------------------------------------------------
(* What the subscription says and the terms that run on. *)

OpenRenewal(o) == orders[o].status = "PENDING" /\ orders[o].kind = "RENEWAL"

(* At most one paid term runs on, it ends when the subscription says, and   *)
(* none does while a renewal is open: that was ordered after the last one   *)
(* was over.                                                                *)
Entitled ==
  /\ ~sub.exists => sub.paidThrough = 0
  /\ ActiveIsEntitled
  /\ \A o, p \in OrderId : RunsOn(o) /\ RunsOn(p) => o = p
  /\ \A o \in OrderId : OpenRenewal(o) => sub.exists /\ sub.paidThrough <= now

(* The clock alone can only end terms; and what else leaves the granted     *)
(* terms, paid_through and the open renewal alone keeps them in order.      *)
LEMMA EntitledStays ==
  ASSUME PInv, StepInv', Entitled, now <= now', sub.exists => sub'.exists,
         sub'.paidThrough = sub.paidThrough,
         \A o \in OrderId :
           /\ periods'[o].state = "GRANTED" <=> periods[o].state = "GRANTED"
           /\ periods[o].state = "GRANTED" => orders'[o].end = orders[o].end
           /\ OpenRenewal(o)' => OpenRenewal(o) \/ (sub.exists /\ sub.paidThrough <= now)
  PROVE  Entitled'
<1>1. /\ now \in Nat /\ now' \in Nat /\ sub.paidThrough \in Nat
      /\ \A o \in OrderId : orders[o].end \in Nat
  BY DEF PInv, RInv, StepInv, IInv, TypeOK, SubRow, OrderRow
<1>2. \A o \in OrderId : /\ RunsOn(o)' => RunsOn(o) /\ orders'[o].end = orders[o].end
                         /\ RunsOn(o) /\ now' < orders[o].end => RunsOn(o)'
  BY <1>1 DEF RunsOn
<1>3. ActiveIsEntitled'
  <2>1. ASSUME sub'.paidThrough > now'
        PROVE  \E o \in OrderId : RunsOn(o)' /\ orders'[o].end = sub'.paidThrough
    <3>1. sub.paidThrough > now /\ sub.paidThrough > now'
      BY <1>1, <2>1
    <3>2. PICK o \in OrderId : RunsOn(o) /\ orders[o].end = sub.paidThrough
      BY <3>1 DEF Entitled, ActiveIsEntitled
    <3>3. RunsOn(o)'
      BY <1>1, <1>2, <3>1, <3>2
    <3> QED
      BY <1>2, <3>2, <3>3
  <2>2. ASSUME NEW o \in OrderId, RunsOn(o)' PROVE orders'[o].end <= sub'.paidThrough
    BY <1>2, <2>2 DEF Entitled, ActiveIsEntitled
  <2> QED
    BY <2>1, <2>2 DEF ActiveIsEntitled
<1>4. \A o \in OrderId : OpenRenewal(o)' => sub'.exists /\ sub'.paidThrough <= now'
  BY <1>1 DEF Entitled
<1>5. ~sub'.exists => sub'.paidThrough = 0
  BY DEF Entitled
<1> QED
  BY <1>2, <1>3, <1>4, <1>5 DEF Entitled

(* Granting the open renewal: no other term runs on, and paid_through moves *)
(* to its end.                                                              *)
LEMMA GrantEntitles ==
  ASSUME PInv, StepInv', Entitled, now <= now', sub'.exists,
         NEW o \in OrderId, OpenRenewal(o),
         orders' = [orders EXCEPT ![o] = Settle(orders[o])],
         periods' = [periods EXCEPT ![o] = Grant(orders[o])],
         sub'.paidThrough = orders[o].end
  PROVE  Entitled'
<1>1. /\ now \in Nat /\ now' \in Nat /\ sub.paidThrough \in Nat
      /\ \A p \in OrderId : orders[p].end \in Nat
      /\ orders \in [OrderId -> OrderRow] /\ periods \in [OrderId -> PeriodRow]
  BY DEF PInv, RInv, StepInv, IInv, TypeOK, SubRow, OrderRow
<1>2. sub.paidThrough <= now
  BY DEF Entitled
<1>3. \A p \in OrderId : ~RunsOn(p)
  BY <1>1, <1>2 DEF Entitled, ActiveIsEntitled, RunsOn
<1>4. /\ Settle(orders[o]).end = orders[o].end /\ Settle(orders[o]).status = "DONE"
      /\ Grant(orders[o]).state = "GRANTED"
  BY <1>1, OrderColumns, OrderMethods DEF Grant
<1>5. /\ orders'[o].end = orders[o].end /\ orders'[o].status = "DONE"
      /\ periods'[o].state = "GRANTED"
      /\ \A p \in OrderId \ {o} : orders'[p] = orders[p] /\ periods'[p] = periods[p]
  BY <1>1, <1>4
<1>6. \A p \in OrderId : RunsOn(p)' => p = o
  BY <1>1, <1>3, <1>5 DEF RunsOn
<1>7. \A p \in OrderId : ~OpenRenewal(p)'
  <2>1. \A p \in OrderId : OpenRenewal(p) => p = o
    BY DEF PInv, RInv, StepInv, IInv, Rows, SinglePending, Pending, OpenRenewal
  <2> QED
    BY <1>5, <2>1 DEF OpenRenewal
<1>8. ActiveIsEntitled'
  <2>1. sub'.paidThrough > now' => RunsOn(o)'
    BY <1>5 DEF RunsOn
  <2>2. \A p \in OrderId : RunsOn(p)' => orders'[p].end <= sub'.paidThrough
    BY <1>1, <1>5, <1>6
  <2> QED
    BY <1>5, <2>1, <2>2 DEF ActiveIsEntitled
<1> QED
  BY <1>6, <1>7, <1>8 DEF Entitled

LEMMA ChargesKeepEntitled ==
  ASSUME OrdersAreCurrent, SubIsCurrent, PInv, Entitled, [Next]_vars
  PROVE  Entitled'
<1>0. /\ orders \in [OrderId -> OrderRow] /\ periods \in [OrderId -> PeriodRow]
      /\ sub \in SubRow /\ now \in Nat /\ IInv /\ TypeOK /\ StepInv /\ RInv /\ Rows
      /\ ~sub.exists => sub.paidThrough = 0
  BY DEF PInv, RInv, StepInv, IInv, TypeOK, Entitled
<1>1. StepInv' /\ now <= now' /\ (sub.exists => sub'.exists)
  BY <1>0, NextStepInv, ClockRuns, SubStays
<1>2. CASE UNCHANGED dbVars
  BY <1>1, <1>2, EntitledStays DEF dbVars, OpenRenewal
<1>3. CASE Quiet
  <2>1. sub'.paidThrough = sub.paidThrough
    BY <1>0, <1>3, QuietKeepsPaidThrough
  <2> QED
    BY <1>1, <1>3, <2>1, EntitledStays DEF Quiet, OpenRenewal
<1>4. ASSUME NEW row \in OrderRow, Places(row), ~UNCHANGED dbVars PROVE Entitled'
  <2>1. PICK n \in OrderId : n = NextOrder /\ orders[n].status = "NONE"
    BY <1>0, <1>4, NextOrderIsFree DEF Places, Rows
  <2>2. periods[n].state = "NONE" /\ UNCHANGED <<sub, periods>>
    BY <1>4, <2>1 DEF Places, PInv, RowsInOrder, GrantsArePlaced
  <2>3. orders'[n] = row /\ \A o \in OrderId \ {n} : orders'[o] = orders[o]
    BY <1>0, <1>4, <2>1 DEF Places
  <2>4. row.kind = "RENEWAL" => sub.exists /\ sub.paidThrough <= now
    <3>1. ASSUME NEW w \in Workers, pc[w] = "charge", pc'[w] = "send"
          PROVE  Seen(w) = sub /\ sub.exists
      BY <1>0, <1>4, <3>1, WriterSees DEF StepInv, Posts
    <3> QED
      BY <1>4, <3>1 DEF Places
  <2>5. \A o \in OrderId :
          /\ periods'[o].state = periods[o].state
          /\ periods[o].state = "GRANTED" => orders'[o].end = orders[o].end
          /\ OpenRenewal(o)' => OpenRenewal(o) \/ (sub.exists /\ sub.paidThrough <= now)
    BY <2>2, <2>3, <2>4 DEF OpenRenewal
  <2> QED
    BY <1>1, <2>2, <2>5, EntitledStays
<1>5. ASSUME NEW w \in Workers, Verdict(w), ~UNCHANGED dbVars PROVE Entitled'
  <2>1. pc[w] \in OrderLabels /\ pc'[w] # pc[w]
    BY <1>5 DEF Verdict, SettlesRenewal, SettlesUpgrade, Fails, OrderLabels
  <2>2. PICK o \in OrderId : o = job[w].order
    BY <1>0, <2>1, OrderInHand
  <2>3. SeenOrder(w, o) = orders[o] /\ Seen(w) = sub
    BY <1>5, <2>1, <2>2, WriterSees
  <2>4. \/ SettlesRenewal(w, o, orders[o]) \/ SettlesUpgrade(w, o, orders[o])
        \/ Fails(w, o, orders[o])
    BY <1>5, <2>2, <2>3 DEF Verdict
  <2>5. CASE SettlesRenewal(w, o, orders[o])
    <3>1. PaidUntil(sub, orders[o].end).paidThrough = orders[o].end
      BY <1>0 DEF SubRow, PaidUntil
    <3>2. sub'.paidThrough = orders[o].end
      BY <2>3, <2>5, <3>1 DEF SettlesRenewal, WriteSub
    <3>3. OpenRenewal(o)
      BY <2>5 DEF SettlesRenewal, OpenRenewal
    <3>4. sub'.exists
      BY <1>1, <3>3 DEF Entitled
    <3> QED
      BY <1>1, <2>5, <3>2, <3>3, <3>4, GrantEntitles DEF SettlesRenewal
  <2>6. CASE SettlesUpgrade(w, o, orders[o]) \/ Fails(w, o, orders[o])
    <3>1. /\ StopRenewal(sub).paidThrough = sub.paidThrough
          /\ SelectPlan(sub, orders[o].tier).paidThrough = sub.paidThrough
      BY <1>0 DEF SubRow, StopRenewal, SelectPlan
    <3>2. sub'.paidThrough = sub.paidThrough
      BY <2>3, <2>6, <3>1 DEF SettlesUpgrade, Fails, WriteSub
    <3>3. Terms' = Terms
      BY <1>0, <2>6, VerdictTerms
    <3>4. \A p \in OrderId : periods'[p].state = "GRANTED" <=> periods[p].state = "GRANTED"
      BY <3>3 DEF Terms
    <3>5. PICK b \in {Settle(orders[o]), Fail(orders[o])} : orders' = [orders EXCEPT ![o] = b]
      BY <2>6 DEF SettlesUpgrade, Fails
    <3>6. b.end = orders[o].end /\ b.status \in {"DONE", "FAILED"}
      BY <1>0, OrderColumns, OrderMethods
    <3>7. \A p \in OrderId : /\ orders'[p].end = orders[p].end
                             /\ OpenRenewal(p)' => OpenRenewal(p)
      BY <1>0, <3>5, <3>6 DEF OpenRenewal
    <3> QED
      BY <1>1, <3>2, <3>4, <3>7, EntitledStays
  <2> QED
    BY <2>4, <2>5, <2>6
<1> QED
  BY <1>0, <1>2, <1>3, <1>4, <1>5, StepWrites

(* A refund takes the date away with its own term, and only with that.      *)
LEMMA RefundsKeepEntitled ==
  ASSUME ReviewsAreCurrent, ReviewSubsAreCurrent, PInv, Entitled,
         NEW r \in Reviewers, Reviewing(r)
  PROVE  Entitled'
<1>0. /\ sub \in SubRow /\ now \in Nat /\ sub.paidThrough \in Nat /\ RInv /\ StepInv'
      /\ \A o \in OrderId : orders[o].end \in Nat
  BY ReviewKeepsRInv DEF PInv, RInv, StepInv, IInv, TypeOK, SubRow, OrderRow
<1>1. CASE UNCHANGED vars
  BY <1>0, <1>1, EntitledStays DEF vars, dbVars, OpenRenewal
<1>2. CASE ~UNCHANGED vars
  <2>1. RefundWrites(r) /\ CurrentReview(r) /\ SubCopy(r) = sub /\ now' = now
    BY <1>0, <1>2, ReviewerSees DEF RefundWrites
  <2>2. PICK o \in OrderId : o = rjob[r].order
    BY <2>1, RefundMoves
  <2>3. /\ StopRenewal(sub) \in SubRow /\ StopRenewal(sub).paidThrough = sub.paidThrough
        /\ StopRenewal(sub).exists = sub.exists
    BY <1>0 DEF SubRow, StopRenewal
  <2>4. \A p \in OrderId :
          /\ orders'[p].end = orders[p].end
          /\ OpenRenewal(p)' => OpenRenewal(p)
          /\ p # o => periods'[p] = periods[p]
    <3>1. Evolves
      BY <1>0, <2>1, RefundKeepsRows
    <3>2. ASSUME NEW p \in OrderId
          PROVE  /\ orders'[p].end = orders[p].end
                 /\ p # o => periods'[p] = periods[p]
                 /\ orders'[p].status \in {orders[p].status, "CANCELED"}
                 /\ orders[p].status # "NONE" => orders'[p].kind = orders[p].kind
      BY <2>1, <2>2, <3>1, RefundRowMoves DEF Evolves, RowsEvolve
    <3> QED
      BY <3>2 DEF OpenRenewal
  <2>5. CASE rpc[r] # "complete"
    <3>1. sub' = sub \/ sub' = StopRenewal(sub)
      BY <2>1, <2>5, RefundMoves
    <3>2. UNCHANGED periods
      BY <2>1, <2>5, RefundMoves
    <3> QED
      BY <1>0, <2>1, <2>3, <2>4, <3>1, <3>2, EntitledStays
  <2>6. CASE rpc[r] = "complete"
    <3>1. /\ orders[o].refund = "PENDING" /\ periods[o].state # "NONE"
          /\ periods' = [periods EXCEPT ![o] = Revoke(periods[o])] /\ Forgets(r)
      BY <2>1, <2>2, <2>6, RefundMoves
    <3>2. periods[o].state = "GRANTED" /\ periods'[o].state = "REVOKED"
      <4>1. periods \in [OrderId -> PeriodRow]
        BY <1>0 DEF RInv, StepInv, IInv, TypeOK
      <4>2. Revoke(periods[o]).state = "REVOKED"
        BY <4>1 DEF PeriodRow, Revoke
      <4>3. periods[o].state # "REVOKED"
        BY <3>1 DEF PInv, RowsInOrder, RefundIsReal
      <4>4. periods[o].state \in {"NONE", "GRANTED", "REVOKED"}
        BY <4>1 DEF PeriodRow
      <4> QED
        BY <3>1, <4>1, <4>2, <4>3, <4>4
    <3>3. sub' = ForgetTerm(StopRenewal(sub), orders[o].end)
      BY <2>1, <2>2, <3>1 DEF Forgets, CurrentReview
    <3>4. sub'.exists = sub.exists
      BY <2>3, <3>3 DEF ForgetTerm, PaidUntil, SubRow
    <3>5. \A p \in OrderId : /\ RunsOn(p)' => RunsOn(p) /\ p # o
                             /\ RunsOn(p) /\ p # o => RunsOn(p)'
      BY <2>1, <2>4, <3>2 DEF RunsOn
    <3>6. CASE sub.paidThrough = orders[o].end
      <4>1. sub'.paidThrough = 0
        BY <2>3, <3>3, <3>6 DEF ForgetTerm, PaidUntil, SubRow
      <4>2. \A p \in OrderId : ~RunsOn(p)'
        <5> SUFFICES ASSUME NEW p \in OrderId, RunsOn(p), p # o PROVE FALSE
          BY <3>5
        <5>1. orders[p].end <= orders[o].end /\ now < orders[p].end
          BY <3>6 DEF Entitled, ActiveIsEntitled, RunsOn
        <5>2. RunsOn(o)
          BY <1>0, <3>2, <5>1 DEF RunsOn
        <5> QED
          BY <5>2 DEF Entitled
      <4> QED
        BY <1>0, <2>1, <2>4, <3>4, <4>1, <4>2 DEF Entitled, ActiveIsEntitled
    <3>7. CASE sub.paidThrough # orders[o].end
      <4>1. sub'.paidThrough = sub.paidThrough
        BY <2>3, <3>3, <3>7 DEF ForgetTerm
      <4>2. ActiveIsEntitled'
        <5>1. ASSUME sub'.paidThrough > now'
              PROVE  \E p \in OrderId : RunsOn(p)' /\ orders'[p].end = sub'.paidThrough
          <6>1. PICK p \in OrderId : RunsOn(p) /\ orders[p].end = sub.paidThrough
            BY <2>1, <4>1, <5>1 DEF Entitled, ActiveIsEntitled
          <6> QED
            BY <2>4, <3>5, <3>7, <4>1, <6>1
        <5>2. ASSUME NEW p \in OrderId, RunsOn(p)' PROVE orders'[p].end <= sub'.paidThrough
          BY <2>4, <3>5, <4>1, <5>2 DEF Entitled, ActiveIsEntitled
        <5> QED
          BY <5>1, <5>2 DEF ActiveIsEntitled
      <4>3. \A p, q \in OrderId : RunsOn(p)' /\ RunsOn(q)' => p = q
        BY <3>5 DEF Entitled
      <4>4. \A p \in OrderId : OpenRenewal(p)' => sub'.exists /\ sub'.paidThrough <= now'
        BY <2>1, <2>4, <3>4, <4>1 DEF Entitled
      <4> QED
        BY <3>4, <4>1, <4>2, <4>3, <4>4 DEF Entitled
    <3> QED
      BY <3>6, <3>7
  <2> QED
    BY <2>5, <2>6
<1> QED
  BY <1>1, <1>2

(* A subscription that is paid up to a later date has the period to show    *)
(* for it, and no period that runs on ends after that date: completing a    *)
(* refund takes the date away with its own term and leaves the next term's  *)
(* alone, in any configuration, as long as no transaction writes by an      *)
(* order or a subscription that has changed since it was loaded.            *)
THEOREM ActiveAreEntitled ==
  RSpec /\ [][CopiesAreCurrent /\ SubCopiesAreCurrent]_allVars => []ActiveIsEntitled
<1> DEFINE AllCurrent == CopiesAreCurrent /\ SubCopiesAreCurrent
           Inv == PInv /\ Entitled
<1>1. [AllCurrent]_allVars => /\ OrdersAreCurrent /\ ReviewsAreCurrent
                              /\ SubIsCurrent /\ ReviewSubsAreCurrent
  BY DEF CopiesAreCurrent, SubCopiesAreCurrent, OrdersAreCurrent, ReviewsAreCurrent,
         SubIsCurrent, ReviewSubsAreCurrent, allVars, vars
<1>2. RInit => Inv
  <2> SUFFICES ASSUME RInit PROVE Entitled
    BY InitPInv
  <2>1. /\ sub.paidThrough = 0 /\ now = 1
        /\ \A o \in OrderId : periods[o].state = "NONE" /\ orders[o].status = "NONE"
    BY DEF RInit, Init, NoSub, NoPeriod, NoOrder
  <2> QED
    BY <2>1 DEF Entitled, ActiveIsEntitled, RunsOn, OpenRenewal
<1>3. Inv /\ [RNext]_allVars /\ [AllCurrent]_allVars => Inv'
  <2> SUFFICES ASSUME PInv, Entitled, [RNext]_allVars, OrdersAreCurrent, ReviewsAreCurrent,
                      SubIsCurrent, ReviewSubsAreCurrent
               PROVE  PInv' /\ Entitled'
    BY <1>1
  <2>1. PInv'
    BY NextPInv
  <2>2. CASE Next \/ UNCHANGED allVars
    <3>1. [Next]_vars
      BY <2>2 DEF allVars
    <3> QED
      BY <2>1, <3>1, ChargesKeepEntitled
  <2>3. CASE \E r \in Reviewers : Reviewing(r)
    BY <2>1, <2>3, RefundsKeepEntitled
  <2>4. CASE \/ \E o \in OrderId : ProviderCancels(o)
             \/ AiStart \/ \E outcome \in {"free", "abandoned"} : AiEnd(outcome)
    <3>1. UNCHANGED <<now, sub, orders, periods>>
      BY <2>4 DEF ProviderCancels, AiStart, AiEnd, vars, dbVars
    <3> QED
      BY <2>1, <3>1 DEF Entitled, ActiveIsEntitled, RunsOn, OpenRenewal
  <2> QED
    BY <2>1, <2>2, <2>3, <2>4 DEF RNext
<1>4. Inv => ActiveIsEntitled
  BY DEF Entitled
<1> HIDE DEF Inv, AllCurrent
<1>5. RSpec /\ [][AllCurrent]_allVars => []ActiveIsEntitled
  BY <1>2, <1>3, <1>4, PTL DEF RSpec
<1> QED
  BY <1>5 DEF AllCurrent

----------------------------------------------------------------------------
(* The promise of PaidOrders, with refunds. *)
PromiseKept == PInv /\ SentArePlaced /\ DeclinesAreHeard

GivingBack(o) == Promise!GiveBack(o)
Refunding(o) == Promise!Refund(o)

(* An order that is open has no refund, so nothing of it is given back; one *)
(* whose refund is approved is settled until the refund is done.            *)
LEMMA RefundedAreSettled ==
  ASSUME PInv
  PROVE  /\ OpenIsKept
         /\ \A o \in OrderId : orders[o].refund = "PENDING" => orders[o].status = "DONE"
BY DEF PInv, RowsInOrder, RInv, RefundsAreSettled, ReturnedIsApproved, RefundIsReal,
       OpenIsKept, Settled

(* A transaction of a refund completes one, or shows nothing of itself.     *)
LEMMA RefundIsPromised ==
  ASSUME PInv, NEW r \in Reviewers, RefundWrites(r), CurrentReview(r)
  PROVE  (\E o \in OrderId : Refunding(o)) \/ UNCHANGED promised
<1>0. /\ orders \in [OrderId -> OrderRow] /\ periods \in [OrderId -> PeriodRow]
      /\ TypeOK /\ UNCHANGED ledger
  BY DEF PInv, RInv, StepInv, IInv, TypeOK, RefundWrites
<1>1. PICK o \in OrderId : o = rjob[r].order
  BY RefundMoves
<1>2. orders[o] \in OrderRow /\ orders[o].status # "NONE"
  BY <1>1, RefundMoves, OrderReviewed DEF PInv
<1>3. ASSUME NEW row \in OrderRow, row.status = orders[o].status, row.kind = orders[o].kind,
             orders' = [orders EXCEPT ![o] = row], UNCHANGED periods
      PROVE  UNCHANGED promised
  <2>1. Terms' = Terms
    BY <1>3 DEF Terms
  <2> QED
    BY <1>0, <1>2, <1>3, <2>1, RepeatedVerdict
<1>4. CASE rpc[r] = "request"
  <2>1. UNCHANGED periods /\ orders' = [orders EXCEPT ![o] = RequestRefund(orders[o])]
    BY <1>1, <1>4, RefundMoves
  <2>2. PICK row \in OrderRow : row = RequestRefund(orders[o])
    BY <1>2 DEF RequestRefund, OrderRow
  <2>3. row.status = orders[o].status /\ row.kind = orders[o].kind
    BY <1>2, <2>2 DEF RequestRefund, OrderRow
  <2> QED
    BY <1>3, <2>1, <2>2, <2>3
<1>5. CASE rpc[r] = "approve"
  <2>1. UNCHANGED periods /\ orders' = [orders EXCEPT ![o] = ApproveRefund(orders[o])]
    BY <1>1, <1>5, RefundMoves
  <2>2. PICK row \in OrderRow : row = ApproveRefund(orders[o])
    BY <1>2 DEF ApproveRefund, OrderRow
  <2>3. row.status = orders[o].status /\ row.kind = orders[o].kind
    BY <1>2, <2>2 DEF ApproveRefund, OrderRow
  <2> QED
    BY <1>3, <2>1, <2>2, <2>3
<1>6. CASE rpc[r] = "reject"
  <2>1. UNCHANGED periods /\ orders' = [orders EXCEPT ![o] = RejectRefund(orders[o])]
    BY <1>1, <1>6, RefundMoves
  <2>2. PICK row \in OrderRow : row = RejectRefund(orders[o])
    BY <1>2 DEF RejectRefund, OrderRow
  <2>3. row.status = orders[o].status /\ row.kind = orders[o].kind
    BY <1>2, <2>2 DEF RejectRefund, OrderRow
  <2> QED
    BY <1>3, <2>1, <2>2, <2>3
<1>7. CASE rpc[r] = "complete"
  <2>1. /\ orders[o].refund = "PENDING" /\ ledger[o] = "CANCELED"
        /\ orders' = [orders EXCEPT ![o] = CompleteRefund(orders[o])]
        /\ periods' = [periods EXCEPT ![o] = Revoke(periods[o])]
    BY <1>1, <1>7, RefundMoves
  <2>2. PICK row \in OrderRow : row = CompleteRefund(orders[o])
    BY <1>2 DEF CompleteRefund, OrderRow
  <2>3. row.status = "CANCELED" /\ row.kind = orders[o].kind
    BY <1>2, <2>2 DEF CompleteRefund, OrderRow
  <2>4. Statuses' = [Statuses EXCEPT ![o] = "CANCELED"] /\ Renewals' = Renewals
    BY <1>0, <1>2, <2>1, <2>2, <2>3, OneStatus
  <2>5. Revoke(periods[o]).state = "REVOKED"
    BY <1>0 DEF PeriodRow, Revoke
  <2>6. periods'[o].state = "REVOKED" /\ \A p \in OrderId \ {o} : periods'[p] = periods[p]
    BY <1>0, <2>1, <2>5
  <2>7. Terms' = Terms \ {o}
    BY <2>6 DEF Terms
  <2>8. Statuses[o] = "DONE"
    BY <2>1, RefundedAreSettled DEF Statuses
  <2>9. Refunding(o)
    BY <1>0, <2>1, <2>4, <2>7, <2>8
    DEF Refunding, Promise!Refund, Statuses, Renewals, Terms
  <2> QED
    BY <2>9
<1> QED
  BY <1>4, <1>5, <1>6, <1>7, RefundMoves

(* The provider gives back what it took, once, and only of a settled order. *)
LEMMA ReturnIsPromised ==
  ASSUME PInv, NEW o \in OrderId, ProviderCancels(o)
  PROVE  GivingBack(o) \/ UNCHANGED promised
<1>0. /\ TypeOK /\ CancelsArePaid /\ ReturnedIsApproved /\ RefundIsReal
  BY DEF PInv, RowsInOrder, RInv, StepInv, IInv
<1>1. /\ o \in cancels /\ ledger' = [ledger EXCEPT ![o] = "CANCELED"]
      /\ UNCHANGED <<orders, periods>>
  BY DEF ProviderCancels, dbVars
<1>2. Statuses' = Statuses /\ Renewals' = Renewals /\ Terms' = Terms
  BY <1>1 DEF Statuses, Renewals, Placed, Terms
<1>3. CASE ledger[o] = "CANCELED"
  <2>1. ledger' = ledger
    BY <1>0, <1>1, <1>3 DEF TypeOK
  <2> QED
    BY <1>2, <2>1 DEF promised
<1>4. CASE ledger[o] = "DONE"
  <2>1. orders[o].refund = "PENDING"
    BY <1>0, <1>1, <1>4 DEF ReturnedIsApproved, RefundIsReal
  <2>2. Statuses[o] = "DONE"
    BY <2>1, RefundedAreSettled DEF Statuses
  <2> QED
    BY <1>1, <1>2, <1>4, <2>2 DEF GivingBack, Promise!GiveBack, Statuses, Renewals, Terms
<1> QED
  BY <1>0, <1>1, <1>3, <1>4 DEF CancelsArePaid, Settled

LEMMA RStepsArePromised ==
  ASSUME OrdersAreCurrent, ReviewsAreCurrent, PromiseKept, [RNext]_allVars
  PROVE  [Promise!Next]_promised
<1>0. PInv /\ SentArePlaced /\ DeclinesAreHeard /\ StepInv /\ RInv
  BY DEF PromiseKept, PInv, RInv
<1>1. ASSUME NEW o \in OrderId, GivingBack(o) \/ Refunding(o) PROVE Promise!Next
  BY <1>1 DEF GivingBack, Refunding, Promise!Next
<1>2. CASE Next \/ UNCHANGED allVars
  <2>1. [Next]_vars
    BY <1>2 DEF allVars
  <2> QED
    BY <1>0, <2>1, RefundedAreSettled, StepsArePromised
<1>3. ASSUME UNCHANGED vars PROVE UNCHANGED promised
  BY <1>3 DEF vars, dbVars, providerVars, promised, Statuses, Renewals, Placed, Terms
<1>4. ASSUME NEW r \in Reviewers, Reviewing(r) PROVE [Promise!Next]_promised
  BY <1>0, <1>1, <1>3, <1>4, ReviewerSees, RefundIsPromised
<1>5. ASSUME NEW o \in OrderId, ProviderCancels(o) PROVE [Promise!Next]_promised
  BY <1>0, <1>1, <1>5, ReturnIsPromised
<1>6. CASE AiStart \/ \E outcome \in {"free", "abandoned"} : AiEnd(outcome)
  BY <1>3, <1>6 DEF AiStart, AiEnd
<1> QED
  BY <1>2, <1>4, <1>5, <1>6 DEF RNext

LEMMA RStepsKeepPromise ==
  ASSUME OrdersAreCurrent, ReviewsAreCurrent, PromiseKept, [RNext]_allVars
  PROVE  PromiseKept'
<1>0. /\ PInv /\ SentArePlaced /\ DeclinesAreHeard /\ StepInv /\ IInv /\ TypeOK /\ RInv
  BY DEF PromiseKept, PInv, RInv, StepInv, IInv
<1>1. PInv'
  BY <1>0, NextPInv
<1>2. CASE Next \/ UNCHANGED allVars
  <2>1. [Next]_vars
    BY <1>2 DEF allVars
  <2> QED
    BY <1>0, <1>1, <2>1, SentStayPlaced, DeclinesStayHeard DEF PromiseKept
<1>3. ASSUME UNCHANGED vars PROVE SentArePlaced' /\ DeclinesAreHeard'
  BY <1>0, <1>3 DEF vars, dbVars, providerVars, SentArePlaced, DeclinesAreHeard
<1>4. ASSUME NEW r \in Reviewers, Reviewing(r) PROVE SentArePlaced' /\ DeclinesAreHeard'
  <2>1. CASE RefundWrites(r) /\ CurrentReview(r)
    <3>1. \A p \in OrderId : /\ orders'[p].status = "NONE" => orders[p].status = "NONE"
                             /\ orders'[p].status = "FAILED" => orders[p].status = "FAILED"
      BY <1>0, <2>1, RefundRowMoves
    <3>2. UNCHANGED <<ledger, inflight, pc, job>>
      BY <2>1 DEF RefundWrites
    <3> QED
      BY <1>0, <3>1, <3>2 DEF SentArePlaced, DeclinesAreHeard
  <2> QED
    BY <1>0, <1>3, <1>4, <2>1, ReviewerSees
<1>5. ASSUME NEW o \in OrderId, ProviderCancels(o) PROVE SentArePlaced' /\ DeclinesAreHeard'
  <2>1. /\ o \in cancels /\ ledger' = [ledger EXCEPT ![o] = "CANCELED"]
        /\ UNCHANGED <<orders, inflight, pc, job>>
    BY <1>5 DEF ProviderCancels, dbVars
  <2>2. ledger[o] # "NONE"
    BY <1>0, <2>1 DEF PInv, RInv, CancelsArePaid, Settled
  <2>3. \A p \in OrderId : ledger'[p] # "NONE" <=> ledger[p] # "NONE"
    BY <1>0, <2>1, <2>2 DEF TypeOK
  <2>4. \A w \in Workers : pc[w] = "decline" => job[w].order \in OrderId
    BY <1>0, OrderInHand DEF OrderLabels
  <2> QED
    BY <1>0, <2>1, <2>3, <2>4 DEF SentArePlaced, DeclinesAreHeard
<1>6. CASE AiStart \/ \E outcome \in {"free", "abandoned"} : AiEnd(outcome)
  BY <1>1, <1>3, <1>6 DEF AiStart, AiEnd, PromiseKept
<1> QED
  BY <1>1, <1>2, <1>4, <1>5, <1>6 DEF RNext, PromiseKept

(* Billing with refunds implements PaidOrders in any configuration: beside  *)
(* charges, upgrades and polls, and with any number of admins at work,      *)
(* money is given back of settled orders alone, once, and with the refund   *)
(* the term is gone; only a transaction that writes by an order which has   *)
(* changed since it was loaded can break that.                              *)
THEOREM RefundsKeepThePromise ==
  RSpec /\ [][CopiesAreCurrent]_allVars => ImplementsPaidOrders
<1>1. RInit => PromiseKept
  BY InitPInv, InitPromiseInv DEF RInit, PromiseInv, PromiseKept
<1>2. PromiseKept /\ [RNext]_allVars /\ [CopiesAreCurrent]_allVars => PromiseKept'
  BY RStepsKeepPromise, StutteringIsCurrent
<1>3. PromiseKept /\ [RNext]_allVars /\ [CopiesAreCurrent]_allVars => [Promise!Next]_promised
  BY RStepsArePromised, StutteringIsCurrent
<1>4. RInit => Promise!Init
  BY InitIsPromised DEF RInit
<1>5. Promise!Init /\ [][Promise!Next]_promised => ImplementsPaidOrders
  BY DEF ImplementsPaidOrders, Promise!Spec, promised, Statuses, Renewals, Terms
<1> QED
  BY <1>1, <1>2, <1>3, <1>4, <1>5, PTL DEF RSpec
===============================================================================
