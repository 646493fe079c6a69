-------------------------- MODULE RequestLeaseProofs --------------------------
(***************************************************************************)
(* The lease of a member, for any number of requests, admins and any quota,*)
(* with and without open-in-view: if no request outlives the TTL of its    *)
(* permit, requests exclude one another, and every cost is accounted for.  *)
(***************************************************************************)
EXTENDS RequestLease, FiniteSetTheorems, TLAPS

Engaged(w) ==
  pc[w] \in {"holding", "calling", "metered", "empty", "unmetered", "closing"}

(* A request under way holds the lease, and the copy of it that its         *)
(* persistence context may have is the row as it is: the guard for every    *)
(* write of a whole row.                                                    *)
HoldsLease ==
  \A w \in Workers : Engaged(w) => lease.permit = w /\ (cache[w].exists => cache[w] = lease)

FreshContext == \A w \in Workers : pc[w] = "new" => ~cache[w].exists

OnlyLostExpire == \A w \in expired : pc[w] = "lost"

CostsComeLate ==
  \A w \in consumed : pc[w] \in {"metered", "empty", "unmetered", "closing", "done", "lost"}

(* Stronger than CostIsVisible: a cost that only the permit remembers is    *)
(* that of a request that died, so it is not forgotten by its release.      *)
CostIsAccounted ==
  \A w \in Unrecorded \ (forgiven \cup unmarked) :
    lease.uncertain \/ w \in InCall \/ (lease.permit = w /\ pc[w] = "lost")

(* What checkQuota found is still so when the answer comes.                 *)
RoomForAnswer ==
  QuotaEnabled => \A w \in Workers : pc[w] = "calling" =>
    ~lease.uncertain /\ Cardinality(Recorded) < RequestLimit

LeaseInv ==
  /\ TypeOK /\ HoldsLease /\ FreshContext /\ OnlyLostExpire
  /\ CostsComeLate /\ CostIsAccounted /\ RoomForAnswer /\ QuotaHolds

----------------------------------------------------------------------------
(* The methods of the row, and what a write stores *)

LEMMA Sizes == \A S \in SUBSET Workers : IsFiniteSet(S) /\ Cardinality(S) \in Nat
BY LeaseAssumption, FS_Subset, FS_CardinalityType

(* What the lease's methods compute, column by column. *)
LEMMA Methods ==
  ASSUME NEW l \in Lease, NEW w \in Workers
  PROVE  /\ Uncertain(l) \in Lease /\ Take(l, w) \in Lease /\ Free(l) \in Lease
         /\ Reconciled(l) \in Lease
         /\ Uncertain(l).permit = l.permit /\ Uncertain(l).uncertain
         /\ Uncertain(l).exists = l.exists
         /\ Take(l, w).exists /\ Take(l, w).permit = w /\ Take(l, w).uncertain = l.uncertain
         /\ Free(l).permit = NoOne /\ Free(l).uncertain = l.uncertain
         /\ Free(l).exists = l.exists
         /\ Reconciled(l).permit = NoOne
<1>1. Uncertain(l) \in Lease
  <2>1. l.revision + 1 \in Nat
    BY DEF Lease
  <2>2. \A n \in Nat : [l EXCEPT !.uncertain = TRUE, !.revision = n] \in Lease
    BY DEF Lease
  <2> QED
    BY <2>1, <2>2 DEF Uncertain
<1>2. Uncertain(l).permit = l.permit /\ Uncertain(l).uncertain /\ Uncertain(l).exists = l.exists
  BY DEF Lease, Uncertain
<1>3. /\ Take(l, w) \in Lease /\ Take(l, w).exists
      /\ Take(l, w).permit = w /\ Take(l, w).uncertain = l.uncertain
  BY DEF Lease, Take
<1>4. /\ Free(l) \in Lease /\ Free(l).permit = NoOne
      /\ Free(l).uncertain = l.uncertain /\ Free(l).exists = l.exists
  BY DEF Lease, Free
<1>5. Reconciled(l) \in Lease /\ Reconciled(l).permit = NoOne
  BY DEF Lease, Free, Reconciled
<1> QED
  BY <1>1, <1>2, <1>3, <1>4, <1>5

LEMMA RowTypes == NoLease \in Lease /\ ~NoLease.exists
  BY DEF Lease, NoLease

(* A request whose copy is the row stores what it computed.                 *)
LEMMA Stored ==
  ASSUME TypeOK, NEW w \in Workers, NEW l \in Lease, Seen(w) = lease, Write(w, l)
  PROVE  /\ lease' = l
         /\ cache' \in [Workers -> Lease]
         /\ cache'[w] = l \/ ~cache'[w].exists
         /\ \A q \in Workers \ {w} : cache'[q] = cache[q]
  BY RowTypes DEF Write, TypeOK

(* A request that starts, or is under way, works on the row as it is.       *)
LEMMA SeesRow ==
  ASSUME HoldsLease, FreshContext, NEW w \in Workers, pc[w] = "new" \/ Engaged(w)
  PROVE  Seen(w) = lease
  BY DEF HoldsLease, FreshContext, Seen

(* Two requests are never under way at once. *)
LEMMA OneEngaged ==
  ASSUME HoldsLease, NEW w \in Workers, NEW q \in Workers, Engaged(w), Engaged(q)
  PROVE  q = w
  BY DEF HoldsLease

LEMMA InitLeaseInv == Init => LeaseInv
<1> SUFFICES ASSUME Init PROVE LeaseInv
  OBVIOUS
<1>1. TypeOK
  BY RowTypes DEF Init, TypeOK, Labels, Review, NoReview
<1>2. HoldsLease /\ FreshContext /\ OnlyLostExpire /\ CostsComeLate /\ CostIsAccounted
  BY RowTypes DEF Init, HoldsLease, FreshContext, OnlyLostExpire, CostsComeLate,
                  CostIsAccounted, Engaged, Unrecorded
<1>3. RoomForAnswer
  BY DEF Init, RoomForAnswer
<1>4. QuotaHolds
  BY FS_EmptySet, LeaseAssumption DEF Init, QuotaHolds
<1> QED
  BY <1>1, <1>2, <1>3, <1>4 DEF LeaseInv

----------------------------------------------------------------------------
(* The steps that leave the lease and the account alone *)

(* Refusals, the end of a step, a failure of the call or of the record, a   *)
(* crash: only the place of the request changes, and perhaps its copy.      *)
LEMMA MoveStep ==
  ASSUME LeaseInv, NEW w \in Workers,
         AcquireRefused(w) \/ CloseEarly(w) \/ CheckQuota(w) \/ CallFails(w)
           \/ RecordFails(w) \/ Crash(w)
  PROVE  LeaseInv'
<1>0. /\ TypeOK /\ HoldsLease /\ FreshContext /\ OnlyLostExpire
      /\ CostsComeLate /\ CostIsAccounted /\ RoomForAnswer /\ QuotaHolds
  BY DEF LeaseInv
<1>1. UNCHANGED <<lease, expired, metered, empty, review, consumed, forgiven, unmarked>>
  BY DEF AcquireRefused, CloseEarly, CheckQuota, CallFails, RecordFails, Crash, records, history
<1>2. /\ pc' = [pc EXCEPT ![w] = pc'[w]] /\ pc'[w] \in Labels
      /\ pc[w] = "new" => pc'[w] = "refused"
      /\ Engaged(w)' => Engaged(w)
      /\ pc'[w] # "new"
  BY <1>0 DEF TypeOK, AcquireRefused, CloseEarly, CheckQuota, CallFails, RecordFails, Crash,
              Goto, Labels, Engaged
<1>3. /\ cache' \in [Workers -> Lease]
      /\ cache'[w] = cache[w] \/ ~cache'[w].exists
      /\ \A q \in Workers \ {w} : cache'[q] = cache[q] /\ pc'[q] = pc[q]
  BY <1>0, <1>2, RowTypes DEF TypeOK, AcquireRefused, CloseEarly, CheckQuota, CallFails,
                               RecordFails, Crash
<1>4. TypeOK'
  BY <1>0, <1>1, <1>2, <1>3 DEF TypeOK
<1>5. HoldsLease'
  BY <1>0, <1>1, <1>2, <1>3 DEF HoldsLease, Engaged, TypeOK
<1>6. FreshContext'
  BY <1>0, <1>2, <1>3 DEF FreshContext, TypeOK
<1>7. OnlyLostExpire'
  <2>1. pc[w] # "lost"
    BY <1>0 DEF AcquireRefused, CloseEarly, CheckQuota, CallFails, RecordFails, Crash
  <2> QED
    BY <1>0, <1>1, <1>3, <2>1 DEF OnlyLostExpire, TypeOK
<1>8. CostsComeLate'
  <2>1. w \in consumed => pc'[w] \in {"unmetered", "lost"}
    BY <1>0, <1>2 DEF CostsComeLate, TypeOK, AcquireRefused, CloseEarly, CheckQuota, CallFails,
                      RecordFails, Crash, Goto
  <2> QED
    BY <1>0, <1>1, <1>3, <2>1 DEF CostsComeLate, TypeOK
<1>9. CostIsAccounted'
  <2> SUFFICES ASSUME NEW q \in Unrecorded' \ (forgiven' \cup unmarked')
               PROVE  lease'.uncertain \/ (q \in InCall)' \/ (lease'.permit = q /\ pc'[q] = "lost")
    BY DEF CostIsAccounted
  <2>1. q \in Workers /\ q \in Unrecorded \ (forgiven \cup unmarked) /\ q \in consumed
    BY <1>0, <1>1 DEF TypeOK, Unrecorded, Recorded
  <2>2. lease.uncertain \/ q \in InCall \/ (lease.permit = q /\ pc[q] = "lost")
    BY <1>0, <2>1 DEF CostIsAccounted
  <2>3. CASE q # w
    BY <1>1, <1>3, <2>1, <2>2, <2>3 DEF InCall
  <2>4. CASE q = w
    <3>1. CASE RecordFails(w)
      BY <1>0, <2>1, <2>4, <3>1 DEF RecordFails, Goto, InCall, TypeOK
    <3>2. CASE Crash(w)
      <4>1. lease.permit = w /\ pc'[w] = "lost"
        BY <1>0, <3>2 DEF Crash, HoldsLease, Engaged, Goto, TypeOK
      <4> QED
        BY <1>1, <2>4, <4>1
    <3> QED
      BY <1>0, <2>1, <2>4, <3>1, <3>2
         DEF CostsComeLate, AcquireRefused, CloseEarly, CheckQuota, CallFails
  <2> QED
    BY <2>3, <2>4
<1>10. RoomForAnswer'
  <2> SUFFICES ASSUME QuotaEnabled, NEW q \in Workers, pc'[q] = "calling"
               PROVE  ~lease'.uncertain /\ Cardinality(Recorded') < RequestLimit
    BY DEF RoomForAnswer
  <2>1. Recorded' = Recorded
    BY <1>1 DEF Recorded
  <2>2. CASE q # w
    BY <1>0, <1>1, <1>3, <2>1, <2>2 DEF RoomForAnswer
  <2>3. CASE q = w
    <3>1. CheckQuota(w)
      BY <1>0, <2>3 DEF AcquireRefused, CloseEarly, CallFails, RecordFails, Crash, Goto, TypeOK
    <3>2. WithinQuota(w) /\ Engaged(w)
      BY <3>1 DEF CheckQuota, Engaged
    <3> QED
      BY <1>0, <1>1, <2>1, <3>2, SeesRow DEF WithinQuota
  <2> QED
    BY <2>2, <2>3
<1>11. QuotaHolds'
  BY <1>0, <1>1 DEF QuotaHolds
<1> QED
  BY <1>4, <1>5, <1>6, <1>7, <1>8, <1>9, <1>10, <1>11 DEF LeaseInv

----------------------------------------------------------------------------
(* The steps that write the lease *)

(* A permit that did not expire keeps others out; one that was left behind, *)
(* and what it may have cost, is marked by the next.                        *)
LEMMA AcquireStep ==
  ASSUME LeaseInv, NEW w \in Workers, Acquire(w)
  PROVE  LeaseInv'
<1>0. /\ TypeOK /\ HoldsLease /\ FreshContext /\ OnlyLostExpire
      /\ CostsComeLate /\ CostIsAccounted /\ RoomForAnswer /\ QuotaHolds
  BY DEF LeaseInv
<1> DEFINE l == Take(IF Abandoned(lease) THEN Uncertain(lease) ELSE lease, w)
<1>1. /\ l \in Lease /\ l.exists /\ l.permit = w
      /\ lease.uncertain => l.uncertain
      /\ lease.permit # NoOne => l.uncertain
  BY <1>0, Methods DEF TypeOK, Abandoned
<1>2. /\ UNCHANGED <<expired, metered, empty, review, consumed, forgiven, unmarked>>
      /\ pc[w] = "new" /\ pc' = [pc EXCEPT ![w] = "holding"]
      /\ Write(w, l)
  BY DEF Acquire, records, history, Goto
<1> HIDE DEF l
<1>3. /\ lease' = l
      /\ cache' \in [Workers -> Lease]
      /\ cache'[w] = l \/ ~cache'[w].exists
      /\ \A q \in Workers \ {w} : cache'[q] = cache[q] /\ pc'[q] = pc[q]
      /\ pc'[w] = "holding"
  BY <1>0, <1>1, <1>2, SeesRow, Stored DEF TypeOK
<1>4. \A q \in Workers : ~Engaged(q)
  <2> SUFFICES ASSUME NEW q \in Workers, Engaged(q)
               PROVE  FALSE
    OBVIOUS
  <2>1. lease.permit = q /\ q # NoOne
    BY <1>0, LeaseAssumption DEF HoldsLease
  <2>2. q \notin expired
    BY <1>0 DEF OnlyLostExpire, Engaged
  <2> QED
    BY <2>1, <2>2 DEF Acquire, ActiveNow
<1>5. TypeOK'
  BY <1>0, <1>1, <1>2, <1>3 DEF TypeOK, Labels
<1>6. HoldsLease'
  BY <1>1, <1>3, <1>4 DEF HoldsLease, Engaged
<1>7. FreshContext' /\ OnlyLostExpire' /\ CostsComeLate'
  BY <1>0, <1>2, <1>3 DEF FreshContext, OnlyLostExpire, CostsComeLate, TypeOK
<1>8. CostIsAccounted'
  <2> SUFFICES ASSUME NEW q \in Unrecorded' \ (forgiven' \cup unmarked')
               PROVE  lease'.uncertain
    BY DEF CostIsAccounted
  <2>1. q \in Workers /\ q \in Unrecorded \ (forgiven \cup unmarked)
    BY <1>0, <1>2 DEF TypeOK, Unrecorded, Recorded
  <2>2. q \notin InCall
    BY <1>4 DEF InCall, Engaged
  <2>3. lease.uncertain \/ lease.permit # NoOne
    BY <1>0, <2>1, <2>2, LeaseAssumption DEF CostIsAccounted
  <2> QED
    BY <1>1, <1>3, <2>3
<1>9. RoomForAnswer'
  BY <1>3, <1>4 DEF RoomForAnswer, Engaged
<1>10. QuotaHolds'
  BY <1>0, <1>2 DEF QuotaHolds
<1> QED
  BY <1>5, <1>6, <1>7, <1>8, <1>9, <1>10 DEF LeaseInv

(* The mark of a missing usage. *)
LEMMA MarkStep ==
  ASSUME LeaseInv, NEW w \in Workers, UsageMissing(w)
  PROVE  LeaseInv'
<1>0. /\ TypeOK /\ HoldsLease /\ FreshContext /\ OnlyLostExpire
      /\ CostsComeLate /\ CostIsAccounted /\ RoomForAnswer /\ QuotaHolds
  BY DEF LeaseInv
<1>a. pc[w] = "unmetered" /\ Engaged(w) /\ Seen(w) = lease
  BY <1>0, SeesRow DEF UsageMissing, Engaged
<1> DEFINE l == Uncertain(lease)
<1>1. l \in Lease /\ l.permit = lease.permit /\ l.uncertain
  BY <1>0, Methods, <1>a DEF TypeOK
<1>2. /\ UNCHANGED <<expired, metered, empty, review, consumed, forgiven, unmarked>>
      /\ pc' = [pc EXCEPT ![w] = "closing"]
      /\ Write(w, l)
  BY <1>a DEF UsageMissing, records, history, Goto
<1> HIDE DEF l
<1>3. /\ lease' = l
      /\ cache' \in [Workers -> Lease]
      /\ cache'[w] = l \/ ~cache'[w].exists
      /\ \A q \in Workers \ {w} : cache'[q] = cache[q] /\ pc'[q] = pc[q]
      /\ pc'[w] = "closing"
  BY <1>0, <1>a, <1>1, <1>2, Stored DEF TypeOK
<1>4. \A q \in Workers \ {w} : ~Engaged(q)
  BY <1>0, <1>a, OneEngaged
<1>5. TypeOK'
  BY <1>0, <1>1, <1>2, <1>3 DEF TypeOK, Labels
<1>6. HoldsLease'
  BY <1>0, <1>a, <1>1, <1>3, <1>4 DEF HoldsLease, Engaged
<1>7. FreshContext' /\ OnlyLostExpire' /\ CostsComeLate'
  BY <1>0, <1>a, <1>2, <1>3 DEF FreshContext, OnlyLostExpire, CostsComeLate, TypeOK
<1>8. CostIsAccounted'
  BY <1>1, <1>3 DEF CostIsAccounted
<1>9. RoomForAnswer'
  BY <1>3, <1>4 DEF RoomForAnswer, Engaged
<1>10. QuotaHolds'
  BY <1>0, <1>2 DEF QuotaHolds
<1> QED
  BY <1>5, <1>6, <1>7, <1>8, <1>9, <1>10 DEF LeaseInv

(* A release frees the permit of a request whose cost is recorded, marked,  *)
(* or beyond remembering (unmarked).                                        *)
LEMMA ReleaseStep ==
  ASSUME LeaseInv, NEW w \in Workers, Release(w)
  PROVE  LeaseInv'
<1>0. /\ TypeOK /\ HoldsLease /\ FreshContext /\ OnlyLostExpire
      /\ CostsComeLate /\ CostIsAccounted /\ RoomForAnswer /\ QuotaHolds
  BY DEF LeaseInv
<1>a. pc[w] = "closing" /\ Engaged(w) /\ Seen(w) = lease /\ lease.permit = w
  BY <1>0, SeesRow DEF Release, Engaged, HoldsLease
<1> DEFINE l == Free(lease)
<1>1. l \in Lease /\ l.permit = NoOne /\ l.uncertain = lease.uncertain
  BY <1>0, Methods, <1>a DEF TypeOK
<1>2. /\ UNCHANGED <<expired, metered, empty, review, consumed, forgiven, unmarked>>
      /\ pc' = [pc EXCEPT ![w] = "done"]
      /\ Write(w, l)
  BY <1>a DEF Release, Owns, records, history, Goto
<1> HIDE DEF l
<1>3. /\ lease' = l
      /\ cache' \in [Workers -> Lease]
      /\ \A q \in Workers \ {w} : cache'[q] = cache[q] /\ pc'[q] = pc[q]
      /\ pc'[w] = "done"
  BY <1>0, <1>a, <1>1, <1>2, Stored DEF TypeOK
<1>4. \A q \in Workers \ {w} : ~Engaged(q)
  BY <1>0, <1>a, OneEngaged
<1>5. TypeOK'
  BY <1>0, <1>1, <1>2, <1>3 DEF TypeOK, Labels
<1>6. HoldsLease'
  BY <1>3, <1>4 DEF HoldsLease, Engaged
<1>7. FreshContext' /\ OnlyLostExpire' /\ CostsComeLate'
  BY <1>0, <1>a, <1>2, <1>3 DEF FreshContext, OnlyLostExpire, CostsComeLate, TypeOK
<1>8. CostIsAccounted'
  <2> SUFFICES ASSUME NEW q \in Unrecorded' \ (forgiven' \cup unmarked')
               PROVE  lease'.uncertain
    BY DEF CostIsAccounted
  <2>1. q \in Workers /\ q \in Unrecorded \ (forgiven \cup unmarked)
    BY <1>0, <1>2 DEF TypeOK, Unrecorded, Recorded
  <2>2. q \notin InCall /\ ~(lease.permit = q /\ pc[q] = "lost")
    BY <1>a, <1>4 DEF InCall, Engaged
  <2> QED
    BY <1>0, <1>1, <1>3, <2>1, <2>2 DEF CostIsAccounted
<1>9. RoomForAnswer'
  BY <1>3, <1>4 DEF RoomForAnswer, Engaged
<1>10. QuotaHolds'
  BY <1>0, <1>2 DEF QuotaHolds
<1> QED
  BY <1>5, <1>6, <1>7, <1>8, <1>9, <1>10 DEF LeaseInv

----------------------------------------------------------------------------
(* The steps that write the account *)

(* An answer of the RAG server; its kind says how it can be recorded. *)
LEMMA AnswerStep ==
  ASSUME LeaseInv, NEW w \in Workers, NEW kind \in {"metered", "empty", "unmetered"},
         Answer(w, kind)
  PROVE  LeaseInv'
<1>0. /\ TypeOK /\ HoldsLease /\ FreshContext /\ OnlyLostExpire
      /\ CostsComeLate /\ CostIsAccounted /\ RoomForAnswer /\ QuotaHolds
  BY DEF LeaseInv
<1>1. /\ UNCHANGED <<lease, expired, metered, empty, cache, review, forgiven, unmarked>>
      /\ consumed' = consumed \cup {w}
      /\ pc[w] = "calling" /\ Engaged(w) /\ pc' = [pc EXCEPT ![w] = kind]
  BY DEF Answer, records, Goto, Engaged
<1>2. pc'[w] = kind /\ (w \in InCall)' /\ \A q \in Workers \ {w} : pc'[q] = pc[q] /\ ~Engaged(q)
  BY <1>0, <1>1, OneEngaged DEF TypeOK, InCall
<1>3. TypeOK'
  BY <1>0, <1>1 DEF TypeOK, Labels
<1>4. HoldsLease' /\ FreshContext' /\ OnlyLostExpire' /\ CostsComeLate'
  BY <1>0, <1>1, <1>2 DEF HoldsLease, FreshContext, OnlyLostExpire, CostsComeLate, Engaged, TypeOK
<1>5. CostIsAccounted'
  BY <1>0, <1>1, <1>2 DEF CostIsAccounted, Unrecorded, Recorded, InCall
<1>6. RoomForAnswer'
  BY <1>2 DEF RoomForAnswer, Engaged
<1>7. QuotaHolds'
  <2> SUFFICES ASSUME QuotaEnabled
               PROVE  Cardinality(consumed' \ (forgiven \cup unmarked)) <= RequestLimit
    BY <1>1 DEF QuotaHolds
  <2>1. ~lease.uncertain /\ Cardinality(Recorded) < RequestLimit
    BY <1>0, <1>1 DEF RoomForAnswer
  <2>2. lease.permit = w
    BY <1>0, <1>1 DEF HoldsLease
  <2>3. consumed' \ (forgiven \cup unmarked) \subseteq Recorded \cup {w}
    <3> SUFFICES ASSUME NEW q \in consumed, q \notin forgiven \cup unmarked, q # w
                 PROVE  q \in Recorded
      BY <1>1
    <3>1. q \in Workers /\ q \notin InCall
      BY <1>0, <1>2 DEF TypeOK, InCall, Engaged
    <3> QED
      BY <1>0, <2>1, <2>2, <3>1 DEF CostIsAccounted, Unrecorded
  <2>4. Recorded \in SUBSET Workers /\ Recorded \cup {w} \in SUBSET Workers
    BY <1>0 DEF TypeOK, Recorded
  <2>5. IsFiniteSet(Recorded) /\ Cardinality(Recorded \cup {w}) <= Cardinality(Recorded) + 1
    BY <2>4, Sizes, FS_AddElement
  <2>6. Cardinality(consumed' \ (forgiven \cup unmarked)) <= Cardinality(Recorded \cup {w})
    BY <2>3, <2>4, Sizes, FS_Subset
  <2>7. /\ Cardinality(consumed' \ (forgiven \cup unmarked)) \in Nat
        /\ Cardinality(Recorded) \in Nat /\ Cardinality(Recorded \cup {w}) \in Nat
    BY <2>3, <2>4, Sizes
  <2> QED
    BY <2>1, <2>5, <2>6, <2>7, LeaseAssumption
<1> QED
  BY <1>3, <1>4, <1>5, <1>6, <1>7 DEF LeaseInv

(* The usage is recorded, or the mark of a missing one fails.               *)
LEMMA RecordStep ==
  ASSUME LeaseInv, NEW w \in Workers, Record(w) \/ UsageMissingFails(w)
  PROVE  LeaseInv'
<1>0. /\ TypeOK /\ HoldsLease /\ FreshContext /\ OnlyLostExpire
      /\ CostsComeLate /\ CostIsAccounted /\ RoomForAnswer /\ QuotaHolds
  BY DEF LeaseInv
<1>1. /\ UNCHANGED <<lease, expired, cache, review, consumed, forgiven>>
      /\ pc[w] \in {"metered", "empty", "unmetered"} /\ Engaged(w)
      /\ pc' = [pc EXCEPT ![w] = "closing"]
  BY DEF Record, UsageMissingFails, history, Goto, Engaged
<1>2. /\ metered' \in SUBSET Workers /\ empty' \in SUBSET Workers /\ unmarked' \in SUBSET Workers
      /\ metered \subseteq metered' /\ empty \subseteq empty' /\ unmarked \subseteq unmarked'
      /\ w \in metered' \cup empty' \cup unmarked'
  BY <1>0 DEF TypeOK, Record, UsageMissingFails, records, history
<1>3. pc'[w] = "closing" /\ \A q \in Workers \ {w} : pc'[q] = pc[q] /\ ~Engaged(q)
  BY <1>0, <1>1, OneEngaged DEF TypeOK
<1>4. TypeOK'
  BY <1>0, <1>1, <1>2 DEF TypeOK, Labels
<1>5. HoldsLease' /\ FreshContext' /\ OnlyLostExpire' /\ CostsComeLate'
  BY <1>0, <1>1, <1>3 DEF HoldsLease, FreshContext, OnlyLostExpire, CostsComeLate, Engaged, TypeOK
<1>6. CostIsAccounted'
  <2> SUFFICES ASSUME NEW q \in Unrecorded' \ (forgiven' \cup unmarked')
               PROVE  lease'.uncertain \/ (q \in InCall)' \/ (lease'.permit = q /\ pc'[q] = "lost")
    BY DEF CostIsAccounted
  <2>1. q \in Workers /\ q \in Unrecorded \ (forgiven \cup unmarked) /\ q # w
    BY <1>0, <1>1, <1>2 DEF TypeOK, Unrecorded, Recorded
  <2> QED
    BY <1>0, <1>1, <1>3, <2>1 DEF CostIsAccounted, InCall
<1>7. RoomForAnswer'
  BY <1>3 DEF RoomForAnswer, Engaged
<1>8. QuotaHolds'
  <2> SUFFICES ASSUME QuotaEnabled
               PROVE  Cardinality(consumed \ (forgiven \cup unmarked')) <= RequestLimit
    BY <1>1 DEF QuotaHolds
  <2> DEFINE S == consumed \ (forgiven \cup unmarked)
             T == consumed \ (forgiven \cup unmarked')
  <2>1. T \subseteq S /\ S \in SUBSET Workers /\ T \in SUBSET Workers
    BY <1>0, <1>2 DEF TypeOK
  <2>2. Cardinality(S) <= RequestLimit
    BY <1>0 DEF QuotaHolds
  <2> HIDE DEF S, T
  <2>3. Cardinality(T) <= Cardinality(S) /\ Cardinality(T) \in Nat /\ Cardinality(S) \in Nat
    BY <2>1, Sizes, FS_Subset
  <2>4. Cardinality(T) <= RequestLimit
    BY <2>2, <2>3, LeaseAssumption
  <2> QED
    BY <2>4 DEF T
<1> QED
  BY <1>4, <1>5, <1>6, <1>7, <1>8 DEF LeaseInv

----------------------------------------------------------------------------
(* The clock and the admin *)

LEMMA ExpireStep ==
  ASSUME LeaseInv, ~LateWorkers, Expire
  PROVE  LeaseInv'
<1>0. /\ TypeOK /\ HoldsLease /\ FreshContext /\ OnlyLostExpire
      /\ CostsComeLate /\ CostIsAccounted /\ RoomForAnswer /\ QuotaHolds
  BY DEF LeaseInv
<1>1. /\ UNCHANGED <<lease, metered, empty, pc, cache, review, consumed, forgiven, unmarked>>
      /\ expired' = expired \cup {lease.permit} /\ pc[lease.permit] = "lost"
      /\ lease.permit # NoOne
  BY DEF Expire, records, history, ActiveNow
<1>2. lease.permit \in Workers
  BY <1>0, <1>1 DEF TypeOK, Lease
<1>3. TypeOK' /\ OnlyLostExpire'
  BY <1>0, <1>1, <1>2 DEF TypeOK, OnlyLostExpire
<1> QED
  BY <1>0, <1>1, <1>3 DEF LeaseInv, HoldsLease, FreshContext, CostsComeLate, CostIsAccounted,
       RoomForAnswer, QuotaHolds, Engaged, Unrecorded, Recorded, InCall

LEMMA ReviewStep ==
  ASSUME LeaseInv, NEW a \in Admins, OpenReview(a) \/ Reconcile(a)
  PROVE  LeaseInv'
<1>0. /\ TypeOK /\ HoldsLease /\ FreshContext /\ OnlyLostExpire
      /\ CostsComeLate /\ CostIsAccounted /\ RoomForAnswer /\ QuotaHolds
  BY DEF LeaseInv
<1>1. UNCHANGED <<expired, metered, empty, pc, cache, consumed, unmarked>>
  BY DEF OpenReview, Reconcile, records, history
<1>2. review' \in [Admins -> Review]
  <2>1. lease.revision \in Nat /\ Cardinality(metered) \in Nat /\ Unrecorded \in SUBSET Workers
    BY <1>0, Sizes DEF TypeOK, Lease, Unrecorded
  <2>2. NoReview \in Review
    BY DEF NoReview, Review
  <2>3. [open |-> TRUE, revision |-> lease.revision,
         total |-> Cardinality(metered), shown |-> Unrecorded] \in Review
    BY <2>1 DEF Review
  <2> QED
    BY <1>0, <2>2, <2>3 DEF TypeOK, OpenReview, Reconcile
<1>3. CASE OpenReview(a)
  BY <1>0, <1>1, <1>2, <1>3 DEF OpenReview, history, LeaseInv, TypeOK, HoldsLease, FreshContext,
       OnlyLostExpire, CostsComeLate, CostIsAccounted, RoomForAnswer, QuotaHolds, Engaged,
       Unrecorded, Recorded, InCall
<1>4. CASE Reconcile(a)
  <2>1. /\ lease' = Reconciled(lease) /\ forgiven' = forgiven \cup Unrecorded
        /\ ~ActiveNow(lease)
    BY <1>4 DEF Reconcile
  <2>2. lease' \in Lease
    <3>1. CASE Workers # {}
      BY <1>0, <2>1, <3>1, Methods DEF TypeOK
    <3>2. CASE Workers = {}
      BY <1>0, <2>1, <3>2 DEF TypeOK, Lease, Reconciled, Free
    <3> QED
      BY <3>1, <3>2
  <2>3. TypeOK'
    BY <1>0, <1>1, <1>2, <2>1, <2>2 DEF TypeOK, Unrecorded
  <2>4. \A q \in Workers : ~Engaged(q)
    <3> SUFFICES ASSUME NEW q \in Workers, Engaged(q)
                 PROVE  FALSE
      OBVIOUS
    <3>1. lease.permit = q /\ q # NoOne
      BY <1>0, LeaseAssumption DEF HoldsLease
    <3>2. q \notin expired
      BY <1>0 DEF OnlyLostExpire, Engaged
    <3> QED
      BY <2>1, <3>1, <3>2 DEF ActiveNow
  <2>5. HoldsLease' /\ RoomForAnswer'
    BY <1>1, <2>4 DEF HoldsLease, RoomForAnswer, Engaged
  <2>6. FreshContext' /\ OnlyLostExpire' /\ CostsComeLate'
    BY <1>0, <1>1 DEF FreshContext, OnlyLostExpire, CostsComeLate
  <2>7. CostIsAccounted'
    BY <1>1, <2>1 DEF CostIsAccounted, Unrecorded, Recorded
  <2>8. QuotaHolds'
    <3> SUFFICES ASSUME QuotaEnabled
                 PROVE  Cardinality(consumed \ (forgiven' \cup unmarked)) <= RequestLimit
      BY <1>1 DEF QuotaHolds
    <3> DEFINE S == consumed \ (forgiven \cup unmarked)
               T == consumed \ (forgiven' \cup unmarked)
    <3>1. T \subseteq S /\ S \in SUBSET Workers /\ T \in SUBSET Workers
      BY <1>0, <2>1 DEF TypeOK
    <3>2. Cardinality(S) <= RequestLimit
      BY <1>0 DEF QuotaHolds
    <3> HIDE DEF S, T
    <3>3. Cardinality(T) <= Cardinality(S) /\ Cardinality(T) \in Nat /\ Cardinality(S) \in Nat
      BY <3>1, Sizes, FS_Subset
    <3>4. Cardinality(T) <= RequestLimit
      BY <3>2, <3>3, LeaseAssumption
    <3> QED
      BY <3>4 DEF T
  <2> QED
    BY <2>3, <2>5, <2>6, <2>7, <2>8 DEF LeaseInv
<1> QED
  BY <1>3, <1>4

----------------------------------------------------------------------------
LEMMA NextLeaseInv == ~LateWorkers /\ LeaseInv /\ [Next]_vars => LeaseInv'
<1> SUFFICES ASSUME ~LateWorkers, LeaseInv, [Next]_vars
             PROVE  LeaseInv'
  OBVIOUS
<1>1. ASSUME NEW w \in Workers, Improve(w)
      PROVE  LeaseInv'
  BY <1>1, MoveStep, AcquireStep, MarkStep, ReleaseStep, AnswerStep, RecordStep DEF Improve
<1>2. CASE Expire
  BY <1>2, ExpireStep
<1>3. ASSUME NEW a \in Admins, OpenReview(a) \/ Reconcile(a)
      PROVE  LeaseInv'
  BY <1>3, ReviewStep
<1>4. CASE UNCHANGED vars
  BY <1>4 DEF vars, records, history, LeaseInv, TypeOK, HoldsLease, FreshContext, OnlyLostExpire,
       CostsComeLate, CostIsAccounted, RoomForAnswer, QuotaHolds, Engaged, Unrecorded, Recorded,
       InCall
<1> QED
  BY <1>1, <1>2, <1>3, <1>4 DEF Next

(* Requests that stay within the TTL of their permit exclude one another    *)
(* between the start of the AI call and the end of its accounting, although *)
(* each writes the whole lease row from a copy it may have loaded before.   *)
THEOREM RequestsExclude == ~LateWorkers => (Spec => [](TypeOK /\ OneCallAtATime))
<1> SUFFICES ASSUME ~LateWorkers PROVE Spec => [](TypeOK /\ OneCallAtATime)
  OBVIOUS
<1>1. LeaseInv => TypeOK /\ OneCallAtATime
  <2> SUFFICES ASSUME LeaseInv PROVE OneCallAtATime
    BY DEF LeaseInv
  <2>1. InCall \in SUBSET {lease.permit}
    BY DEF LeaseInv, HoldsLease, InCall, Engaged
  <2>2. Cardinality({lease.permit}) = 1 /\ IsFiniteSet({lease.permit})
    BY FS_Singleton
  <2> QED
    BY <2>1, <2>2, FS_Subset, FS_CardinalityType DEF OneCallAtATime
<1>2. LeaseInv /\ [Next]_vars => LeaseInv'
  BY NextLeaseInv
<1> QED
  BY InitLeaseInv, <1>1, <1>2, PTL DEF Spec

(* No crash, failed record or expired permit hides an answer that cost      *)
(* something from the account, other than those recorded and marked in vain.*)
THEOREM CostsStayVisible == ~LateWorkers => (Spec => []CostIsVisible)
<1> SUFFICES ASSUME ~LateWorkers PROVE Spec => []CostIsVisible
  OBVIOUS
<1>1. LeaseInv => CostIsVisible
  BY DEF LeaseInv, CostIsAccounted, CostIsVisible
<1>2. LeaseInv /\ [Next]_vars => LeaseInv'
  BY NextLeaseInv
<1> QED
  BY InitLeaseInv, <1>1, <1>2, PTL DEF Spec

(* The quota holds for any limit and any number of requests, although it is *)
(* checked in one transaction and used up in another.                       *)
THEOREM QuotaIsKept == ~LateWorkers => (Spec => []QuotaHolds)
<1> SUFFICES ASSUME ~LateWorkers PROVE Spec => []QuotaHolds
  OBVIOUS
<1>1. LeaseInv => QuotaHolds
  BY DEF LeaseInv
<1>2. LeaseInv /\ [Next]_vars => LeaseInv'
  BY NextLeaseInv
<1> QED
  BY InitLeaseInv, <1>1, <1>2, PTL DEF Spec

(* A permit that has not expired goes only with the release of the request  *)
(* it was given to: neither another request nor an admin takes it away.     *)
THEOREM PermitsAreKept == ~LateWorkers => (Spec => LivePermitKept)
<1> SUFFICES ASSUME ~LateWorkers PROVE Spec => LivePermitKept
  OBVIOUS
<1> DEFINE Kept == ActiveNow(lease) /\ lease'.permit # lease.permit
                     => pc[lease.permit] = "closing" /\ pc'[lease.permit] = "done"
<1>1. ASSUME LeaseInv, Next, ActiveNow(lease), lease'.permit # lease.permit
      PROVE  pc[lease.permit] = "closing" /\ pc'[lease.permit] = "done"
  <2>0. TypeOK /\ HoldsLease /\ FreshContext
    BY <1>1 DEF LeaseInv
  <2>1. PICK w \in Workers : UsageMissing(w) \/ Release(w)
    BY <1>1 DEF Next, Improve, AcquireRefused, Acquire, CloseEarly, CheckQuota, Answer, CallFails,
       Record, RecordFails, UsageMissingFails, Crash, Expire, OpenReview, Reconcile
  <2>2. Engaged(w) /\ Seen(w) = lease /\ lease.permit = w
    BY <2>0, <2>1, SeesRow DEF UsageMissing, Release, Engaged, HoldsLease
  <2>3. Uncertain(lease) \in Lease /\ Uncertain(lease).permit = lease.permit
    BY <2>0, Methods DEF TypeOK
  <2>4. ~UsageMissing(w)
    BY <1>1, <2>0, <2>2, <2>3, Stored DEF UsageMissing
  <2> QED
    BY <2>0, <2>1, <2>2, <2>4 DEF Release, Goto, TypeOK
<1>2. LeaseInv /\ [Next]_vars => [Kept]_vars
  BY <1>1
<1>3. LeaseInv /\ [Next]_vars => LeaseInv'
  BY NextLeaseInv
<1> QED
  BY InitLeaseInv, <1>2, <1>3, PTL DEF Spec, LivePermitKept
=============================================================================
