-------------------------- MODULE GuestUsageProofs --------------------------
(***************************************************************************)
(* The optimistic lock of the guest counters, for any number of requests,  *)
(* any limit and any number of retries, late requests included.            *)
(***************************************************************************)
EXTENDS GuestUsage, FiniteSetTheorems, TLAPS

Holder(r) == pc[r] \in {"reserving", "updating"}

(* The version tells copies apart: what a transaction has read is older     *)
(* than the row, or is the row.  Without this a write that passes the       *)
(* version check could still be computed from stale counters.               *)
VersionIdentifies ==
  \A r \in Requests : Holder(r) =>
    /\ seen[r].usage.version <= usage.version
    /\ seen[r].usage.version = usage.version => seen[r].usage = usage

(* What reserve has checked of its copy by the time it commits.             *)
CheckedBelowLimit ==
  \A r \in Requests : pc[r] = "reserving" =>
    ~AtLimit(Free(seen[r].usage, Cardinality(seen[r].expired)))

(* A request that still runs has an attempt left.                           *)
TriesLeft == \A r \in Requests : pc[r] # "lost" => tries[r] < MaxRetries

IInv == TypeOK /\ TriesLeft /\ StoredWithinLimit /\ VersionIdentifies /\ CheckedBelowLimit

(* Sets of requests are finite. *)
LEMMA CountOfRequests == \A S \in SUBSET Requests : Cardinality(S) \in Nat
BY GuestAssumption, FS_Subset, FS_CardinalityType

(* What the counters' methods compute, column by column.                    *)
LEMMA Methods ==
  ASSUME NEW u \in Usage, NEW n \in Nat
  PROVE  /\ Reserve(u) = [used |-> u.used, reserved |-> u.reserved + 1,
                          version |-> u.version]
         /\ Complete(u) = [used |-> u.used + 1, reserved |-> u.reserved - 1,
                           version |-> u.version]
         /\ Free(u, n) = [used |-> u.used, reserved |-> u.reserved - n,
                          version |-> u.version]
<1>1. u = [used |-> u.used, reserved |-> u.reserved, version |-> u.version]
  BY DEF Usage
<1> DEFINE a == u.used
           b == u.reserved
           c == u.version
<1> HIDE DEF a, b, c
<1>3. u = [used |-> a, reserved |-> b, version |-> c]
  BY <1>1 DEF a, b, c
<1>4. Reserve(u) = [used |-> a, reserved |-> b + 1, version |-> c]
  BY <1>3 DEF Reserve
<1>5. Complete(u) = [used |-> a + 1, reserved |-> b - 1, version |-> c]
  <2>1. [u EXCEPT !.reserved = u.reserved - 1]
          = [used |-> a, reserved |-> b - 1, version |-> c]
    BY <1>3
  <2>2. Complete(u) = [[u EXCEPT !.reserved = u.reserved - 1] EXCEPT !.used = u.used + 1]
    BY <1>3 DEF Complete
  <2>3. u.used = a
    BY <1>3
  <2> QED
    BY <2>1, <2>2, <2>3
<1>6. Free(u, n) = [used |-> a, reserved |-> b - n, version |-> c]
  BY <1>3 DEF Free
<1> QED
  BY <1>4, <1>5, <1>6 DEF a, b, c

LEMMA MethodTypes ==
  ASSUME NEW u \in Usage, NEW n \in Nat
  PROVE  Reserve(u) \in Usage /\ Complete(u) \in Usage /\ Free(u, n) \in Usage
<1>1. u.used \in Int /\ u.reserved \in Int /\ u.version \in Nat
  BY DEF Usage
<1>2. Reserve(u) \in Usage
  BY <1>1, Methods DEF Usage
<1>3. Complete(u) \in Usage
  BY <1>1, Methods DEF Usage
<1>4. Free(u, n) \in Usage
  <2>1. Free(u, n) = [used |-> u.used, reserved |-> u.reserved - n, version |-> u.version]
    BY Methods
  <2> QED
    BY <1>1, <2>1 DEF Usage
<1> QED
  BY <1>2, <1>3, <1>4

(* A copy that a request holds is a row, its expired reservations a set of  *)
(* requests.                                                                *)
LEMMA SeenTypes ==
  ASSUME TypeOK, NEW r \in Requests
  PROVE  /\ seen[r].usage \in Usage
         /\ Cardinality(seen[r].expired) \in Nat
         /\ Reserved(r) \in Usage
<1>1. seen[r].usage \in Usage /\ seen[r].expired \in SUBSET Requests
  BY DEF TypeOK, Seen
<1>2. Cardinality(seen[r].expired) \in Nat
  BY <1>1, CountOfRequests
<1>3. Free(seen[r].usage, Cardinality(seen[r].expired)) \in Usage
  BY <1>1, <1>2, MethodTypes
<1> QED
  BY <1>1, <1>2, <1>3, MethodTypes DEF Reserved

(* What a successful write does: it stores the new counters over the row    *)
(* they were computed from, under a version nobody has read yet, or it      *)
(* leaves the row alone.                                                    *)
LEMMA WriteOverRead ==
  ASSUME IInv, NEW r \in Requests, Holder(r),
         NEW new \in Usage, new.version = seen[r].usage.version,
         ~Conflicts(new, seen[r].usage), Store(new, seen[r].usage)
  PROVE  \/ usage' = usage
         \/ /\ seen[r].usage = usage
            /\ usage' = [used |-> new.used, reserved |-> new.reserved,
                         version |-> usage.version + 1]
<1>1. CASE Dirty(new, seen[r].usage)
  <2>1. usage.version = seen[r].usage.version
    BY <1>1 DEF Conflicts
  <2>2. seen[r].usage = usage
    BY <2>1 DEF IInv, VersionIdentifies
  <2>3. usage' = [new EXCEPT !.version = @ + 1]
    BY <1>1 DEF Store
  <2> QED
    BY <2>1, <2>2, <2>3 DEF Usage
<1>2. CASE ~Dirty(new, seen[r].usage)
  BY <1>2 DEF Store
<1> QED
  BY <1>1, <1>2

(* After such a write, or none, the copies of the other requests are still  *)
(* told apart from the row by their version.                                *)
LEMMA VersionsStayApart ==
  ASSUME IInv, NEW r \in Requests, UNCHANGED seen,
         \A q \in Requests \ {r} : pc'[q] = pc[q],
         pc'[r] \notin {"reserving", "updating"},
         \/ usage' = usage
         \/ usage.version \in Nat /\ usage'.version = usage.version + 1
  PROVE  VersionIdentifies'
<1> SUFFICES ASSUME NEW q \in Requests, Holder(q)'
             PROVE  /\ seen[q].usage.version <= usage'.version
                    /\ seen[q].usage.version = usage'.version => seen[q].usage = usage'
  BY DEF VersionIdentifies
<1>1. q # r /\ Holder(q)
  BY DEF Holder
<1>2. /\ seen[q].usage.version <= usage.version
      /\ seen[q].usage.version = usage.version => seen[q].usage = usage
  BY <1>1 DEF IInv, VersionIdentifies
<1>3. seen[q].usage.version \in Nat
  BY SeenTypes DEF IInv, Usage
<1> QED
  BY <1>2, <1>3

LEMMA InitIInv == Init => IInv
<1> SUFFICES ASSUME Init PROVE IInv
  OBVIOUS
<1>1. TypeOK
  BY GuestAssumption DEF Init, TypeOK, Usage, Seen, NoUsage, NothingSeen
<1>2. StoredWithinLimit
  BY GuestAssumption DEF Init, StoredWithinLimit, NoUsage
<1>3. TriesLeft /\ VersionIdentifies /\ CheckedBelowLimit
  BY GuestAssumption DEF Init, TriesLeft, VersionIdentifies, CheckedBelowLimit, Holder
<1> QED
  BY <1>1, <1>2, <1>3 DEF IInv

(* A read takes the row as it is.                                           *)
LEMMA ReadStep ==
  ASSUME IInv, NEW r \in Requests, ReserveRead(r) \/ UpdateRead(r)
  PROVE  IInv'
<1>0. TypeOK /\ TriesLeft /\ StoredWithinLimit /\ VersionIdentifies /\ CheckedBelowLimit
  BY DEF IInv
<1>1. PICK S \in SUBSET Requests :
        /\ seen' = [seen EXCEPT ![r] =
                      [usage |-> usage, expired |-> S, active |-> status[r] = "ACTIVE"]]
        /\ ReserveRead(r) => S = Expired
  BY <1>0 DEF ReserveRead, UpdateRead, See, Expired, Active, TypeOK
<1>2. UNCHANGED <<usage, status, overdue, tries>>
  BY DEF ReserveRead, UpdateRead
<1>3. /\ pc' = [pc EXCEPT ![r] = pc'[r]]
      /\ pc'[r] \in {"reserving", "updating"}
      /\ pc'[r] = "reserving" <=> ReserveRead(r)
  BY <1>0 DEF ReserveRead, UpdateRead, Goto, TypeOK
<1>4. seen'[r].usage = usage /\ seen'[r].expired = S
  BY <1>0, <1>1 DEF TypeOK
<1>5. \A q \in Requests \ {r} : seen'[q] = seen[q] /\ pc'[q] = pc[q]
  BY <1>0, <1>1, <1>3 DEF TypeOK
<1>6. TypeOK'
  <2>1. [usage |-> usage, expired |-> S, active |-> status[r] = "ACTIVE"] \in Seen
    BY <1>0 DEF TypeOK, Seen
  <2> QED
    BY <1>0, <1>1, <1>2, <1>3, <2>1 DEF TypeOK
<1>7. StoredWithinLimit'
  BY <1>0, <1>2 DEF StoredWithinLimit
<1>8. VersionIdentifies'
  BY <1>0, <1>2, <1>4, <1>5 DEF VersionIdentifies, Holder, TypeOK, Usage
<1>9. CheckedBelowLimit'
  <2> SUFFICES ASSUME NEW q \in Requests, pc'[q] = "reserving"
               PROVE  ~AtLimit(Free(seen'[q].usage, Cardinality(seen'[q].expired)))
    BY DEF CheckedBelowLimit, AtLimit, Free
  <2>1. CASE q = r
    BY <1>1, <1>3, <1>4, <2>1 DEF ReserveRead
  <2>2. CASE q # r
    BY <1>0, <1>5, <2>2 DEF CheckedBelowLimit
  <2> QED
    BY <2>1, <2>2
<1>10. TriesLeft'
  BY <1>0, <1>2, <1>5, <1>3 DEF TriesLeft, ReserveRead, UpdateRead
<1> QED
  BY <1>6, <1>7, <1>8, <1>9, <1>10 DEF IInv

(* The counters a commit stores stay within the limit: reserve has checked  *)
(* its copy, and complete and release never raise the sum.                  *)
LEMMA CommitStep ==
  ASSUME IInv, NEW r \in Requests,
         ReserveCommit(r) \/ \E succeeded \in BOOLEAN : UpdateCommit(r, succeeded)
  PROVE  IInv'
<1>0. TypeOK /\ TriesLeft /\ StoredWithinLimit /\ VersionIdentifies /\ CheckedBelowLimit
  BY DEF IInv
<1>1. PICK new \in Usage :
        /\ ~Conflicts(new, seen[r].usage) /\ Store(new, seen[r].usage)
        /\ new.version = seen[r].usage.version
        /\ seen[r].usage.used + seen[r].usage.reserved <= Limit
             => new.used + new.reserved <= Limit
  <2>1. CASE ReserveCommit(r)
    <3>1. ~AtLimit(Free(seen[r].usage, Cardinality(seen[r].expired)))
      BY <1>0, <2>1 DEF ReserveCommit, CheckedBelowLimit
    <3> DEFINE u == seen[r].usage
               n == Cardinality(seen[r].expired)
               v == Free(u, n)
    <3>a. u \in Usage /\ n \in Nat /\ v \in Usage
      BY <1>0, SeenTypes, MethodTypes
    <3>b. u.used \in Int /\ u.reserved \in Int
      BY <3>a DEF Usage
    <3>c. v.used = u.used /\ v.reserved = u.reserved - n
      BY <3>a, Methods
    <3>d. Reserved(r).used = v.used /\ Reserved(r).reserved = v.reserved + 1
      BY <3>a, Methods DEF Reserved
    <3>2. Reserved(r).used + Reserved(r).reserved <= Limit
      BY <3>1, <3>a, <3>b, <3>c, <3>d, GuestAssumption DEF AtLimit
    <3>3. Reserved(r).version = seen[r].usage.version
      BY <1>0, SeenTypes DEF Reserved, Reserve, Free, Usage
    <3> QED
      BY <1>0, <2>1, <3>2, <3>3, SeenTypes DEF ReserveCommit
  <2>2. ASSUME NEW succeeded \in BOOLEAN, UpdateCommit(r, succeeded)
        PROVE  \E new \in Usage :
                 /\ ~Conflicts(new, seen[r].usage) /\ Store(new, seen[r].usage)
                 /\ new.version = seen[r].usage.version
                 /\ seen[r].usage.used + seen[r].usage.reserved <= Limit
                      => new.used + new.reserved <= Limit
    <3> DEFINE new == IF succeeded THEN Complete(seen[r].usage) ELSE Free(seen[r].usage, 1)
    <3>1. new \in Usage
      BY <1>0, SeenTypes, MethodTypes
    <3>2. ~Conflicts(new, seen[r].usage) /\ Store(new, seen[r].usage)
      BY <2>2 DEF UpdateCommit
    <3>3. /\ new.version = seen[r].usage.version
          /\ seen[r].usage.used + seen[r].usage.reserved <= Limit
               => new.used + new.reserved <= Limit
      BY <1>0, SeenTypes, GuestAssumption DEF Complete, Free, Usage
    <3> HIDE DEF new
    <3> QED
      BY <3>1, <3>2, <3>3
  <2> QED
    BY <2>1, <2>2
<1>2. Holder(r)
  BY DEF Holder, ReserveCommit, UpdateCommit
<1>3. \/ usage' = usage
      \/ /\ seen[r].usage = usage
         /\ usage' = [used |-> new.used, reserved |-> new.reserved,
                      version |-> usage.version + 1]
  BY <1>1, <1>2, WriteOverRead
<1>4. /\ pc' = [pc EXCEPT ![r] = pc'[r]] /\ pc'[r] \in {"running", "counted", "done"}
      /\ UNCHANGED <<overdue, seen>>
      /\ tries' = [tries EXCEPT ![r] = tries'[r]] /\ tries'[r] \in 0..(MaxRetries - 1)
      /\ status' \in [Requests -> {"NONE", "ACTIVE", "COMPLETED", "RELEASED", "EXPIRED"}]
  BY <1>0, GuestAssumption DEF ReserveCommit, UpdateCommit, Goto, TypeOK, TriesLeft
<1>5. \A q \in Requests \ {r} : pc'[q] = pc[q]
  BY <1>0, <1>4 DEF TypeOK
<1>6. TypeOK'
  <2>1. usage \in Usage /\ new \in Usage
    BY <1>0, <1>1 DEF TypeOK
  <2>2. usage' \in Usage
    BY <1>3, <2>1 DEF Usage
  <2>3. tries'[r] \in 0..MaxRetries
    BY <1>4, GuestAssumption
  <2> QED
    BY <1>0, <1>4, <2>2, <2>3 DEF TypeOK
<1>7. StoredWithinLimit'
  BY <1>0, <1>1, <1>3 DEF StoredWithinLimit
<1>8. VersionIdentifies'
  BY <1>0, <1>3, <1>4, <1>5, VersionsStayApart DEF TypeOK, Usage
<1>9. CheckedBelowLimit'
  BY <1>0, <1>4, <1>5 DEF CheckedBelowLimit, AtLimit, Free
<1>10. TriesLeft'
  BY <1>0, <1>4, <1>5, GuestAssumption DEF TriesLeft, TypeOK
<1> QED
  BY <1>6, <1>7, <1>8, <1>9, <1>10 DEF IInv

(* The remaining steps do not touch the counters and start no transaction.  *)
LEMMA OtherStep ==
  ASSUME IInv, NEW r \in Requests,
         ReserveRefused(r) \/ UpdateSkip(r) \/ Retry(r) \/ Crash(r) \/ Expire(r)
  PROVE  IInv'
<1>0. TypeOK /\ TriesLeft /\ StoredWithinLimit /\ VersionIdentifies /\ CheckedBelowLimit
  BY DEF IInv
<1>1. UNCHANGED <<usage, status, seen>>
  BY DEF ReserveRefused, UpdateSkip, Retry, Crash, Expire
<1>2. pc' = pc \/ (/\ pc' = [pc EXCEPT ![r] = pc'[r]]
                   /\ pc'[r] \in {"new", "running", "done", "refused", "lost"})
  BY <1>0 DEF ReserveRefused, UpdateSkip, Retry, Crash, Expire, Goto, TypeOK
<1>3. \A q \in Requests : Holder(q)' => Holder(q) /\ pc'[q] = pc[q]
  BY <1>0, <1>2 DEF TypeOK, Holder
<1>4. overdue' \subseteq Requests
  BY <1>0 DEF ReserveRefused, UpdateSkip, Retry, Crash, Expire, TypeOK
<1>5. tries' \in [Requests -> 0..MaxRetries] /\ TriesLeft'
  <2>1. CASE tries' = tries
    BY <1>0, <1>2, <2>1 DEF TypeOK, TriesLeft, ReserveRefused, UpdateSkip, Retry, Crash, Expire
  <2>2. CASE Retry(r)
    <3>1. tries[r] \in 0..(MaxRetries - 1)
      BY <1>0, <2>2, GuestAssumption DEF TypeOK, TriesLeft, Retry
    <3>2. tries' = [tries EXCEPT ![r] = tries[r] + 1]
      BY <2>2 DEF Retry
    <3>3. pc'[r] # "lost" => tries[r] + 1 # MaxRetries
      BY <1>0, <2>2 DEF Retry, GivesUp, Goto, TypeOK
    <3> QED
      BY <1>0, <1>2, <3>1, <3>2, <3>3, GuestAssumption DEF TypeOK, TriesLeft
  <2> QED
    BY <2>1, <2>2 DEF ReserveRefused, UpdateSkip, Crash, Expire
<1>6. TypeOK'
  BY <1>0, <1>1, <1>2, <1>4, <1>5 DEF TypeOK
<1>7. VersionIdentifies' /\ CheckedBelowLimit'
  BY <1>0, <1>1, <1>3 DEF VersionIdentifies, CheckedBelowLimit, Holder, AtLimit, Free
<1> QED
  BY <1>0, <1>1, <1>5, <1>6, <1>7 DEF IInv, StoredWithinLimit

LEMMA NextIInv == IInv /\ [Next]_vars => IInv'
<1> SUFFICES ASSUME IInv, [Next]_vars PROVE IInv'
  OBVIOUS
<1>1. CASE UNCHANGED vars
  BY <1>1 DEF vars, IInv, TypeOK, TriesLeft, StoredWithinLimit, VersionIdentifies, CheckedBelowLimit,
              Holder, AtLimit, Free
<1>2. CASE Next
  BY <1>2, ReadStep, CommitStep, OtherStep DEF Next
<1> QED
  BY <1>1, <1>2

(* Whatever conflicts, retries, expiries and crashes come between the check *)
(* of GuestUsageService.reserve and its write, the stored counters add up   *)
(* to at most the limit: for any number of requests, and late ones too.     *)
THEOREM StoredCountersBounded == Spec => [](TypeOK /\ StoredWithinLimit)
<1>1. IInv => TypeOK /\ StoredWithinLimit
  BY DEF IInv
<1> QED
  BY InitIInv, NextIInv, <1>1, PTL DEF Spec
----------------------------------------------------------------------------
Counted == {r \in Requests : pc[r] = "counted"}

(* A reservation row is created by the commit of reserve and never deleted: *)
(* a request that has not got there has none, and what reclaimExpired has   *)
(* read are rows that still exist, whatever became of them.                 *)
RowsAreKept ==
  /\ \A r \in Requests : pc[r] \in {"new", "reserving"} => status[r] = "NONE"
  /\ \A r \in Requests : \A q \in seen[r].expired : status[q] # "NONE"

SlotInv == IInv /\ RowsAreKept /\ NoSlotLost /\ SuccessCountedOnce

(* Moving at most the elements of D out of a finite set makes it smaller by *)
(* no more than their number, and one that is new in it counts for one.     *)
LEMMA CountAfterMove ==
  ASSUME NEW S \in SUBSET Requests, NEW D \in SUBSET Requests,
         NEW T \in SUBSET Requests, S \ D \subseteq T
  PROVE  /\ Cardinality(T) >= Cardinality(S) - Cardinality(D)
         /\ \A r \in T : r \notin S =>
              Cardinality(T) >= Cardinality(S) - Cardinality(D) + 1
<1>1. IsFiniteSet(S) /\ IsFiniteSet(D) /\ IsFiniteSet(T) /\ IsFiniteSet(S \cap D)
  BY GuestAssumption, FS_Subset
<1>2. /\ Cardinality(S) \in Nat /\ Cardinality(D) \in Nat /\ Cardinality(T) \in Nat
      /\ Cardinality(S \cap D) \in Nat
  BY <1>1, FS_CardinalityType
<1>3. Cardinality(S \ D) = Cardinality(S) - Cardinality(S \cap D)
  BY <1>1, FS_Difference
<1>4. Cardinality(S \cap D) <= Cardinality(D)
  BY <1>1, FS_Subset
<1>5. Cardinality(S \ D) <= Cardinality(T)
  BY <1>1, FS_Subset
<1>6. ASSUME NEW r \in T, r \notin S
      PROVE  Cardinality(T) >= Cardinality(S \ D) + 1
  <2>1. IsFiniteSet(S \ D)
    BY <1>1, FS_Subset
  <2>2. Cardinality((S \ D) \cup {r}) = Cardinality(S \ D) + 1
    BY <1>6, <2>1, FS_AddElement
  <2>3. Cardinality((S \ D) \cup {r}) <= Cardinality(T)
    BY <1>1, <1>6, FS_Subset
  <2> QED
    BY <2>2, <2>3
<1> QED
  BY <1>2, <1>3, <1>4, <1>5, <1>6

(* The row that reserve computes from its copy. *)
LEMMA ReservedColumns ==
  ASSUME TypeOK, NEW r \in Requests
  PROVE  /\ Reserved(r).used = seen[r].usage.used
         /\ Reserved(r).reserved
              = seen[r].usage.reserved - Cardinality(seen[r].expired) + 1
         /\ Reserved(r).version = seen[r].usage.version
<1> DEFINE u == seen[r].usage
           n == Cardinality(seen[r].expired)
<1>1. u \in Usage /\ n \in Nat
  BY SeenTypes
<1>2. Free(u, n) \in Usage
  BY <1>1, MethodTypes
<1> QED
  BY <1>1, <1>2, Methods DEF Reserved

(* The commit of reserve takes one slot and gives back those of the expired *)
(* rows it has read.  It may pass without the version check (one row        *)
(* reclaimed, one taken: the counters do not change), and then those rows   *)
(* may have been closed meanwhile: still one row comes and at most one goes. *)
LEMMA ReserveCommitKeepsSlots ==
  ASSUME SlotInv, NEW r \in Requests, ReserveCommit(r)
  PROVE  /\ usage'.used = usage.used
         /\ usage'.reserved <= Cardinality(Active')
<1>0. TypeOK /\ IInv /\ Holder(r)
  BY DEF SlotInv, IInv, ReserveCommit, Holder
<1> DEFINE new == Reserved(r)
           D == seen[r].expired
           n == Cardinality(D)
<1>1. new \in Usage /\ n \in Nat /\ D \in SUBSET Requests
  BY <1>0, SeenTypes DEF TypeOK, Seen
<1>2. /\ new.used = seen[r].usage.used
      /\ new.reserved = seen[r].usage.reserved - n + 1
      /\ new.version = seen[r].usage.version
  BY <1>0, ReservedColumns
<1>3. ~Conflicts(new, seen[r].usage) /\ Store(new, seen[r].usage)
  BY DEF ReserveCommit
<1>4. /\ usage.used \in Int /\ usage.reserved \in Int
      /\ seen[r].usage.reserved \in Int
  BY <1>0, SeenTypes DEF TypeOK, Usage
<1>5. /\ Active \in SUBSET Requests /\ Active' \in SUBSET Requests
      /\ Active \ D \subseteq Active' /\ r \in Active' /\ r \notin Active
  BY <1>0 DEF ReserveCommit, Active, TypeOK, SlotInv, RowsAreKept
<1>6. Cardinality(Active) \in Nat /\ Cardinality(Active') \in Nat
  BY <1>5, CountOfRequests
<1>7. Cardinality(Active') >= Cardinality(Active) - n + 1
  BY <1>1, <1>5, CountAfterMove
<1>8. usage.reserved <= Cardinality(Active)
  BY DEF SlotInv, NoSlotLost
<1> HIDE DEF new, n, D
<1>9. \/ usage' = usage
      \/ /\ seen[r].usage = usage
         /\ usage' = [used |-> new.used, reserved |-> new.reserved,
                      version |-> usage.version + 1]
  BY <1>0, <1>1, <1>2, <1>3, WriteOverRead
<1>10. CASE Dirty(new, seen[r].usage)
  <2>1. seen[r].usage = usage
    BY <1>0, <1>3, <1>10 DEF Conflicts, IInv, VersionIdentifies
  <2>2. usage'.used = usage.used /\ usage'.reserved = usage.reserved - n + 1
    <3>1. usage' = [new EXCEPT !.version = @ + 1]
      BY <1>3, <1>10 DEF Store
    <3>2. usage'.used = new.used /\ usage'.reserved = new.reserved
      BY <3>1, <1>1 DEF Usage
    <3> QED
      BY <1>2, <2>1, <3>2
  <2> QED
    BY <1>1, <1>4, <1>6, <1>7, <1>8, <2>2
<1>11. CASE ~Dirty(new, seen[r].usage)
  <2>1. new = seen[r].usage /\ usage' = usage
    BY <1>3, <1>11 DEF Dirty, Store
  <2>2. n = 1
    BY <1>1, <1>2, <1>4, <2>1
  <2> QED
    BY <1>4, <1>6, <1>7, <1>8, <2>1, <2>2
<1> QED
  BY <1>10, <1>11

(* complete and release always change the counters, so they are written     *)
(* over the very row they were computed from.                               *)
LEMMA UpdateCommitKeepsSlots ==
  ASSUME SlotInv, NEW r \in Requests, NEW succeeded \in BOOLEAN,
         UpdateCommit(r, succeeded)
  PROVE  /\ usage'.used = IF succeeded THEN usage.used + 1 ELSE usage.used
         /\ usage'.reserved <= Cardinality(Active')
<1>0. TypeOK /\ IInv /\ Holder(r)
  BY DEF SlotInv, IInv, UpdateCommit, Holder
<1> DEFINE u == seen[r].usage
           new == IF succeeded THEN Complete(u) ELSE Free(u, 1)
<1>1. u \in Usage /\ new \in Usage
  BY <1>0, SeenTypes, MethodTypes
<1>2. /\ new.used = IF succeeded THEN u.used + 1 ELSE u.used
      /\ new.reserved = u.reserved - 1
      /\ new.version = u.version
  BY <1>1, Methods
<1>3. ~Conflicts(new, u) /\ Store(new, u)
  BY DEF UpdateCommit
<1> HIDE DEF new
<1>4. new # u
  BY <1>1, <1>2 DEF Usage
<1>5. usage = u
  BY <1>0, <1>3, <1>4 DEF Conflicts, Dirty, IInv, VersionIdentifies
<1>6. usage'.used = new.used /\ usage'.reserved = new.reserved
  <2>1. usage' = [new EXCEPT !.version = @ + 1]
    BY <1>3, <1>4 DEF Store, Dirty
  <2> QED
    BY <2>1, <1>1 DEF Usage
<1>7. /\ Active \in SUBSET Requests /\ Active' \in SUBSET Requests
      /\ {r} \in SUBSET Requests /\ Active \ {r} \subseteq Active'
  BY <1>0 DEF UpdateCommit, Active, TypeOK
<1>8. Cardinality({r}) = 1
  BY FS_Singleton
<1>9. Cardinality(Active') >= Cardinality(Active) - 1
  BY <1>7, <1>8, CountAfterMove
<1>10. Cardinality(Active) \in Nat /\ Cardinality(Active') \in Nat
  BY <1>7, CountOfRequests
<1>11. u.reserved \in Int /\ usage.reserved <= Cardinality(Active)
  BY <1>1 DEF SlotInv, NoSlotLost, Usage
<1> QED
  BY <1>2, <1>5, <1>6, <1>9, <1>10, <1>11

LEMMA InitSlotInv == Init => SlotInv
<1> SUFFICES ASSUME Init PROVE SlotInv
  OBVIOUS
<1>1. IInv
  BY InitIInv
<1>2. RowsAreKept
  BY DEF Init, RowsAreKept, NothingSeen
<1>3. Cardinality(Active) \in Nat /\ Counted = {}
  BY CountOfRequests DEF Init, Active, Counted
<1>4. NoSlotLost /\ SuccessCountedOnce
  BY <1>3, FS_EmptySet DEF Init, NoSlotLost, SuccessCountedOnce, NoUsage, Counted
<1> QED
  BY <1>1, <1>2, <1>4 DEF SlotInv

(* No step deletes a row, and a row is there as soon as reserve commits.    *)
LEMMA RowsStay == IInv /\ RowsAreKept /\ Next => RowsAreKept'
<1> SUFFICES ASSUME IInv, RowsAreKept, NEW r \in Requests,
                    \/ ReserveRefused(r) \/ ReserveRead(r) \/ ReserveCommit(r)
                    \/ UpdateRead(r) \/ UpdateSkip(r)
                    \/ \E succeeded \in BOOLEAN : UpdateCommit(r, succeeded)
                    \/ Retry(r) \/ Crash(r) \/ Expire(r)
             PROVE  RowsAreKept'
  BY DEF Next
<1>0. TypeOK
  BY DEF IInv
<1>1. \A q \in Requests : status[q] # "NONE" => status'[q] # "NONE"
  BY <1>0 DEF TypeOK, ReserveRefused, ReserveRead, ReserveCommit, UpdateRead, UpdateSkip,
              UpdateCommit, Retry, Crash, Expire
<1>2. \A q \in Requests : seen'[q].expired = seen[q].expired
                       \/ seen'[q].expired = {} \/ seen'[q].expired = Expired
  BY <1>0 DEF TypeOK, See, ReserveRefused, ReserveRead, ReserveCommit, UpdateRead, UpdateSkip,
              UpdateCommit, Retry, Crash, Expire
<1>3. \A q \in Requests : seen[q].expired \in SUBSET Requests
  BY <1>0 DEF TypeOK, Seen
<1>4. \A q \in Requests : \A x \in seen'[q].expired : status'[x] # "NONE"
  BY <1>1, <1>2, <1>3 DEF RowsAreKept, Expired, Active
<1>5. ASSUME NEW q \in Requests, pc'[q] \in {"new", "reserving"}
      PROVE  status'[q] = "NONE"
  <2>1. pc[q] \in {"new", "reserving"}
    BY <1>0, <1>5 DEF TypeOK, Goto, ReserveRefused, ReserveRead, ReserveCommit, UpdateRead,
                      UpdateSkip, UpdateCommit, Retry, Crash, Expire
  <2>2. status[q] = "NONE"
    BY <2>1 DEF RowsAreKept
  <2>3. CASE ReserveCommit(r)
    <3>1. q # r
      BY <1>0, <1>5, <2>3 DEF TypeOK, ReserveCommit, Goto
    <3>2. q \notin seen[r].expired
      BY <2>2 DEF RowsAreKept
    <3> QED
      BY <2>2, <2>3, <3>1, <3>2 DEF ReserveCommit
  <2>4. CASE \E succeeded \in BOOLEAN : UpdateCommit(r, succeeded)
    <3>1. q # r
      BY <2>1, <2>4 DEF UpdateCommit
    <3> QED
      BY <1>0, <2>2, <2>4, <3>1 DEF UpdateCommit, TypeOK
  <2>5. CASE UNCHANGED status
    BY <2>2, <2>5
  <2> QED
    BY <2>3, <2>4, <2>5 DEF ReserveRefused, ReserveRead, UpdateRead, UpdateSkip, Retry, Crash, Expire
<1> QED
  BY <1>4, <1>5 DEF RowsAreKept

(* Only the transaction of a success adds to the requests that are counted. *)
LEMMA CountedMoves ==
  ASSUME IInv, NEW r \in Requests
  PROVE  /\ ReserveCommit(r) => Counted' = Counted
         /\ \A succeeded \in BOOLEAN : UpdateCommit(r, succeeded) =>
              Counted' = IF succeeded THEN Counted \cup {r} ELSE Counted
         /\ (ReserveRefused(r) \/ ReserveRead(r) \/ UpdateRead(r) \/ UpdateSkip(r)
               \/ Retry(r) \/ Crash(r) \/ Expire(r)) => Counted' = Counted
<1>0. TypeOK
  BY DEF IInv
<1>1. ReserveCommit(r) => Counted' = Counted
  BY <1>0 DEF ReserveCommit, Counted, Goto, TypeOK
<1>2. \A succeeded \in BOOLEAN : UpdateCommit(r, succeeded) =>
              Counted' = IF succeeded THEN Counted \cup {r} ELSE Counted
  BY <1>0 DEF UpdateCommit, Counted, Goto, TypeOK
<1>3. (ReserveRefused(r) \/ ReserveRead(r) \/ UpdateRead(r) \/ UpdateSkip(r)
               \/ Retry(r) \/ Crash(r) \/ Expire(r)) => Counted' = Counted
  BY <1>0 DEF ReserveRefused, ReserveRead, UpdateRead, UpdateSkip, Retry, Crash, Expire,
              Counted, Goto, TypeOK
<1> QED
  BY <1>1, <1>2, <1>3

LEMMA NextSlotInv == SlotInv /\ [Next]_vars => SlotInv'
<1> SUFFICES ASSUME SlotInv, [Next]_vars PROVE SlotInv'
  OBVIOUS
<1>0. IInv' /\ IInv /\ TypeOK
  BY NextIInv DEF SlotInv, IInv
<1>1. CASE UNCHANGED vars
  BY <1>0, <1>1 DEF vars, SlotInv, RowsAreKept, NoSlotLost, SuccessCountedOnce, Active
<1>2. CASE Next
  <2>1. RowsAreKept'
    BY <1>0, <1>2, RowsStay DEF SlotInv
  <2>2. PICK r \in Requests :
          \/ ReserveCommit(r)
          \/ \E succeeded \in BOOLEAN : UpdateCommit(r, succeeded)
          \/ ReserveRefused(r) \/ ReserveRead(r) \/ UpdateRead(r) \/ UpdateSkip(r)
               \/ Retry(r) \/ Crash(r) \/ Expire(r)
    BY <1>2 DEF Next
  <2>3. usage.reserved <= Cardinality(Active) /\ usage.used = Cardinality(Counted)
    BY DEF SlotInv, NoSlotLost, SuccessCountedOnce, Counted
  <2>4. usage'.reserved <= Cardinality(Active') /\ usage'.used = Cardinality(Counted')
    <3>1. CASE ReserveCommit(r)
      BY <1>0, <2>3, <3>1, ReserveCommitKeepsSlots, CountedMoves
    <3>2. ASSUME NEW succeeded \in BOOLEAN, UpdateCommit(r, succeeded)
          PROVE  usage'.reserved <= Cardinality(Active') /\ usage'.used = Cardinality(Counted')
      <4>1. usage'.used = IF succeeded THEN usage.used + 1 ELSE usage.used
        BY <3>2, UpdateCommitKeepsSlots
      <4>2. Counted' = IF succeeded THEN Counted \cup {r} ELSE Counted
        BY <1>0, <3>2, CountedMoves
      <4>3. IsFiniteSet(Counted) /\ r \notin Counted
        BY <3>2, GuestAssumption, FS_Subset DEF Counted, UpdateCommit
      <4>4. Cardinality(Counted \cup {r}) = Cardinality(Counted) + 1
        BY <4>3, FS_AddElement
      <4> QED
        BY <2>3, <3>2, <4>1, <4>2, <4>4, UpdateCommitKeepsSlots
    <3>3. CASE \/ ReserveRefused(r) \/ ReserveRead(r) \/ UpdateRead(r) \/ UpdateSkip(r)
               \/ Retry(r) \/ Crash(r) \/ Expire(r)
      <4>1. usage' = usage /\ status' = status /\ Counted' = Counted
        BY <1>0, <3>3, CountedMoves
           DEF ReserveRefused, ReserveRead, UpdateRead, UpdateSkip, Retry, Crash, Expire
      <4> QED
        BY <2>3, <4>1 DEF Active
    <3> QED
      BY <2>2, <3>1, <3>2, <3>3
  <2> QED
    BY <1>0, <2>1, <2>4 DEF SlotInv, NoSlotLost, SuccessCountedOnce, Counted
<1> QED
  BY <1>1, <1>2

(* No trial slot is lost for good: every slot the counter withholds belongs *)
(* to a reservation row that is still ACTIVE, which complete, release or,   *)
(* at the latest, reclaimExpired gives back.                                *)
THEOREM NoSlotIsLost == Spec => []NoSlotLost
<1>1. SlotInv => NoSlotLost
  BY DEF SlotInv
<1> QED
  BY InitSlotInv, NextSlotInv, <1>1, PTL DEF Spec

(* The counter of used trials is the number of requests whose complete has  *)
(* committed with success: none is counted twice by a retry, none is lost   *)
(* under another transaction's write.                                       *)
THEOREM SuccessesAreCounted == Spec => []SuccessCountedOnce
<1>1. SlotInv => SuccessCountedOnce
  BY DEF SlotInv
<1> QED
  BY InitSlotInv, NextSlotInv, <1>1, PTL DEF Spec
=============================================================================
