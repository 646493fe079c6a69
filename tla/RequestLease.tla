----------------------------- MODULE RequestLease -----------------------------
(***************************************************************************)
(* One AI request at a time for ONE member, and an account of every answer *)
(* that cost something: MemberRequestGuard and its row member_request_lease*)
(* as PromptController.improve uses them around the call of the RAG        *)
(* server, RagUsageRecorder, and the admin who reviews and clears an       *)
(* uncertain account (AdminUsageRecoveryController).                       *)
(*                                                                         *)
(* Every transaction first locks the member's row, so one action is one    *)
(* transaction.  The lease has no @Version and is written as a whole row:  *)
(* with open-in-view (OpenInView, the default of Spring Boot) the later    *)
(* transactions of a request find the copy that its first one loaded.      *)
(*                                                                         *)
(* Not here: replays and conversations (a request that is answered from a  *)
(* saved conversation closes without calling), the block by an open refund *)
(* and the token limit, which is checked like the request limit but may be *)
(* overrun by one answer.                                                  *)
(***************************************************************************)
EXTENDS Integers, FiniteSets

CONSTANTS
  Workers,       \* improve requests of the member; a worker's permit is itself
  Admins,        \* admins with a review page open
  NoOne,         \* permit_id IS NULL
  QuotaEnabled,  \* a quota is enforced (ttalkak.usage.*-quota-enabled)
  RequestLimit,  \* requests of the plan in the current period
  OpenInView,    \* TRUE: a request keeps one persistence context
  LateWorkers    \* TRUE: a request may outlive the TTL of its permit

ASSUME LeaseAssumption ==
  /\ IsFiniteSet(Workers)
  /\ NoOne \notin Workers
  /\ RequestLimit \in Nat
  /\ {QuotaEnabled, OpenInView, LateWorkers} \subseteq BOOLEAN

VARIABLES
  lease,     \* the member_request_lease row
  expired,   \* permits whose expires_at has passed
  metered,   \* workers with a usage record of some tokens
  empty,     \* workers with a usage record of no evidence, 0 tokens
  pc,
  cache,     \* the lease as the worker's persistence context holds it
  review,    \* what each admin has on the screen
  consumed,  \* history: workers whose answer cost an invocation
  forgiven,  \* history: the unrecorded ones an admin has cleared
  unmarked   \* history: those whose record and whose mark both failed

vars == <<lease, expired, metered, empty, pc, cache, review, consumed, forgiven,
          unmarked>>
records == <<metered, empty>>
history == <<consumed, forgiven, unmarked>>

NoLease == [exists |-> FALSE, permit |-> NoOne, uncertain |-> FALSE, revision |-> 0]
Lease == [exists : BOOLEAN, permit : Workers \cup {NoOne},
          uncertain : BOOLEAN, revision : Nat]
NoReview == [open |-> FALSE, revision |-> 0, total |-> 0, shown |-> {}]
Review == [open : BOOLEAN, revision : Nat, total : Nat, shown : SUBSET Workers]

Labels == {"new", "holding", "calling", "metered", "empty", "unmetered",
           "closing", "done", "refused", "lost"}

Recorded == metered \cup empty
Unrecorded == consumed \ Recorded

(* Faulty forms of the definitions below, for checking the properties. *)
BadAbandoned(l) == FALSE

(* Methods of the lease. *)
ActiveNow(l) == l.permit # NoOne /\ l.permit \notin expired
Abandoned(l) == l.permit # NoOne
Uncertain(l) == [l EXCEPT !.uncertain = TRUE, !.revision = @ + 1]
Take(l, w) == [l EXCEPT !.exists = TRUE, !.permit = w]
Free(l) == [l EXCEPT !.permit = NoOne]
Reconciled(l) == Free([l EXCEPT !.uncertain = FALSE])

Seen(w) == IF cache[w].exists THEN cache[w] ELSE lease
Write(w, l) ==
  /\ lease' = IF l = Seen(w) THEN lease ELSE l
  /\ cache' = [cache EXCEPT ![w] = IF OpenInView THEN l ELSE NoLease]

Goto(w, label) == pc' = [pc EXCEPT ![w] = label]

Init ==
  /\ lease = NoLease
  /\ expired = {}
  /\ metered = {} /\ empty = {}
  /\ pc = [w \in Workers |-> "new"]
  /\ cache = [w \in Workers |-> NoLease]
  /\ review = [a \in Admins |-> NoReview]
  /\ consumed = {} /\ forgiven = {} /\ unmarked = {}

AcquireRefused(w) ==
  /\ pc[w] = "new" /\ ActiveNow(lease)
  /\ Goto(w, "refused")
  /\ UNCHANGED <<lease, expired, records, cache, review, history>>

(* Faulty: nobody looks whether another request holds the lease. *)
AcquireAlways(w) ==
  /\ pc[w] = "new"
  /\ Write(w, Take(lease, w))
  /\ Goto(w, "holding")
  /\ UNCHANGED <<expired, records, review, history>>

(* A permit left behind by a crash may have consumed tokens nobody reported. *)
Acquire(w) ==
  /\ pc[w] = "new" /\ ~ActiveNow(lease)
  /\ Write(w, Take(IF Abandoned(lease) THEN Uncertain(lease) ELSE lease, w))
  /\ Goto(w, "holding")
  /\ UNCHANGED <<expired, records, review, history>>

(* Faulty: whoever finishes frees the lease; the last request is one too many. *)
OwnsAny(w) == Seen(w).permit # NoOne
OverQuota(w) == ~Seen(w).uncertain /\ Cardinality(Recorded) <= RequestLimit

Owns(w) == Seen(w).permit = w
WithinQuota(w) ==
  /\ Owns(w) /\ ActiveNow(Seen(w))
  /\ ~Seen(w).uncertain
  /\ Cardinality(Recorded) < RequestLimit

(* A saved answer is replayed, the request is invalid, or checkQuota throws. *)
CloseEarly(w) ==
  /\ pc[w] = "holding"
  /\ Goto(w, "closing")
  /\ UNCHANGED <<lease, expired, records, cache, review, history>>

CheckQuota(w) ==
  /\ pc[w] = "holding"
  /\ QuotaEnabled => WithinQuota(w)
  /\ Goto(w, "calling")
  /\ UNCHANGED <<lease, expired, records, cache, review, history>>

(* The RAG server answers something improve can use: with usage, without    *)
(* usable usage, or with the identified no-evidence 404.                    *)
Answer(w, kind) ==
  /\ pc[w] = "calling"
  /\ consumed' = consumed \cup {w}
  /\ Goto(w, kind)
  /\ UNCHANGED <<lease, expired, records, cache, review, forgiven, unmarked>>

(* An error or a timeout of the call is outside the account (MEMBER_QUOTA).  *)
(* So is a 200 without a text in it: improve refuses (AI_INVALID_RESPONSE)  *)
(* before it looks at the usage, and goes on to release the lease.          *)
CallFails(w) ==
  /\ pc[w] = "calling"
  /\ Goto(w, "closing")
  /\ UNCHANGED <<lease, expired, records, cache, review, history>>

(* One row per (member, permit): recording twice changes nothing.           *)
Record(w) ==
  /\ pc[w] \in {"metered", "empty"}
  /\ metered' = IF pc[w] = "metered" THEN metered \cup {w} ELSE metered
  /\ empty' = IF pc[w] = "empty" THEN empty \cup {w} ELSE empty
  /\ Goto(w, "closing")
  /\ UNCHANGED <<lease, expired, cache, review, history>>

(* A rollback empties the persistence context; a failure before it does not. *)
RecordFails(w) ==
  /\ pc[w] \in {"metered", "empty"}
  /\ Goto(w, "unmetered")
  /\ \E copy \in {cache[w], NoLease} : cache' = [cache EXCEPT ![w] = copy]
  /\ UNCHANGED <<lease, expired, records, review, history>>

UsageMissing(w) ==
  /\ pc[w] = "unmetered"
  /\ Write(w, Uncertain(Seen(w)))
  /\ Goto(w, "closing")
  /\ UNCHANGED <<expired, records, review, history>>

(* The mark is lost, and the finally block of improve goes on to release.   *)
UsageMissingFails(w) ==
  /\ pc[w] = "unmetered"
  /\ unmarked' = unmarked \cup {w}
  /\ Goto(w, "closing")
  /\ UNCHANGED <<lease, expired, records, cache, review, consumed, forgiven>>

Release(w) ==
  /\ pc[w] = "closing"
  /\ Write(w, IF Owns(w) THEN Free(Seen(w)) ELSE Seen(w))
  /\ Goto(w, "done")
  /\ UNCHANGED <<expired, records, review, history>>

Crash(w) ==
  /\ pc[w] \in {"holding", "calling", "metered", "empty", "unmetered", "closing"}
  /\ Goto(w, "lost")
  /\ UNCHANGED <<lease, expired, records, cache, review, history>>

(* The TTL is the AI timeout plus two minutes.                              *)
Expire ==
  /\ ActiveNow(lease)
  /\ LateWorkers \/ pc[lease.permit] = "lost"
  /\ expired' = expired \cup {lease.permit}
  /\ UNCHANGED <<lease, records, pc, cache, review, history>>

(* GET review: what the admin will confirm (revision 0 without a lease row). *)
OpenReview(a) ==
  /\ review' = [review EXCEPT ![a] = [open |-> TRUE, revision |-> lease.revision,
                                      total |-> Cardinality(metered), shown |-> Unrecorded]]
  /\ UNCHANGED <<lease, expired, records, pc, cache, history>>

ReviewIsCurrent(a) == /\ review[a].revision = lease.revision
                      /\ review[a].total = Cardinality(metered)

(* POST reconcile (a new session); a clean account is left alone.           *)
Reconcile(a) ==
  /\ review[a].open
  /\ ~ActiveNow(lease)
  /\ ReviewIsCurrent(a)
  /\ lease.uncertain \/ Abandoned(lease)
  /\ lease' = Reconciled(lease)
  /\ forgiven' = forgiven \cup Unrecorded
  /\ review' = [review EXCEPT ![a] = NoReview]
  /\ UNCHANGED <<expired, records, pc, cache, consumed, unmarked>>

Improve(w) == \/ AcquireRefused(w) \/ Acquire(w) \/ CloseEarly(w) \/ CheckQuota(w)
              \/ \E kind \in {"metered", "empty", "unmetered"} : Answer(w, kind)
              \/ CallFails(w) \/ Record(w) \/ RecordFails(w) \/ UsageMissing(w)
              \/ UsageMissingFails(w) \/ Release(w) \/ Crash(w)

Next == \/ \E w \in Workers : Improve(w)
        \/ Expire
        \/ \E a \in Admins : OpenReview(a) \/ Reconcile(a)

Spec == Init /\ [][Next]_vars
----------------------------------------------------------------------------
TypeOK ==
  /\ lease \in Lease
  /\ expired \subseteq Workers
  /\ metered \subseteq Workers /\ empty \subseteq Workers
  /\ pc \in [Workers -> Labels]
  /\ cache \in [Workers -> Lease]
  /\ review \in [Admins -> Review]
  /\ {consumed, forgiven, unmarked} \subseteq SUBSET Workers

InCall == {w \in Workers : pc[w] \in {"calling", "metered", "empty", "unmetered"}}

(* At most one request of the member is between the start of its call and   *)
(* the end of its accounting.                                               *)
OneCallAtATime == Cardinality(InCall) <= 1

(* Every answer that cost something is recorded, or will be, or is visible  *)
(* as uncertainty (a flag, or a permit nobody has released), until an admin *)
(* clears it: neither a crash nor one failed write hides a cost.  When the  *)
(* record and the mark both fail (unmarked), the cost may be forgotten.     *)
CostIsVisible ==
  \A w \in Unrecorded \ (forgiven \cup unmarked) :
    lease.uncertain \/ lease.permit = w \/ w \in InCall

(* With a quota, the member gets no more answers than the plan has, other   *)
(* than those an admin has written off and those nobody could record.       *)
QuotaHolds ==
  QuotaEnabled => Cardinality(consumed \ (forgiven \cup unmarked)) <= RequestLimit

(* A permit that has not expired is taken only by the worker it belongs to. *)
LivePermitKept ==
  [][ActiveNow(lease) /\ lease'.permit # lease.permit
       => pc[lease.permit] = "closing" /\ pc'[lease.permit] = "done"]_vars

(* An admin clears no cost that arose after the review page was loaded.     *)
NothingClearedUnseen ==
  [][\A a \in Admins : forgiven' # forgiven /\ review[a].open /\ ~review'[a].open
       => Unrecorded \subseteq review[a].shown]_vars
=============================================================================
