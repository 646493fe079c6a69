------------------------------ MODULE GuestUsage ------------------------------
(***************************************************************************)
(* The free trial of ONE guest session: GuestUsageService with the row of  *)
(* counters (GuestUsage, which has a @Version) and one reservation row per *)
(* request (GuestUsageReservation, which has none), as PromptController    *)
(* uses them around a call of the AI server.                               *)
(*                                                                         *)
(* A transaction is two actions: a read of both tables (one snapshot) and  *)
(* a commit.  Hibernate updates the counters, and checks their version,    *)
(* only if some column differs from what was loaded; reservation rows are  *)
(* written unconditionally.  With open-in-view the second transaction of a *)
(* request may work on copies loaded by its first: here UpdateRead may     *)
(* come at any time before UpdateCommit, so that is included.              *)
(***************************************************************************)
EXTENDS Integers, FiniteSets

CONSTANTS
  Requests,      \* improve requests of the session; each reserves at most once
  Limit,         \* LIMIT, 3 in the code
  MaxRetries,    \* MAX_RETRIES, 20 in the code
  LateRequests   \* TRUE: a request may outlive the TTL of its reservation

ASSUME GuestAssumption ==
  /\ IsFiniteSet(Requests)
  /\ Limit \in Nat
  /\ MaxRetries \in Nat \ {0}
  /\ LateRequests \in BOOLEAN

VARIABLES
  usage,     \* the guest_usage row; version 0 while there is no row
  status,    \* reservation rows by request; "NONE" while there is no row
  overdue,   \* reservations whose expires_at has passed
  pc, seen, tries

vars == <<usage, status, overdue, pc, seen, tries>>

Usage == [used : Int, reserved : Int, version : Nat]
NoUsage == [used |-> 0, reserved |-> 0, version |-> 0]
Seen == [usage : Usage, expired : SUBSET Requests, active : BOOLEAN]
NothingSeen == [usage |-> NoUsage, expired |-> {}, active |-> FALSE]

Active == {r \in Requests : status[r] = "ACTIVE"}
Completed == {r \in Requests : status[r] = "COMPLETED"}

(* Faulty: success is counted, its reservation kept. *)
BadComplete(u) == [u EXCEPT !.used = @ + 1]

(* Methods of the counters row. *)
Reserve(u) == [u EXCEPT !.reserved = @ + 1]
Complete(u) == [u EXCEPT !.reserved = @ - 1, !.used = @ + 1]
Free(u, n) == [u EXCEPT !.reserved = @ - n]

(* Faulty: every writer is believed to be the only one. *)
NeverConflicts(u, old) == FALSE

(* A dirty row is written only over the version it was loaded with (or, a   *)
(* new one, only if no other transaction has inserted it).                  *)
Dirty(u, old) == u # old \/ old.version = 0
Conflicts(u, old) == Dirty(u, old) /\ usage.version # old.version
Store(u, old) == usage' = IF Dirty(u, old) THEN [u EXCEPT !.version = @ + 1] ELSE usage

Goto(r, label) == pc' = [pc EXCEPT ![r] = label]
See(r, expired) ==
  seen' = [seen EXCEPT ![r] =
             [usage |-> usage, expired |-> expired, active |-> status[r] = "ACTIVE"]]

Init ==
  /\ usage = NoUsage
  /\ status = [r \in Requests |-> "NONE"]
  /\ overdue = {}
  /\ pc = [r \in Requests |-> "new"]
  /\ seen = [r \in Requests |-> NothingSeen]
  /\ tries = [r \in Requests |-> 0]

Expired == Active \cap overdue

(* Faulty: running requests are not counted against the limit. *)
CompletedOnly(u) == u.used >= Limit

AtLimit(u) == u.used + u.reserved >= Limit

(* reserve: the reads, and the refusal, which rolls everything back.       *)
ReserveRefused(r) ==
  /\ pc[r] = "new"
  /\ AtLimit(Free(usage, Cardinality(Expired)))
  /\ Goto(r, "refused")
  /\ UNCHANGED <<usage, status, overdue, seen, tries>>

ReserveRead(r) ==
  /\ pc[r] = "new"
  /\ ~AtLimit(Free(usage, Cardinality(Expired)))
  /\ See(r, Expired)
  /\ Goto(r, "reserving")
  /\ UNCHANGED <<usage, status, overdue, tries>>

Reserved(r) == Reserve(Free(seen[r].usage, Cardinality(seen[r].expired)))

ReserveCommit(r) ==
  /\ pc[r] = "reserving"
  /\ ~Conflicts(Reserved(r), seen[r].usage)
  /\ Store(Reserved(r), seen[r].usage)
  /\ status' = [q \in Requests |-> IF q = r THEN "ACTIVE"
                                   ELSE IF q \in seen[r].expired THEN "EXPIRED"
                                   ELSE status[q]]
  /\ tries' = [tries EXCEPT ![r] = 0]
  /\ Goto(r, "running")
  /\ UNCHANGED <<overdue, seen>>

(* The AI call runs until here.  Its outcome decides between complete and   *)
(* release, which are the same transaction.                                 *)
UpdateRead(r) ==
  /\ pc[r] = "running"
  /\ See(r, {})
  /\ Goto(r, "updating")
  /\ UNCHANGED <<usage, status, overdue, tries>>

StillActive(r) == seen[r].active

UpdateCommit(r, succeeded) ==
  LET old == seen[r].usage
      new == IF succeeded THEN Complete(old) ELSE Free(old, 1)
  IN  /\ pc[r] = "updating" /\ StillActive(r)
      /\ ~Conflicts(new, old)
      /\ Store(new, old)
      /\ status' = [status EXCEPT ![r] = IF succeeded THEN "COMPLETED" ELSE "RELEASED"]
      /\ Goto(r, IF succeeded THEN "counted" ELSE "done")
      /\ UNCHANGED <<overdue, seen, tries>>

UpdateSkip(r) ==
  /\ pc[r] = "updating" /\ ~StillActive(r)
  /\ Goto(r, "done")
  /\ UNCHANGED <<usage, status, overdue, seen, tries>>

GivesUp(attempts) == attempts + 1 = MaxRetries

(* retry: a version conflict or a duplicate key starts the transaction     *)
(* over, MAX_RETRIES times in all.                                          *)
Retry(r) ==
  /\ \/ pc[r] = "reserving" /\ Conflicts(Reserved(r), seen[r].usage)
     \/ /\ pc[r] = "updating" /\ StillActive(r)
        /\ Conflicts(Free(seen[r].usage, 1), seen[r].usage)
  /\ tries' = [tries EXCEPT ![r] = @ + 1]
  /\ Goto(r, IF GivesUp(tries[r]) THEN "lost"
             ELSE IF pc[r] = "reserving" THEN "new" ELSE "running")
  /\ UNCHANGED <<usage, status, overdue, seen>>

(* The server dies with the request in it. *)
Crash(r) ==
  /\ pc[r] \in {"reserving", "running", "updating"}
  /\ Goto(r, "lost")
  /\ UNCHANGED <<usage, status, overdue, seen, tries>>

(* The TTL is the AI timeout plus two minutes: only a request that is gone, *)
(* or that was stopped for minutes (LateRequests), is still ACTIVE by then. *)
Expire(r) ==
  /\ status[r] = "ACTIVE" /\ r \notin overdue
  /\ LateRequests \/ pc[r] = "lost"
  /\ overdue' = overdue \cup {r}
  /\ UNCHANGED <<usage, status, pc, seen, tries>>

Next == \E r \in Requests :
  \/ ReserveRefused(r) \/ ReserveRead(r) \/ ReserveCommit(r)
  \/ UpdateRead(r) \/ UpdateSkip(r)
  \/ \E succeeded \in BOOLEAN : UpdateCommit(r, succeeded)
  \/ Retry(r) \/ Crash(r) \/ Expire(r)

Spec == Init /\ [][Next]_vars
----------------------------------------------------------------------------
TypeOK ==
  /\ usage \in Usage
  /\ status \in [Requests -> {"NONE", "ACTIVE", "COMPLETED", "RELEASED", "EXPIRED"}]
  /\ overdue \subseteq Requests
  /\ pc \in [Requests -> {"new", "reserving", "running", "updating",
                          "counted", "done", "refused", "lost"}]
  /\ seen \in [Requests -> Seen]
  /\ tries \in [Requests -> 0..MaxRetries]

(* The two counters never add up to more than the limit, whatever conflicts, *)
(* retries, expiries and crashes come between a check and its write.        *)
StoredWithinLimit == usage.used + usage.reserved <= Limit

(* No slot of the trial is lost: the counter of reservations never exceeds  *)
(* the reservations that are really open, so a crashed or failed request is *)
(* given back at the latest when its reservation expires.                   *)
NoSlotLost == usage.reserved <= Cardinality(Active)

(* Each success whose transaction has committed is counted exactly once, and *)
(* nothing else is: no conflict, retry or reclaim makes a count disappear.  *)
SuccessCountedOnce == usage.used = Cardinality({r \in Requests : pc[r] = "counted"})

(* The guest gets no more than Limit answers: open reservations plus        *)
(* successes stay within the limit (the 3 trials the pricing page states).  *)
TrialWithinLimit == Cardinality(Active \cup Completed) <= Limit
=============================================================================
