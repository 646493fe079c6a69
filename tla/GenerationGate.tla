---------------------------- MODULE GenerationGate ----------------------------
(***************************************************************************)
(* The gate in front of the LLM calls of the RAG server: Gate.enter of     *)
(* rag-server/app/core/concurrency.py, entered by the threads that serve   *)
(* /query.  At most Limit threads hold a slot of the semaphore and at most *)
(* Depth threads wait for one; any other thread is refused at once.        *)
(*                                                                         *)
(* The semaphore and the counter of waiting threads are two shared         *)
(* objects under two locks, so one action here is one use of either.       *)
(***************************************************************************)
EXTENDS Integers, FiniteSets

CONSTANTS Threads, Limit, Depth

ASSUME GateAssumption ==
  /\ IsFiniteSet(Threads)
  /\ Limit \in Nat \ {0}       \* max(1, limit)
  /\ Depth \in Nat             \* max(0, depth)

VARIABLES
  free,     \* value of the semaphore _sem
  waiting,  \* _waiting, guarded by _lock
  pc        \* where each thread is in enter()

vars == <<free, waiting, pc>>

Labels == {"outside",   \* not in enter()
           "full",      \* found no slot, has not yet looked at the queue
           "queued",    \* counted in _waiting, blocked on the semaphore
           "granted",   \* has a slot, still counted in _waiting
           "late",      \* gave up, still counted in _waiting
           "running"}   \* in the body of the with statement

At(label) == {t \in Threads : pc[t] = label}
Holding == At("running") \cup At("granted")
Waiting == At("queued") \cup At("granted") \cup At("late")

Init ==
  /\ free = Limit
  /\ waiting = 0
  /\ pc = [t \in Threads |-> "outside"]

Goto(t, label) == pc' = [pc EXCEPT ![t] = label]

EnterDirectly(t) ==
  /\ pc[t] = "outside" /\ free > 0
  /\ free' = free - 1
  /\ Goto(t, "running")
  /\ UNCHANGED waiting

FindFull(t) ==
  /\ pc[t] = "outside" /\ free = 0
  /\ Goto(t, "full")
  /\ UNCHANGED <<free, waiting>>

(* Faulty: one thread too many may wait. *)
LongQueueHasRoom == waiting <= Depth

QueueHasRoom == waiting < Depth

Refuse(t) ==                                         \* GateBusy
  /\ pc[t] = "full" /\ ~QueueHasRoom
  /\ Goto(t, "outside")
  /\ UNCHANGED <<free, waiting>>

StartWaiting(t) ==
  /\ pc[t] = "full" /\ QueueHasRoom
  /\ waiting' = waiting + 1
  /\ Goto(t, "queued")
  /\ UNCHANGED free

Acquire(t) ==
  /\ pc[t] = "queued" /\ free > 0
  /\ free' = free - 1
  /\ Goto(t, "granted")
  /\ UNCHANGED waiting

(* Faulty: acquire without a deadline waits again. *)
WaitsAgain(t) == pc[t] = "queued" /\ free = 0 /\ UNCHANGED vars

(* acquire(timeout) gives up only when it finds no slot at the deadline.   *)
GiveUp(t) ==
  /\ pc[t] = "queued" /\ free = 0
  /\ Goto(t, "late")
  /\ UNCHANGED <<free, waiting>>

StopWaiting(t) ==
  /\ pc[t] = "granted"
  /\ waiting' = waiting - 1
  /\ Goto(t, "running")
  /\ UNCHANGED free

(* Faulty: the slot is given back by a thread that never got one. *)
LeaveLateReleasing(t) ==
  /\ pc[t] = "late"
  /\ waiting' = waiting - 1
  /\ free' = free + 1
  /\ Goto(t, "outside")

LeaveLate(t) ==                                      \* GateTimeout
  /\ pc[t] = "late"
  /\ waiting' = waiting - 1
  /\ Goto(t, "outside")
  /\ UNCHANGED free

(* The body returns or raises. *)
Release(t) ==
  /\ pc[t] = "running"
  /\ free' = free + 1
  /\ Goto(t, "outside")
  /\ UNCHANGED waiting

InQueue(t) == \/ StartWaiting(t) \/ Refuse(t)
              \/ Acquire(t) \/ GiveUp(t)
              \/ StopWaiting(t) \/ LeaveLate(t)

Next == \E t \in Threads : \/ EnterDirectly(t) \/ FindFull(t)
                           \/ InQueue(t) \/ Release(t)

Spec == Init /\ [][Next]_vars

(* A waiting thread goes on: acquire has a deadline.  A running one ends:   *)
(* every LLM call has a timeout.  Nobody has to enter.                      *)
Fairness == \A t \in Threads : WF_vars(InQueue(t)) /\ WF_vars(Release(t))

FairSpec == Spec /\ Fairness
----------------------------------------------------------------------------
TypeOK ==
  /\ free \in 0..Limit
  /\ waiting \in Nat
  /\ pc \in [Threads -> Labels]

(* No slot is lost or made up, whichever way threads leave enter(): the     *)
(* free slots and the threads that hold one always add up to Limit.         *)
SlotsConserved == free + Cardinality(Holding) = Limit

(* The counter that decides who is refused counts exactly the threads       *)
(* between the two updates of it, and never more than Depth of them.        *)
QueueIsCounted == waiting = Cardinality(Waiting) /\ waiting <= Depth

(* A thread that queues is not left there: it gets a slot or an error.      *)
TurnComes == \A t \in Threads : pc[t] \in {"full", "queued", "granted", "late"}
                                  ~> pc[t] \in {"outside", "running"}

(* What the gate promises its callers, without semaphore or counter.        *)
InLine == At("queued") \cup At("late")
Promise == INSTANCE BoundedLine WITH running <- Holding, line <- InLine
ImplementsLine == Promise!Spec
=============================================================================
