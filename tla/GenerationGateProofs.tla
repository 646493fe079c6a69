------------------------ MODULE GenerationGateProofs ------------------------
(***************************************************************************)
(* The gate for any number of threads, slots and places in the line.       *)
(* Every step moves ONE thread t from one label to another, so it adds t   *)
(* to the holders (or the waiters), removes it, or leaves them alone; the  *)
(* cardinality lemmas of FiniteSetTheorems then give the counters.         *)
(***************************************************************************)
EXTENDS GenerationGate, FiniteSetTheorems, TLAPS

(* The conjunction that every step preserves. *)
IInv == TypeOK /\ SlotsConserved /\ QueueIsCounted

(* Holders and waiters are sets of threads, hence finite. *)
LEMMA FiniteCrowds ==
  /\ IsFiniteSet(Holding) /\ Cardinality(Holding) \in Nat
  /\ IsFiniteSet(Waiting) /\ Cardinality(Waiting) \in Nat
<1>1. Holding \subseteq Threads /\ Waiting \subseteq Threads
  BY DEF Holding, Waiting, At
<1>2. IsFiniteSet(Holding) /\ IsFiniteSet(Waiting)
  BY <1>1, GateAssumption, FS_Subset
<1> QED
  BY <1>2, FS_CardinalityType

(* A thread more, or a thread less. *)
LEMMA OneMore ==
  ASSUME NEW S, IsFiniteSet(S), NEW t, t \notin S
  PROVE  Cardinality(S \cup {t}) = Cardinality(S) + 1
BY FS_AddElement

LEMMA OneLess ==
  ASSUME NEW S, IsFiniteSet(S), NEW t \in S
  PROVE  Cardinality(S \ {t}) = Cardinality(S) - 1
BY FS_RemoveElement

LEMMA InitIInv == Init => IInv
<1> SUFFICES ASSUME Init PROVE IInv
  OBVIOUS
<1>1. Holding = {} /\ Waiting = {}
  BY DEF Init, Holding, Waiting, At
<1>2. Cardinality(Holding) = 0 /\ Cardinality(Waiting) = 0
  BY <1>1, FS_EmptySet
<1> QED
  BY <1>2, GateAssumption DEF IInv, Init, TypeOK, SlotsConserved, QueueIsCounted, Labels

LEMMA NextIInv == IInv /\ [Next]_vars => IInv'
<1> SUFFICES ASSUME IInv, [Next]_vars PROVE IInv'
  OBVIOUS
<1> USE GateAssumption
<1>a. TypeOK /\ SlotsConserved /\ QueueIsCounted
  BY DEF IInv
<1>b. /\ IsFiniteSet(Holding) /\ Cardinality(Holding) \in Nat
      /\ IsFiniteSet(Waiting) /\ Cardinality(Waiting) \in Nat
  BY FiniteCrowds
<1>1. CASE UNCHANGED vars
  BY <1>a, <1>1 DEF IInv, TypeOK, SlotsConserved, QueueIsCounted, vars, Holding, Waiting, At
<1>2. ASSUME NEW t \in Threads, EnterDirectly(t) PROVE IInv'
  <2>1. TypeOK'
    BY <1>a, <1>2 DEF TypeOK, EnterDirectly, Goto, Labels
  <2>2. Holding' = Holding \cup {t} /\ t \notin Holding /\ Waiting' = Waiting
    BY <1>a, <1>2 DEF TypeOK, EnterDirectly, Goto, Labels, Holding, Waiting, At
  <2>3. Cardinality(Holding') = Cardinality(Holding) + 1
    BY <1>b, <2>2, OneMore
  <2> QED
    BY <1>a, <1>b, <1>2, <2>1, <2>2, <2>3
    DEF IInv, TypeOK, SlotsConserved, QueueIsCounted, EnterDirectly
<1>3. ASSUME NEW t \in Threads, FindFull(t) \/ Refuse(t) \/ GiveUp(t) PROVE IInv'
  <2>1. TypeOK'
    BY <1>a, <1>3 DEF TypeOK, FindFull, Refuse, GiveUp, Goto, Labels
  <2>2. Holding' = Holding /\ Waiting' = Waiting
    BY <1>a, <1>3 DEF TypeOK, FindFull, Refuse, GiveUp, Goto, Labels, Holding, Waiting, At
  <2> QED
    BY <1>a, <1>3, <2>1, <2>2
    DEF IInv, SlotsConserved, QueueIsCounted, FindFull, Refuse, GiveUp
<1>4. ASSUME NEW t \in Threads, StartWaiting(t) PROVE IInv'
  <2>1. TypeOK'
    BY <1>a, <1>4 DEF TypeOK, StartWaiting, Goto, Labels
  <2>2. Waiting' = Waiting \cup {t} /\ t \notin Waiting /\ Holding' = Holding
    BY <1>a, <1>4 DEF TypeOK, StartWaiting, Goto, Labels, Holding, Waiting, At
  <2>3. Cardinality(Waiting') = Cardinality(Waiting) + 1
    BY <1>b, <2>2, OneMore
  <2> QED
    BY <1>a, <1>b, <1>4, <2>1, <2>2, <2>3
    DEF IInv, TypeOK, SlotsConserved, QueueIsCounted, StartWaiting, QueueHasRoom
<1>5. ASSUME NEW t \in Threads, Acquire(t) PROVE IInv'
  <2>1. TypeOK'
    BY <1>a, <1>5 DEF TypeOK, Acquire, Goto, Labels
  <2>2. Holding' = Holding \cup {t} /\ t \notin Holding /\ Waiting' = Waiting
    BY <1>a, <1>5 DEF TypeOK, Acquire, Goto, Labels, Holding, Waiting, At
  <2>3. Cardinality(Holding') = Cardinality(Holding) + 1
    BY <1>b, <2>2, OneMore
  <2> QED
    BY <1>a, <1>b, <1>5, <2>1, <2>2, <2>3
    DEF IInv, TypeOK, SlotsConserved, QueueIsCounted, Acquire
<1>6. ASSUME NEW t \in Threads, StopWaiting(t) \/ LeaveLate(t) PROVE IInv'
  <2>1. Waiting' = Waiting \ {t} /\ t \in Waiting /\ Holding' = Holding
    BY <1>a, <1>6 DEF TypeOK, StopWaiting, LeaveLate, Goto, Labels, Holding, Waiting, At
  <2>2. Cardinality(Waiting') = Cardinality(Waiting) - 1
    BY <1>b, <2>1, OneLess
  <2>3. waiting' = waiting - 1 /\ waiting' = Cardinality(Waiting') /\ free' = free
    BY <1>a, <1>b, <1>6, <2>2 DEF QueueIsCounted, StopWaiting, LeaveLate
  <2>4. Cardinality(Waiting') \in Nat
    BY <1>b, <2>1, FS_RemoveElement, FS_CardinalityType
  <2>5. TypeOK'
    BY <1>a, <1>6, <2>3, <2>4 DEF TypeOK, StopWaiting, LeaveLate, Goto, Labels
  <2> QED
    BY <1>a, <1>b, <2>1, <2>3, <2>5 DEF IInv, TypeOK, SlotsConserved, QueueIsCounted
<1>7. ASSUME NEW t \in Threads, Release(t) PROVE IInv'
  <2>1. Holding' = Holding \ {t} /\ t \in Holding /\ Waiting' = Waiting
    BY <1>a, <1>7 DEF TypeOK, Release, Goto, Labels, Holding, Waiting, At
  <2>2. Cardinality(Holding') = Cardinality(Holding) - 1
    BY <1>b, <2>1, OneLess
  <2>3. Cardinality(Holding') \in Nat
    BY <1>b, <2>1, FS_RemoveElement, FS_CardinalityType
  <2>4. free' = free + 1 /\ waiting' = waiting
    BY <1>7 DEF Release
  <2>5. TypeOK'
    BY <1>a, <1>b, <1>7, <2>2, <2>3, <2>4 DEF TypeOK, SlotsConserved, Release, Goto, Labels
  <2> QED
    BY <1>a, <1>b, <2>1, <2>2, <2>4, <2>5 DEF IInv, TypeOK, SlotsConserved, QueueIsCounted
<1> QED
  BY <1>1, <1>2, <1>3, <1>4, <1>5, <1>6, <1>7 DEF Next, InQueue

(* Whatever the number of threads, their order and the way they leave, the  *)
(* semaphore and the counter of concurrency.py agree with the threads that  *)
(* hold a slot and the threads that wait, and both bounds are kept.         *)
THEOREM GateCounts == Spec => [](TypeOK /\ SlotsConserved /\ QueueIsCounted)
<1>1. IInv => TypeOK /\ SlotsConserved /\ QueueIsCounted
  BY DEF IInv
<1> QED
  BY InitIInv, NextIInv, <1>1, PTL DEF Spec

(* In particular the counter that decides who is refused is the length of   *)
(* the line, and never more than Depth threads are let into it.             *)
THEOREM LineIsCounted == Spec => [](TypeOK /\ QueueIsCounted)
BY GateCounts, PTL

----------------------------------------------------------------------------
LEMMA InitLine == Init => Promise!Init
BY DEF Init, Promise!Init, InLine, Holding, At

(* BoundedLine's own import of Cardinality is the same operator.            *)
LEMMA SameCardinality == \A S : Promise!Cardinality(S) = Cardinality(S)
BY DEF Promise!Cardinality, Cardinality

(* The slots that are taken, and the part of the waiters that is the line.  *)
LEMMA Crowd ==
  ASSUME IInv
  PROVE  /\ free > 0 => Promise!RoomToRun
         /\ QueueHasRoom => Promise!RoomToWait
<1>1. /\ Cardinality(Holding) \in Nat
      /\ IsFiniteSet(Waiting) /\ Cardinality(Waiting) \in Nat
  BY FiniteCrowds
<1>2. InLine \subseteq Waiting
  BY DEF InLine, Waiting
<1>3. Cardinality(InLine) \in Nat /\ Cardinality(InLine) <= Cardinality(Waiting)
  BY <1>1, <1>2, FS_Subset, FS_CardinalityType
<1> QED
  BY <1>1, <1>3, GateAssumption, SameCardinality
  DEF IInv, TypeOK, SlotsConserved, QueueIsCounted, QueueHasRoom,
      Promise!RoomToRun, Promise!RoomToWait

LEMMA NextLine == IInv /\ [Next]_vars => [Promise!Next]_<<Holding, InLine>>
<1> SUFFICES ASSUME IInv, [Next]_vars PROVE [Promise!Next]_<<Holding, InLine>>
  OBVIOUS
<1>a. TypeOK
  BY DEF IInv
<1>b. (free > 0 => Promise!RoomToRun) /\ (QueueHasRoom => Promise!RoomToWait)
  BY Crowd
<1> USE DEF TypeOK, Labels, Goto, InLine, Holding, At
<1>1. CASE UNCHANGED vars
  BY <1>1 DEF vars
<1>2. ASSUME NEW t \in Threads, EnterDirectly(t) PROVE Promise!Run(t)
  BY <1>a, <1>b, <1>2 DEF EnterDirectly, Promise!Run
<1>3. ASSUME NEW t \in Threads, StartWaiting(t) PROVE Promise!Wait(t)
  BY <1>a, <1>b, <1>3 DEF StartWaiting, Promise!Wait
<1>4. ASSUME NEW t \in Threads, Acquire(t) PROVE Promise!Proceed(t)
  BY <1>a, <1>b, <1>4 DEF Acquire, Promise!Proceed
<1>5. ASSUME NEW t \in Threads, LeaveLate(t) PROVE Promise!GiveUp(t)
  BY <1>a, <1>5 DEF LeaveLate, Promise!GiveUp
<1>6. ASSUME NEW t \in Threads, Release(t) PROVE Promise!Leave(t)
  BY <1>a, <1>6 DEF Release, Promise!Leave
<1>7. ASSUME NEW t \in Threads, FindFull(t) \/ Refuse(t) \/ GiveUp(t) \/ StopWaiting(t)
      PROVE  UNCHANGED <<Holding, InLine>>
  BY <1>a, <1>7 DEF FindFull, Refuse, GiveUp, StopWaiting
<1> QED
  BY <1>1, <1>2, <1>3, <1>4, <1>5, <1>6, <1>7 DEF Next, InQueue, Promise!Next

(* The semaphore, the counter and the separate steps on them implement the  *)
(* bounded line: callers run at most Limit at a time and wait at most Depth *)
(* at a time, for every Limit, Depth and set of threads.                    *)
THEOREM GateIsBoundedLine == Spec => ImplementsLine
<1> QED
  BY InitIInv, NextIInv, InitLine, NextLine, PTL DEF Spec, ImplementsLine, Promise!Spec
=============================================================================
