----------------------------- MODULE BoundedLine -----------------------------
(***************************************************************************)
(* What a generation gate promises: callers run, at most Limit at a time,  *)
(* or stand in a line of at most Depth, which is left by running or by     *)
(* giving up.  The header and the messages of concurrency.py state it.     *)
(***************************************************************************)
EXTENDS Naturals, FiniteSets

CONSTANTS Threads, Limit, Depth
VARIABLES running, line

Init == running = {} /\ line = {}

RoomToRun == Cardinality(running) < Limit
RoomToWait == Cardinality(line) < Depth

Run(t) ==
  /\ t \notin running \cup line /\ RoomToRun
  /\ running' = running \cup {t}
  /\ UNCHANGED line

Wait(t) ==
  /\ t \notin running \cup line /\ RoomToWait
  /\ line' = line \cup {t}
  /\ UNCHANGED running

Proceed(t) ==
  /\ t \in line /\ RoomToRun
  /\ line' = line \ {t}
  /\ running' = running \cup {t}

GiveUp(t) == t \in line /\ line' = line \ {t} /\ UNCHANGED running

Leave(t) == t \in running /\ running' = running \ {t} /\ UNCHANGED line

Next == \E t \in Threads : Run(t) \/ Wait(t) \/ Proceed(t) \/ GiveUp(t) \/ Leave(t)

Spec == Init /\ [][Next]_<<running, line>>
=============================================================================
