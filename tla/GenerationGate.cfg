SPECIFICATION FairSpec
CONSTANTS
  Threads = {t1, t2, t3, t4, t5}
  Limit = 2
  Depth = 2
INVARIANT SlotsConserved
PROPERTY ImplementsLine
PROPERTY TurnComes
