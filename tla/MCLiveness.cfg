\* Connections drop, workers are drained and replaced, malformed messages arrive, parses hang.
SPECIFICATION FairSpec
CONSTANTS
  j1 = j1  j2 = j2  j3 = j3  j4 = j4
  d1 = d1  d2 = d2  d3 = d3  d4 = d4
  Documents = {d1}
  Jobs = {j1}
  DocOf <- OneJob
  Workers = {w1, w2}
  MaxAttempts = 2
  Threshold = 2
  MaxInFlight = 2
  MaxVersion = 1
  Poison = Poison
  Nothing = Nothing
  Faults = {"conn", "stop", "poison", "hang"}
  MaxFaults = 3
INVARIANTS QueuedIsCarried StartedIsHeld
PROPERTIES EveryJobTerminates PoisonDrains
\* Once every job is finished and nobody asks for more, the system rests.
CHECK_DEADLOCK FALSE
