\* Processes die, transactions and requests fail; channels stay up while the process lives.
SPECIFICATION Spec
CONSTANTS
  j1 = j1  j2 = j2  j3 = j3  j4 = j4
  d1 = d1  d2 = d2  d3 = d3  d4 = d4
  Documents = {d1}
  Jobs = {j1, j2}
  DocOf <- TwoJobsOneDocument
  Workers = {w1, w2}
  MaxAttempts = 2
  Threshold = 2
  MaxInFlight = 2
  MaxVersion = 1
  Poison = Poison
  Nothing = Nothing
  Faults = {"crash", "db", "ambiguous", "api", "stop", "poison"}
  MaxFaults = 3
SYMMETRY Symmetry
INVARIANTS QueuedIsCarried
\* Once every job is finished and nobody asks for more, the system rests.
CHECK_DEADLOCK FALSE
