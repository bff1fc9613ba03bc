\* Four documents, a threshold of one, two requests at a time, one worker.
SPECIFICATION Spec
CONSTANTS
  j1 = j1  j2 = j2  j3 = j3  j4 = j4
  d1 = d1  d2 = d2  d3 = d3  d4 = d4
  Documents = {d1, d2, d3, d4}
  Jobs = {j1, j2, j3, j4}
  DocOf <- OneJobEach
  Workers = {w1}
  MaxAttempts = 2
  Threshold = 1
  MaxInFlight = 2
  MaxVersion = 1
  Poison = Poison
  Nothing = Nothing
  Faults = {"stop"}
  MaxFaults = 1
INVARIANTS DepthBounded
\* Once every job is finished and nobody asks for more, the system rests.
CHECK_DEADLOCK FALSE
