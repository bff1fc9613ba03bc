\* More requests, with two operations each, than the bound allows connections.
SPECIFICATION Spec
CONSTANTS
  Requests = {r1, r2, r3, r4, r5}
  None = None
  MaxInFlight = 2
  MaxClosed = 1
SYMMETRY RequestSymmetry
INVARIANTS TypeOK ConnectionsBounded
\* Once every request is answered, the process rests.
CHECK_DEADLOCK FALSE
