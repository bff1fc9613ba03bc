\* Two concurrent runs, two attempts each.
CONSTANTS
  r1 = r1 r2 = r2
  Runs = {r1, r2}
  MaxAttempts = 2
SPECIFICATION FairSpec
INVARIANTS VerdictIsFinal PollFindsJob RowMeansPromise
PROPERTIES EveryRunEnds
CHECK_DEADLOCK FALSE
