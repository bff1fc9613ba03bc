\* One run; runs do not meet.
CONSTANTS
  r1 = r1 r2 = r2
  Runs = {r1}
  MaxAttempts = 2
SPECIFICATION Spec
INVARIANTS UploadHasRow
CHECK_DEADLOCK FALSE
