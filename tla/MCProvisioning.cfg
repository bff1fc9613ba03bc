\* Commands in pairs, two of them cut short.
CONSTANTS
  p1 = p1 p2 = p2 p3 = p3
  Commands = {p1, p2, p3}
  Count = 2
  MaxRunning = 2
  MaxCrashes = 2
  Header = Header
  NoFile = NoFile
SPECIFICATION Spec
INVARIANTS KeysAuthenticate AccountsHaveKeys ClientCanLoad HeaderOnce
CHECK_DEADLOCK FALSE
