\* The scenario's document, two workers, three attempts; the only fault is the kill.
SPECIFICATION ScenarioSpec
CONSTANTS
  j1 = j1  d1 = d1
  Documents = {d1}
  Jobs = {j1}
  DocOf <- OneJob
  Target = j1
  Unset = Unset
  Workers = {w1, w2}
  MaxAttempts = 3
  Threshold = 2
  MaxInFlight = 1
  MaxVersion = 1
  Poison = Poison
  Nothing = Nothing
  Faults = {"crash"}
  MaxFaults = 1
INVARIANTS KilledJobIsStuck ReportStands
PROPERTIES ScenarioEnds
\* Once the scenario has ended and the job is settled, the stack rests.
CHECK_DEADLOCK FALSE
