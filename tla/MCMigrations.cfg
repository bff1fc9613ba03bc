\* Two jobs of one document: enough for every duplicate a constraint can meet.
CONSTANTS
  a1 = a1 j1 = j1 j2 = j2 doc = doc
  Accounts = {a1}
  Documents = {doc}
  Jobs = {j1, j2}
  DocOf <- TwoOfOne
SPECIFICATION Spec
INVARIANTS UpgradeSucceeds DowngradeSucceeds OneUnfinishedJob DowngradeReversesSchema
PROPERTIES LossOnlyWhereDeclared
CHECK_DEADLOCK FALSE
