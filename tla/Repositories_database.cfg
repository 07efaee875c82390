SPECIFICATION Spec
CHECK_DEADLOCK FALSE
CONSTANTS
  c1 = c1
  c2 = c2
  m1 = m1
  m2 = m2
  Caller = {c1, c2}
  Migrator = {m1, m2}
  Nobody = Nobody
  NoCount = NoCount
  Ids <- MCIds
  MaxCalls = 2
  MaxRuns = 2
SYMMETRY MCSymmetry
INVARIANTS TypeOK ReferencesHold KeysFindOne CustomersKept ReportedOnce
PROPERTY UpgradesInOrder
