SPECIFICATION Spec
CONSTANTS
  memory = memory
  json = json
  sqlite = sqlite
  other = other
  file = file
  otherFile = otherFile
  Memory = {memory}
  Json = {json}
  Sqlite = {sqlite, other}
  Order <- MCOrder
  Db <- MCTwoDbs
  Item = {x}
  NoWriter = NoWriter
  MaxUses = 1
  MaxOthers = 2
  MaxFaults = 1
INVARIANTS TypeOK ExceptionRestores CommitIsDurable NothingLeftOpen TornInOrder
