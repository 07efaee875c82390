SPECIFICATION Spec
CONSTANTS
  t1 = t1
  t2 = t2
  r1 = r1
  r2 = r2
  k1 = k1
  k2 = k2
  v1 = v1
  v2 = v2
  Thread <- MCThread
  Repo = {r1}
  Of <- MCOneProcess
  Key <- MCKey
  Value = {v1}
  Absent = Absent
  NoFile = NoFile
  Torn = Torn
  Unloaded = Unloaded
  NoThread = NoThread
  NoOp = NoOp
  BackupCount = 2
  AutoSave = {r1}
  MaxCalls = 1
  MaxFaults = 0

PROPERTY GetFindsStored
