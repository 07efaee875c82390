SPECIFICATION Spec
CONSTANTS
  a = a
  b = b
  c = c
  JobId = {a, b, c}
  Interval = {0, 2}
  Never = Never
  Gone = Gone
  MaxTime = 2
  MaxJobs = 6
SYMMETRY MCSymmetry
INVARIANTS TickRunsJobs FailedTickStopsInPlace RunsAreSpaced
