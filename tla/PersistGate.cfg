SPECIFICATION Spec
CONSTANTS
  Command = {u1, u2}
  Sync = {s1}
  Edit = {e1, e2}
  MaxStops = 2
  None = none
INVARIANTS
  NothingLost
  AckedSurvives
PROPERTIES
  FileKept
