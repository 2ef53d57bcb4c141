SPECIFICATION Spec
CONSTANTS
  Service = {1}
  Depends <- NoDepends
  Retries <- NeverRetry
  Always = always
  Watched = {}
  Runner = {1, 2}
  Pid = {1, 2, 3}
  Client = {c1, c2}
  Restorer = restorer
  CanUp = {c1}
  CanDown = {c2}
  Ends = {}
  Early = {}
  Autostart = TRUE
  FailCap = 1
  MaxBoots = 1
  MaxHits = 0
  None = none
INVARIANTS
  OneInstance
