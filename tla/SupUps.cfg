SPECIFICATION Spec
CONSTANTS
  Service = {1}
  Depends <- NoDepends
  Retries <- AlwaysRetry
  Always = always
  Watched = {1}
  Runner = {1, 2}
  Pid = {1, 2, 3}
  Client = {c1, c2}
  Restorer = restorer
  CanUp = {c1, c2}
  CanDown = {}
  Ends = {"crash", "sigterm"}
  Early = {}
  Autostart = TRUE
  FailCap = 1
  MaxBoots = 2
  MaxHits = 1
  None = none
INVARIANTS
  OneInstance
PROPERTIES
  ShutdownStopsAll
