SPECIFICATION Spec
CONSTANTS
  Service = {1}
  Depends <- NoDepends
  Retries <- OneRetry
  Always = always
  Watched = {1}
  Runner = {1, 2}
  Pid = {1, 2, 3}
  Client = {c1}
  Restorer = restorer
  CanUp = {c1}
  CanDown = {c1}
  Ends = {"crash", "sigterm"}
  Early = {}
  Autostart = TRUE
  FailCap = 2
  MaxBoots = 3
  MaxHits = 1
  None = none
INVARIANTS
  
  DownMeansDown
  HonestStatus
  
  Accounted
