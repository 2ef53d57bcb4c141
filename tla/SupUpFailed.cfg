SPECIFICATION Spec
CONSTANTS
  Service = {1}
  Depends <- NoDepends
  Retries <- NeverRetry
  Always = always
  Watched = {1}
  Runner = {1, 2}
  Pid = {1, 2, 3}
  Client = {c1}
  Restorer = restorer
  CanUp = {c1}
  CanDown = {c1}
  Ends = {}
  Early = {}
  Autostart = TRUE
  FailCap = 1
  MaxBoots = 1
  MaxHits = 1
  None = none
PROPERTIES
  UpRevivesFailed
