SPECIFICATION FairSpec
CONSTANTS
  Service = {1}
  Depends <- NoDepends
  Retries <- OneRetry
  Always = always
  Watched = {}
  Runner = {1}
  Pid = {1}
  Client = {c1}
  Restorer = restorer
  CanUp = {c1}
  CanDown = {}
  Ends = {}
  Early = {}
  Autostart = TRUE
  FailCap = 2
  MaxBoots = 1
  MaxHits = 0
  None = none
PROPERTIES
  Settles
