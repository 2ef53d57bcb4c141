SPECIFICATION FairSpec
CONSTANTS
  Service = {1, 2}
  Depends <- Chain
  Retries <- NeverRetry
  Always = always
  Watched = {}
  Runner = {1, 2}
  Pid = {1, 2}
  Client = {c1}
  Restorer = restorer
  CanUp = {c1}
  CanDown = {c1}
  Ends = {}
  Early = {}
  Autostart = TRUE
  FailCap = 1
  MaxBoots = 1
  MaxHits = 0
  None = none
PROPERTIES
  CommandsReturn
  DependentFollows
  Settles
