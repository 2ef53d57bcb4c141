SPECIFICATION FairSpec
CONSTANTS
  Service = {1}
  Depends <- NoDepends
  Retries <- NeverRetry
  Always = always
  Watched = {1}
  Runner = {1, 2}
  Pid = {1, 2}
  Client = {c1}
  Restorer = restorer
  CanUp = {c1}
  CanDown = {c1}
  Ends = {"sigterm"}
  Early = {}
  Autostart = TRUE
  FailCap = 1
  MaxBoots = 2
  MaxHits = 1
  None = none
PROPERTIES
  StopsObeyed
