SPECIFICATION HostSpec
CONSTANTS
  Stores = {"boot"}
  Root = {r1}  Repo = {p1}  Name = {n1, n2}  Key = {k1}  Value = {v1, v2}
  MaxStops = 2  MaxFaults = 2  Global = global  None = none
  Id = {i1, i2}  Digest = {d1}  Scope = {s1}  Request = {q1}
  MaxTime = 2  MaxDeaths = 2  Unused = unused  Tombstone = tombstone
  Jobs = {j1}  Gates = {g1}  Controls = {c1}
  Domains = {t1}  Releases = {1, 2}  Units = {1}
  CertHosts = {h1}  Callings = {c1, c2}  NoPair = NoPair  Broken = Broken  MaxIssues = 2  MaxTlsChanges = 1
  Editors = {e1}  Loaders = {c1}  Contents = {a1, a2, l1}  a1 = a1  a2 = a2  l1 = l1  Fits <- MCFits
  Inodes = {1, 2, 3, 4}  NoInode = NoInode  NoSuchFile = NoSuchFile  Truncated = Truncated
  Pages = {g1}  Calls <- MCCalls  MaxHead = 4  MaxBody = 3  MaxPiece = 2  AuthOn = TRUE
  NoToken = NoToken  Contests = FALSE
INVARIANTS
  RefusedCanForget
CHECK_DEADLOCK FALSE
