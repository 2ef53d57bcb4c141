SPECIFICATION SafeSpec
CONSTANTS
  Parts = {"routes", "secrets", "masker", "sync", "config", "netbridge", "logs", "relay", "proxy", "sampler", "tunnel", "names"}
  h1 = h1  h2 = h2  h3 = h3  h4 = h4  k1 = k1  k2 = k2  b1 = b1
  v1 = v1  v2 = v2  v3 = v3  r1 = r1  r2 = r2  s1 = s1  s2 = s2  e1 = e1  e2 = e2
  Hosts = {h1, h2, h3}  RuleHosts = {h1, h3}  Tlds = {t1}  TldOf <- MCTldOf
  Targets = {x1}  Containers = {k1, k2}  Bindings = {b1}  HostOf <- MCHostOf
  Callers = {c1, c2}  Booter = boot  NoRoute = NoRoute
  MaxEvents = 2  Overlap = FALSE  BootGap = FALSE
  TcpNames = {n1, n2}  Queries = {n1, n2}  Covers <- MCCovers
  TcpTargets = {x1, x2}  PortOf <- MCPortOf  NoTarget = NoTarget  NoFront = NoFront
  LastAddr = 2  MaxTasks = 3  Prompt = TRUE
  SecretBlocks = {k1}  Fetchers = {f1, f2}  Providers = {"local", "infisical", "onepassword"}
  NotCached = NotCached  NotFetching = NotFetching
  MaxEdits = 2  MaxRotations = 2  Straddle = FALSE
  Secrets = {v1, v2, v3}  Within <- MCWithin  Supervised = {1, 2}  EgressOwner = 0
  GivenTo <- MCGivenTo  MaxLines = 2  TwoRunners = FALSE
  SyncClients = {c1, c2}  Names = {s1, s2}  SecretNames = {k1}  EgressNames = {e1, e2}
  RouteHosts = {h1, h2, h3, h4}  Files <- MCFiles  Global = Global
  NoSlot = NoSlot  NoRunner = NoRunner  NoEgress = NoEgress  Nobody = Nobody
  Free = Free  Idle = Idle  MaxCrashes = 1  UpBeside = FALSE
  LastService = 3  Overlays <- MCOverlays  Absent = Absent  NoFile = NoFile  Dashboard = Dashboard
  Ifaces = {u1, u2}  Subnet = Subnet  DockerNets = {n1}
  Modes = {"docker", "all"}  Uses = {"unused", "used"}
  NoIface = NoIface  MaxAttempts = 2  DeleteIgnoresIface = FALSE
  LogServices = {s1, s2}  Viewers = {w1}  Sizes = {1}  ChannelCapacity = 2  MaxBatch = 2
  ByteBudget = 2  PerService = 1  TailLimit = 3  PollLimit = 2  Scrollback = 2  PageUp = 2
  NoView = NoView  MaxPrinted = 4  MaxRestarts = 1
  ListPanels = {"entries", "services"}  Unselected = Unselected  NotRead = NotRead
  RowsOf <- TuiRows  MayBeAway = FALSE
  HeadsSent <- MCHeads  MaxHeaderUnits = 3  MaxRead = 2
  Conns = {c1}  ProxyHosts = {h1}  HostEntries <- MCEntries  EgressBlocks = {k1}
  Requests <- MCRequests  KnownTo <- MCKnownTo  ManagedBroker = FALSE  MaxChanges = 2
  NoEntry = NoEntry  NoBlock = NoBlock  NoValue = NoValue
  Sampled = {k1}  Groups = {s1}  HistoryCapacity = 2  NoSample = NoSample
  MaxTime = 3  MaxUsed = 1  Width = 8
  VmAddrs = {a1, a2}  Others = {o1}  NoEnd = NoEnd
  MaxStarts = 2  MaxShakes = 2  MaxPackets = 1  MaxOnWire = 2
  Clean = {"a", "b", "c", "x", "t", "portman", "localhost", "local"}
  Typed <- MCTyped  TldsTyped <- MCTldsTyped  Asked <- MCAsked
  RuleNames <- MCServed  ServiceNames <- MCServed  LabelNames <- MCLabels  MayStarTcp = FALSE
  Fronts = {n1}  Routed = {x1, x2}  MaxFlaps = 3
INVARIANTS
   CacheCurrent NothingExposed VerdictSound
  PaneTrue EndsAgree HopsJustified   NamesAgree
PROPERTIES
  SyncTrue 
CHECK_DEADLOCK FALSE
