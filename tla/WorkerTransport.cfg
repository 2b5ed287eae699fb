\* A request of a handler fails in transport.
SPECIFICATION WorkerSpec
CONSTANTS
  r = r  a = a  b = b  z = z  w1 = w1  w2 = w2  g1 = g1  client = client  home = home
  Addresses = {}
  NoAddress = NoAddress
  NoPid = NoPid
  NoId = NoId
  TagSets <- RootTagSets
  ClockLag = 0
  ScheduleIds = {}
  ScheduleTemplates <- NoTemplates
  OccurrenceId <- NoOccurrence
  DebugTimes = {}
  Roots = {r}
  Ids = {r, a}
  Pids = {w1, client}
  Workers = {w1}
  Fibers = {w1}
  Guests = {}
  HostOf <- NoHost
  ClientPid = client
  Script <- OneStep
  Registered <- EveryFunction
  EffectOutcomes = {"resolved"}
  Outcomes = {"resolved"}
  Timeouts = {2}
  RootTimeout = 2
  Ttls = {1}
  Ttl = 1
  RetryTimeout = 1
  Waiters = {}
  AwaitedId <- NobodyAwaits
  UnicastOf <- NoUnicast
  Fallback = 1
  ErrorPause = 1
  ListenBefore = 0
  FaultsBefore = 1
  Cancellable = {}
  CrashBefore = 0
  LoneBefore = 0
  HeartbeatsOnTime = FALSE
  MaxTime = 2
  MaxVersion = 2
INVARIANTS FailureHasCause
