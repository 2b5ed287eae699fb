\* Every invocation is executed, through lost messages and restarts.
SPECIFICATION FairWorkerSpec
CONSTANTS
  r = r  a = a  b = b  z = z  w1 = w1  w2 = w2  g1 = g1  client = client  home = home
  Addresses = {home}
  NoAddress = NoAddress
  NoPid = NoPid
  NoId = NoId
  TagSets <- RootTagSets
  ClockLag = 0
  ScheduleIds = {}
  ScheduleTemplates <- NoTemplates
  OccurrenceId <- NoOccurrence
  DebugTimes = {}
  Roots = {r}
  Ids = {r, b, z}
  Pids = {w1, client}
  Workers = {w1}
  Fibers = {w1}
  Guests = {}
  HostOf <- NoHost
  ClientPid = client
  Script <- SleepSpawn
  Registered <- EveryFunction
  EffectOutcomes = {"resolved"}
  Outcomes = {"resolved"}
  Timeouts = {9}
  RootTimeout = 9
  Ttls = {2}
  Ttl = 2
  RetryTimeout = 1
  Waiters = {client}
  AwaitedId <- RootAwaited
  UnicastOf <- ClientUnicast
  Fallback = 1
  ErrorPause = 1
  ListenBefore = 1
  FaultsBefore = 0
  Cancellable = {}
  CrashBefore = 2
  LoneBefore = 1
  HeartbeatsOnTime = TRUE
  MaxTime = 3
  MaxVersion = 6
INVARIANTS ReturnsLast AnswerTrue
PROPERTIES Executed Answered
