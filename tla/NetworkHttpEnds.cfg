\* A response that ends without a failure ends the message loop.
SPECIFICATION FairHttpSpec
CONSTANTS
  r = r  w1 = w1  a1 = a1  home = home
  Ids = {r}
  Addresses = {home}
  NoAddress = NoAddress
  Pids = {w1}
  NoPid = NoPid
  TagSets <- MCTags
  Timeouts = {9}
  Ttls = {1}
  Outcomes = {"resolved"}
  RetryTimeout = 2
  ClockLag = 0
  ScheduleIds = {}
  ScheduleTemplates <- NoTemplates
  OccurrenceId <- NoOccurrence
  DebugTimes = {}
  MaxTime = 3
  MaxVersion = 9
  Waiters = {a1}
  AwaitedId <- RootAwaited
  UnicastOf <- HomeUnicast
  Fallback = 2
  ErrorPause = 1
  ListenBefore = 9
  Loop = w1
  LoopTtl = 1
  Root = r
  RootTags <- Targeted
  RootDeadline = 9
  FirstPause = 1
  PauseCap = 2
  FaultsBefore = 2
  MaxFaults = 2
INVARIANTS LoopListens
