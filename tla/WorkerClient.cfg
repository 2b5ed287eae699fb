\* A client claims the task too; a step may fail and is tried again.
SPECIFICATION WorkerSpec
CONSTANTS
  r = r  a = a  b = b  z = z  w1 = w1  w2 = w2  g1 = g1  client = client  home = home
  Addresses = {}
  NoAddress = NoAddress
  NoPid = NoPid
  NoId = NoId
  TagSets <- RootTagSets
  ClockLag = 0
  ScheduleIds = {}
  ScheduleTemplates <- NoTemplates
  OccurrenceId <- NoOccurrence
  DebugTimes = {}
  Roots = {r}
  Ids = {r, a, b}
  Pids = {w1, client}
  Workers = {w1}
  Fibers = {w1, g1}
  Guests = {g1}
  HostOf <- GuestHost
  ClientPid = client
  Script <- StepAndPromise
  Registered <- EveryFunction
  EffectOutcomes = {"resolved", "rejected", "died"}
  Outcomes = {"resolved"}
  Timeouts = {2}
  RootTimeout = 2
  Ttls = {1}
  Ttl = 1
  RetryTimeout = 1
  Waiters = {}
  AwaitedId <- NobodyAwaits
  UnicastOf <- NoUnicast
  Fallback = 1
  ErrorPause = 1
  ListenBefore = 0
  FaultsBefore = 0
  Cancellable = {r, a}
  CrashBefore = 1
  LoneBefore = 1
  HeartbeatsOnTime = FALSE
  MaxTime = 2
  MaxVersion = 2
INVARIANTS FailureHasCause AttemptsInBudget ReplayFaithful HeldIsRun OneHolder
PROPERTIES NoRepeatedStep
