\* Two promises, one worker, every tag combination that matters to a task.
SPECIFICATION Spec
CONSTANTS
  p1 = p1  p2 = p2  w1 = w1  w2 = w2  a1 = a1  s1 = s1  s2 = s2
  Ids = {p1, p2}
  Addresses = {a1}
  NoAddress = NoAddress
  Pids = {w1}
  NoPid = NoPid
  TagSets <- MCTags
  Timeouts = {1, 2}
  Ttls = {1}
  Outcomes <- OneOutcome
  RetryTimeout = 1
  ClockLag = 0
  ScheduleIds = {}
  ScheduleTemplates <- NoTemplates
  OccurrenceId <- NoOccurrence
  DebugTimes = {}
  MaxTime = 2
  MaxVersion = 2
INVARIANTS TypeOK Lockstep DeadlineArmed TimeoutDiscipline SuspendedIsAwaiting RegistrationsLive Dispatched
PROPERTIES ObservationStable FencingTokens NoLostWakeup ImplementsDurableTask
SYMMETRY IdSymmetry
