\* Two schedules that share a promise id, late ticks, debug.tick and reset.
SPECIFICATION Spec
CONSTANTS
  p1 = p1  p2 = p2  w1 = w1  w2 = w2  a1 = a1  s1 = s1  s2 = s2
  Ids = {p1, p2}
  Addresses = {}
  NoAddress = NoAddress
  Pids = {w1}
  NoPid = NoPid
  TagSets <- NoTagSets
  Timeouts = {2}
  Ttls = {1}
  Outcomes <- OneOutcome
  RetryTimeout = 1
  ClockLag = 0
  ScheduleIds = {s1, s2}
  ScheduleTemplates <- MCTemplates
  OccurrenceId <- Occurrence
  DebugTimes = {2}
  MaxTime = 3
  MaxVersion = 0
INVARIANTS NoMissedOccurrence DeadlineArmed
