\* Every task ends under a fair tick and a clock that moves.
SPECIFICATION FairSpec
CONSTANTS
  p1 = p1  p2 = p2  w1 = w1  w2 = w2  a1 = a1  s1 = s1  s2 = s2
  Ids = {p1, p2}
  Addresses = {}
  NoAddress = NoAddress
  Pids = {w1}
  NoPid = NoPid
  TagSets <- MCDelayTags
  Timeouts = {1, 2}
  Ttls = {1}
  Outcomes <- OneOutcome
  RetryTimeout = 1
  ClockLag = 0
  ScheduleIds = {}
  ScheduleTemplates <- NoTemplates
  OccurrenceId <- NoOccurrence
  DebugTimes = {}
  MaxTime = 2
  MaxVersion = 1
PROPERTIES TasksEnd
