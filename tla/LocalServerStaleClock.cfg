\* A handler commits with a timestamp read before the clock moved.
SPECIFICATION Spec
CONSTANTS
  p1 = p1  p2 = p2  w1 = w1  w2 = w2  a1 = a1  s1 = s1  s2 = s2
  Ids = {p1, p2}
  Addresses = {}
  NoAddress = NoAddress
  Pids = {w1}
  NoPid = NoPid
  TagSets <- TargetTags
  Timeouts = {1}
  Ttls = {1}
  Outcomes <- OneOutcome
  RetryTimeout = 1
  ClockLag = 1
  ScheduleIds = {}
  ScheduleTemplates <- NoTemplates
  OccurrenceId <- NoOccurrence
  DebugTimes = {}
  MaxTime = 1
  MaxVersion = 1
PROPERTIES ObservationStable
SYMMETRY IdSymmetry
