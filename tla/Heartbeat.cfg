SPECIFICATION BeatSpec
CONSTANTS
  build = build tests = tests
  Contexts = {build} Wrapped = {tests}
  Interval = 2 Stall = 3 Timeout = 3 Patience = 1
INVARIANT StalledMeansSilent
PROPERTIES DeadIsNoticed RunEnds
CHECK_DEADLOCK FALSE
