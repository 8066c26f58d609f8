SPECIFICATION OracleSpec
CONSTANTS
  a = a b = b Free = Free Outsider = Outsider Stub = Stub
  Ports = {a, b}
  MaxRuns = 2 MaxPolls = 2 MaxChecks = 2 MaxTurns = 1 MaxDrives = 1
  HabitSets <- SomeHabits
INVARIANTS NothingOutlives VerdictIsOwn
PROPERTY OracleReturns
CHECK_DEADLOCK FALSE
