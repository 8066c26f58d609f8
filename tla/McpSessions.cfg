SPECIFICATION Spec
CONSTANTS
  git = git web = web
  Servers = {git, web}
  MaxCalls = 3 MaxCrashes = 2 MaxLines = 1
INVARIANTS AnswerIsOwn NoneLeaked
PROPERTIES NothingRunsLater CallsReturn
CHECK_DEADLOCK FALSE
