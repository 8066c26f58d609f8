SPECIFICATION RFairSpec
CONSTANTS
  r1 = r1 c1 = c1 gemma = gemma qwen = qwen coder = coder
  Clients = {r1, c1} Routers = {r1} Primary = coder Fallback = qwen Default = gemma
  NoModel = NoModel Nobody = Nobody Boot = Boot
  Backlog = 1 FaultSets <- SomeFaults
  Rankings <- SomeRankings MaxModels = 2
INVARIANTS LabelNamesMaker
PROPERTIES SkipsOnlyServed RoutedSolveEnds
