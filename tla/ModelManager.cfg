SPECIFICATION FairSpec
CONSTANTS
  c1 = c1 c2 = c2 gemma = gemma qwen = qwen
  Clients = {c1, c2} Primary = gemma Fallback = qwen Default = gemma
  NoModel = NoModel Nobody = Nobody Boot = Boot
  Backlog = 2 FaultSets <- PatientAndNot
INVARIANT PatientRestores
PROPERTIES ReplyIsHonest EscalationEnds
