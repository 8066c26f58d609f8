SPECIFICATION Spec
CONSTANTS
  p1 = p1 p2 = p2 a = a b = b u = u Absent = Absent
  Paths = {p1, p2} Contents = {a, u} Unsafe = {u}
  RingMax = 2 MaxWrites = 1
  Inputs = {"patch", "run", "fix", "agent", "undo", "rewind", "mode", "outside"}
  UserModes = {"plan", "default", "acceptEdits"}
  RuleTables <- SomeRules Allowlist <- PatchOnly
  HookKinds = {"block", "write"} Interactive = "yes"
INVARIANT HonestRestore
PROPERTIES EffectsSanctioned SnapshotKeptUntilRestored
