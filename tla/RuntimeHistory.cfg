SPECIFICATION Spec
CONSTANTS
  p1 = p1 p2 = p2 a = a b = b u = u Absent = Absent
  Paths = {p1, p2} Contents = {a, b} Unsafe = {}
  RingMax = 3 MaxWrites = 0
  Inputs = {"patch", "rewind"}
  UserModes = {}
  RuleTables <- AllowAll Allowlist <- ShellOnly
  HookKinds = {} Interactive = "no"
PROPERTY IsEditHistory
