SPECIFICATION Spec
CONSTANTS
  p = p q = q a = a b = b n = n
  Procs = {p, q} Ids = {a, b} Old = {a} Names = {n}
  Keep = 1 MaxTurns = 3 MaxNamings = 1 MaxHarm = 1
SYMMETRY Same
INVARIANTS OnDisk IndexAgrees
PROPERTIES NothingForgotten
CHECK_DEADLOCK FALSE
