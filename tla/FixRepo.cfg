SPECIFICATION Spec
CONSTANTS
  p1 = p1 p2 = p2 o = o f = f x = x
  Silent = Silent Uncollected = Uncollected
  Paths = {p1, p2} Contents = {o, f, x} Bad = {x} Originals = {o}
  Suites <- AllSuites MaxFails = 3 BrokenCount = 2
  MaxIters = 2 Policies <- SessionPolicies
INVARIANTS SolvedIsGreen DiffIsReported NeverWorse
