SPECIFICATION Spec
CONSTANTS
  t1 = t1 t2 = t2 t3 = t3 t4 = t4 f1 = f1 f2 = f2 f3 = f3 c1 = c1 c2 = c2
  Empty = Empty Base = Base None = None Home = Home HEAD = HEAD
  Funcs = {f1, f2, f3} Cands = {c1, c2}
  Corpus <- FourCommits Targets <- Changes FileOf <- Layout Jobs <- AllJobs
  Cap = 2 MaxFix = 1 MaxRounds = 2 NGen = 2 MaxIter = 2
  MaxKills = 2
INVARIANTS ScoredAsKept TriedAsWritten NeverDegraded NoneForgotten CleanAtRest
PROPERTY EvalEnds
