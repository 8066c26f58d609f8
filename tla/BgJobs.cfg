SPECIFICATION FairSpec
CONSTANTS
    c1 = c1 c2 = c2 sub = sub wrk = wrk
    Clients = {c1, c2}
    Submitter = sub
    Worker = wrk
    MaxCrashes = 2
INVARIANTS HonestVerdict StoppedMeansDead
PROPERTY NoGhost
