SPECIFICATION MachineSpec
CONSTANTS
    t1 = t1
    t2 = t2
    b1 = b1
    b2 = b2
    c1 = c1
    c2 = c2
    Suite <- MCSuite
    StartBlock <- MCStartBlock
    Expects = {t1}
    Original = Original
    None = None
    MaxRuns = 2
CHECK_DEADLOCK FALSE
INVARIANT PassedMeansExecuted
