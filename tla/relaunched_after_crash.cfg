SPECIFICATION Spec
CONSTANTS
    author = author
    author2 = author2
    reviewer = reviewer
    corrector = corrector
    Runs <- TwoRuns
    ModeOf <- AnyMode
    EngineOf <- AnyEngine
    Claims = {c1, c2}
    Workers = {w1, w2}
    MaxExecs = 2
    Faults = {"crash"}
    NoRun = NoRun
    NoWorker = NoWorker
    NoClaim = NoClaim
SYMMETRY RefSymmetry
INVARIANTS NoReplay
