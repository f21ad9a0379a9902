SPECIFICATION Spec
CONSTANTS
    author = author
    author2 = author2
    reviewer = reviewer
    corrector = corrector
    Runs <- TwoRuns
    ModeOf <- AnyMode
    EngineOf <- AnyEngine
    Claims = {c1}
    Workers = {w1}
    MaxExecs = 1
    Faults = {}
    NoRun = NoRun
    NoWorker = NoWorker
    NoClaim = NoClaim
SYMMETRY RefSymmetry
INVARIANTS LaneIsFreed
