SPECIFICATION Spec
CONSTANTS
    author = author
    author2 = author2
    reviewer = reviewer
    corrector = corrector
    Runs <- OneReviewOfTwo
    ModeOf <- AnyMode
    EngineOf <- AnyEngine
    Claims = {c1, c2}
    Workers = {w1, w2}
    MaxExecs = 2
    Faults = {"gate_loss", "unreadable"}
    NoRun = NoRun
    NoWorker = NoWorker
    NoClaim = NoClaim
SYMMETRY RefSymmetry
INVARIANTS OneChild NoReplay ReleasedMeansGone FinishedMeansGone AttachedIsBacked
PROPERTIES KeepsAccounts
