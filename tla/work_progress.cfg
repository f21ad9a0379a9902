SPECIFICATION FairSpec
CONSTANTS
    author = author
    author2 = author2
    reviewer = reviewer
    corrector = corrector
    Runs <- OneReview
    ModeOf <- AnyMode
    EngineOf <- AnyEngine
    Claims = {c1}
    Workers = {w1, w2}
    MaxExecs = 2
    Faults = {"gate_loss", "unreadable"}
    NoRun = NoRun
    NoWorker = NoWorker
    NoClaim = NoClaim
PROPERTIES ExitSettles RecoverySettles
