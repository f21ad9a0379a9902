SPECIFICATION Spec
CONSTANTS
    author = author
    author2 = author2
    reviewer = reviewer
    corrector = corrector
    Runs <- ReviewedRuns
    ModeOf <- AnyMode
    EngineOf <- AnyEngine
    Claims = {c1}
    Workers = {w1, w2, w3}
    MaxExecs = 3
    Faults = {"crash", "refusal", "unreadable"}
    NoRun = NoRun
    NoWorker = NoWorker
    NoClaim = NoClaim
SYMMETRY RefSymmetry
INVARIANTS TypeOK FinishedMeansGone InterruptedMeansGone
PROPERTIES FinalStaysFinal KeepsAccounts
