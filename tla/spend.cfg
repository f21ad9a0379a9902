SPECIFICATION Spec
CONSTANTS
    harness = harness
    chat1 = chat1
    h1 = h1
    h2 = h2
    t1 = t1
    Runs = {harness, chat1}
    Relayed = {harness}
    Requests = {h1, h2, t1}
    RunOf <- OwnerOf
    Limits <- TwoLimits
    FirstLimits <- Large
    LastDay = 2
    Want = 2
    Least = 1
    Faults = {"refused", "unsure", "gate_crash", "machine_crash", "overrun"}
    Unread = Unread
CHECK_DEADLOCK FALSE
INVARIANTS Accounted LedgerIsFile ClosedIsSettled
PROPERTIES CapAtAdmission StopEnds
