SPECIFICATION FairSpec
CONSTANTS
    t1 = t1
    q1 = q1
    q2 = q2
    Tasks = {t1}
    Requests = {q1, q2}
    None = None
    Faults = {"hermes", "list", "restart", "reboot"}
CHECK_DEADLOCK FALSE
INVARIANTS TypeOK OneWorker ReceiptIsFinal
PROPERTIES Owns SlotReleased
