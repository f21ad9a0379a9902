SPECIFICATION Spec
CONSTANTS
    t1 = t1
    q1 = q1
    q2 = q2
    Tasks = {t1}
    Requests = {q1}
    None = None
    Faults = {"list"}
CHECK_DEADLOCK FALSE
PROPERTIES FreezeHolds
