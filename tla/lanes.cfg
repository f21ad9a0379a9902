CONSTANTS
  r1 = r1
  r2 = r2
  w1 = w1
  c1 = c1
  c2 = c2
  Nobody = Nobody
  NoConn = NoConn
  MaxAttempts = 2
  Runs <- MCRuns
  Workers <- MCWorkers
  Conns <- MCConns
  KindsOf <- AnyEngine
SPECIFICATION Spec
SYMMETRY ConnSymmetry
CHECK_DEADLOCK FALSE
INVARIANTS TypeOK LaneHeldWhileLive ReleaseNeverRejected NoSilentLeak
PROPERTIES ReopensEmpty LatchesSurvive KeepsPromise
