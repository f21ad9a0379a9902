CONSTANTS
  r1 = r1
  r2 = r2
  w1 = w1
  c1 = c1
  c2 = c2
  Nobody = Nobody
  NoConn = NoConn
  MaxAttempts = 3
  Runs <- MCRuns
  Workers <- MCWorkers
  Conns = {c1}
  KindsOf <- OneEngine
SPECIFICATION FairSpec
CHECK_DEADLOCK FALSE
INVARIANTS OrphanQuarantined
PROPERTIES LostResolves ExitFreesLane
