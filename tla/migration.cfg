CONSTANTS
    j1 = j1  j2 = j2  alice = alice  bob = bob
    p = p  q = q  p1 = p1  p2 = p2  q1 = q1  None = None
    Jobs = {j1, j2}
    Users = {alice, bob}
    Owner <- OneEach
    Procs = {p, q}
    Callers = {p1, p2, q1}
    Proc <- Placed
    MaxFaults = 2
    MaxCrashes = 2
SPECIFICATION FairSpec
INVARIANTS
    MigrationTypeOK
    ReadyIsComplete
    OldJobsHaveSessions
    OneSessionPerJob
PROPERTIES
    BecomesReady
CHECK_DEADLOCK FALSE
