CONSTANTS
    j1 = j1  j2 = j2  j3 = j3  alice = alice  bob = bob  None = None
    Jobs = {j1}
    Users = {alice}
    Owner <- OneUser
    MaxCards = 2
    SessionFK = TRUE
    MaxConcurrency = 1
    MaxFaults = 2
    MaxCrashes = 0
SPECIFICATION Spec
INVARIANTS
    RunJobNeverRaises
CHECK_DEADLOCK FALSE
