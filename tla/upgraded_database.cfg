CONSTANTS
    j1 = j1  j2 = j2  j3 = j3  alice = alice  bob = bob  None = None
    Jobs = {j1, j2, j3}
    Users = {alice, bob}
    Owner <- TwoUsers
    MaxCards = 1
    SessionFK = FALSE
    MaxConcurrency = 1
    MaxFaults = 0
    MaxCrashes = 0
SPECIFICATION Spec
PROPERTIES
    ClearedAtOnce
CHECK_DEADLOCK FALSE
