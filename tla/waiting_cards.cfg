CONSTANTS
    j1 = j1  j2 = j2  j3 = j3  alice = alice  bob = bob  None = None
    Jobs = {j1}
    Users = {alice}
    Owner <- OneUser
    MaxCards = 3
    SessionFK = TRUE
    MaxConcurrency = 1
    MaxFaults = 1
    MaxCrashes = 0
SPECIFICATION Spec
INVARIANTS
    WaitingCardsKeepTheirFile
CHECK_DEADLOCK FALSE
