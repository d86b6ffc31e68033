CONSTANTS
    j1 = j1  j2 = j2  j3 = j3  alice = alice  bob = bob  None = None
    Jobs = {j1, j2}
    Users = {alice}
    Owner <- OneUser
    MaxCards = 2
    SessionFK = TRUE
    MaxConcurrency = 1
    MaxFaults = 0
    MaxCrashes = 0
SPECIFICATION Spec
INVARIANTS
    CardsInFlightBounded
CHECK_DEADLOCK FALSE
