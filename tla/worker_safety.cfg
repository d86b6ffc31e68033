CONSTANTS
    j1 = j1  j2 = j2  j3 = j3  alice = alice  bob = bob  None = None
    Jobs = {j1, j2}
    Users = {alice}
    Owner <- OneUser
    MaxCards = 3
    SessionFK = TRUE
    MaxConcurrency = 1
    MaxFaults = 2
    MaxCrashes = 2
SYMMETRY Symmetry
CONSTRAINT FewCards
SPECIFICATION Spec
INVARIANTS
    TypeOK
    IInv
    DoneIsComplete
    OneLeadPerCard
    LeadsHaveJobs
    JobsHaveSessions
    OneFaultStrandsNoJob
    DiskIsReleased
    JobCardsBounded
CHECK_DEADLOCK FALSE
PROPERTIES
    TerminalIsFinal
    LeadsAreKept
    ImplementsContract
