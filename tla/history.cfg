CONSTANTS
    alice = alice  None = None
    Jobs = {1, 2, 3}
    Users = {alice}
    Reader = alice
    Owner <- OneUser
    Home <- Homes
    MaxCards = 1
    SessionFK = TRUE
    MaxJobsRetained = 1
    CreatedAt <- Ties
    Limits = {0, 5}
    MaxPage = 2
SPECIFICATION Spec
INVARIANTS
    HistoryTypeOK
    WalkMissesNothing
    WalkInOrder
    SessionViewIsComplete
CHECK_DEADLOCK FALSE
PROPERTIES
    ImplementsContract
