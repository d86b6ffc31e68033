CONSTANTS
    j1 = j1  alice = alice  None = None
    Jobs = {j1}
    Users = {alice}
    Owner <- OneUser
    MaxCards = 3
    SessionFK = TRUE
    MaxConcurrency = 2
    MaxFaults = 2
    MaxCrashes = 2
SPECIFICATION PollSpec
INVARIANTS
    PollTypeOK
    DoneAnswerIsComplete
    LastAnswerStands
PROPERTIES
    AnswersGrow
    OutcomeIsLearned
    JobsSettle
    DiskIsReclaimed
CHECK_DEADLOCK FALSE
