CONSTANTS
    None = None  NoObject = NoObject  h1 = h1  h2 = h2
    MaxTime = 18
    MaxFlips = 3
    MaxAttempts = 3
    RetryBase = 1
    ModelTimeout = 2
    Probers = {h1, h2}
    ProbeTTL = 4
    ProbeTimeout = 2
    MaxText = 5
    MaxProbeTime = 10
    Replies <- Bounded
SPECIFICATION MCSpec
INVARIANTS
    SilenceIsBounded
    OnlyLongOutagesFail
    ReplyIsParsedRight
    MistakesAreMended
    HealthIsRecent
CHECK_DEADLOCK FALSE
PROPERTIES
    ProbesSpaced
