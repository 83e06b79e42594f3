SPECIFICATION FairLiveSpec
CONSTANTS
    good = good
    bad = bad
    Message <- McMessage
    Poison <- McPoison
    Review <- McReview
    MaxAttempts = 2
    Concurrency = 2
    MaxFaults = 3
    MaxBeside = 1
    Poll = 3
    IdleTimeout = 2
    Backstop = 1
    PreambleTime = 1
    CompletionTime = 1
    MaxFailures = 2
INVARIANTS
    LiveTypeOK
    DrainComesInTime
    DoneIsCollected
    CandidateHasPackage
    QuarantineIsPaidFor
    StraysWereRefused
PROPERTIES
    EveryMailSettles
CHECK_DEADLOCK FALSE
