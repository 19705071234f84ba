\* Two workers of one kind, jobs of which the first is given back once and the second is done
\* at once, and a message that is no job; room for two of them on the stream; two attempts
\* fail, of three.
SPECIFICATION FairSpec
CONSTANTS
    w1 = w1
    w2 = w2
    Kinds <- OneKind
    Worker = {w1, w2}
    KindOf <- WorkerKinds
    Delays = {1, 2}
    Cycle = 3
    NakOnce = {1}
    EventEvery = 2
    BurstSize = 2
    MaxMsgs = 2
    MaxDeliver = 3
    AckWait = 2
    NakDelay = 1
    MaxRuns = 2
    MaxSeq = 2
    MaxJobs = 3
    MaxFaults = 2
INVARIANTS
    TypeOK
    OneWorkerAtATime
    StuckAfterFaults
PROPERTY
    EveryJobSettled
CHECK_DEADLOCK FALSE
