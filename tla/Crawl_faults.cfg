\* Two crawls and a message that does not parse; any two faults, at any time; the nak's delay
\* is the window, and both are longer than AckWait.
SPECIFICATION FairSpec
CONSTANTS
    Crawl = {c1, c2}
    Garbage = {g}
    None = None
    AckWait = 1
    NakDelay = 2
    Window = 2
    Prefetch = 2
    Faults = {"call fails", "reply lost", "ack lost", "crash"}
    MaxFaults = 2
INVARIANTS
    TypeOK
    ServesCompleteInfrastructure
    StatusBeforeJob
    AcceptedNotLost
    ScheduledOnce
PROPERTY
    AcceptedScheduled
\* When all requests are settled and all timers have run out the system is at rest.
CHECK_DEADLOCK FALSE
