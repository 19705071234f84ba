\* One command per peer, short reads and a one-unit send buffer; every batch holds all
\* the ready events, and the system calls work.
SPECIFICATION FairSpec
CONSTANTS
    Conn = {c1, c2}
    FD = {f1, f2}
    Listener = Listener
    None = None
    MaxSent = 2
    MaxRead = 1
    MaxEvents = 3
    SendSpace = 1
    KernelFails = FALSE
INVARIANT
    DropsOnlyEnded
PROPERTY
    Answered
CHECK_DEADLOCK FALSE
