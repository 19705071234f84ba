\* Two connections and two descriptors, reused after a close; two commands per peer; short
\* reads, batches that leave events out, a one-unit send buffer, and system calls that may fail.
SPECIFICATION Spec
CONSTANTS
    Conn = {c1, c2}
    FD = {f1, f2}
    Listener = Listener
    None = None
    MaxSent = 4
    MaxRead = 3
    MaxEvents = 2
    SendSpace = 1
    KernelFails = TRUE
SYMMETRY Symmetry
INVARIANTS
    TypeOK
    AnswersInOrder
    NothingLost
    WritableArmed
    EventsFresh
\* The server stops when it cannot accept, and peers send a bounded number of commands.
CHECK_DEADLOCK FALSE
