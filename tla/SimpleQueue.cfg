\* Three goroutines, one name whose queue is deleted and created again, one
\* message, unbuffered and one-slot channels.
SPECIFICATION FairSpec
CONSTANTS
    Goroutine = {g1, g2, g3}
    Name = {n1}
    QueueId = {q1}
    Message = {m1}
    Buffer = {0, 1}
    Nobody = Nobody
    Nil = Nil
INVARIANTS
    TypeOK
    NoPanic
    BlockedOnRegistered
    ClosedMeansDrained
PROPERTIES
    FrozenWhileBlocked
    WaitsOnlyForBlocked
\* Goroutines that block on a channel and a writer that waits for them do stop.
CHECK_DEADLOCK FALSE
