\* All bursts of three processes up to three turns of the longer quantum; new arrays have
\* no room, or room for one or two more.
SPECIFICATION Spec
CONSTANTS
    Count = 3
    MaxBurst = 6
    Quanta = {0, 1, 2, 4}
    MaxSpare = 2
INVARIANT
    TurnaroundIsRoundRobin
PROPERTY
    ImplementsFifo
\* The program ends.
CHECK_DEADLOCK FALSE
