\* Two keys, half-second ticks, and seconds that stay within a Duration.
SPECIFICATION FairSpec
CONSTANTS
    Key = {k1, k2}
    NaN = NaN
    MaxInt = 2
    Value = {NaN, 1}
    Second = 2
    Seconds <- SecondsInRange
    Durations <- DurationArguments
    Bad = Bad
    Missing = Missing
    NoDeadline = NoDeadline
    Oldest = 2
    DurationMax = 7
INVARIANTS
    TypeOK
    NoResurrection
PROPERTIES
    ImplementsMap
    EventuallyReclaimed
