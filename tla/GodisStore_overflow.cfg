\* Two keys, half-second ticks, and a number of seconds that exceeds a Duration.
SPECIFICATION Spec
CONSTANTS
    Key = {k1, k2}
    NaN = NaN
    MaxInt = 2
    Value = {NaN, 1}
    Second = 2
    Seconds <- SecondsTooMany
    Durations <- DurationArguments
    Bad = Bad
    Missing = Missing
    NoDeadline = NoDeadline
    Oldest = 2
    DurationMax = 7
PROPERTY
    SetExHonoured
