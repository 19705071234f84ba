\* Two streams that come and go: a, which publishes, and b, created after the program has
\* subscribed; one superseded load of each kind and stream; a channel with one slot.
SPECIFICATION FairSpec
CONSTANTS
    a = a
    b = b
    Stream = {a, b}
    Lists <- TwoStreams
    Subscribed = {a}
    None = None
    MaxLate = 1
    ChannelCap = 1
INVARIANTS
    TypeOK
    ShowsSelected
    OneAtATime
    LoadingIsLoading
PROPERTY
    LoadingEnds
