\* Three requests over two slots, the third to orders and the second asking for a 503; one
\* request is sent again; a configuration that has no route to read orders, and two that do
\* not start.
SPECIFICATION FairSpec
CONSTANTS
    Configs <- TestConfigs
    ValidTarget <- Targets
    None = None
    OrdersEvery = 3
    ErrorEvery = 2
    Concurrency = 2
    MaxId = 3
    MaxResent = 1
INVARIANTS
    BooksBalance
    LastScreenComplete
    PoolAlwaysFound
PROPERTY
    StopsWhenTold
CHECK_DEADLOCK FALSE
