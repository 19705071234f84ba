\* The program as it is written; the message texts are shortened.
SPECIFICATION DemoSpec
CONSTANTS
    main = main
    logger = logger
    jobber = jobber
    consumer = consumer
    Publisher = {1, 2, 3}
    Batch <- ProgramBatch
    Goroutine = {main, logger, jobber, consumer, 1, 2, 3}
    Name = {"log", "jobs", "events"}
    QueueId = {q1, q2, q3}
    Message = {"started", "ready", "order", "1.1", "2.1", "2.2", "3.1", "3.2", "3.3"}
    Buffer = {0, 100}
    Nobody = Nobody
    Nil = Nil
INVARIANT
    AllEventsReceived
PROPERTY
    ExitsOrHangsInClose
\* The program stops when main returns, or hangs.
CHECK_DEADLOCK FALSE
