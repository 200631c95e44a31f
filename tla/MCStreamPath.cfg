CONSTANTS
    s = s  w = w
    Requests <- MCRequests
    Streaming <- MCStreaming
    MaxRetries = 1
    Budget = 1
    Buffer = 1
    Statuses = {400, 500}
    MaxChunks <- MCMaxChunks
    MaxCalls = 2
CHECK_DEADLOCK FALSE
SPECIFICATION FairStreamSpec
INVARIANTS DeliveredOnceInOrder EndsAsItWent
PROPERTIES StreamsEnd
