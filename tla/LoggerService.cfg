SPECIFICATION FairSpec
CONSTANTS
    p1 = p1
    p2 = p2
    Producers <- TwoProducers
    MaxRecords = 2
    MaxStarts = 2
CHECK_DEADLOCK FALSE
INVARIANTS InOrder NoLostWakeup StoppedMeansFlushed ProducerOrder
PROPERTIES ImplementsChannel StopReturns ImplementsFairChannel
