SPECIFICATION Spec
CONSTANTS
    p1 = p1
    p2 = p2
    Producers <- OneProducer
    MaxRecords = 1
    MaxStarts = 1
CHECK_DEADLOCK FALSE
PROPERTIES FatalFlushed
