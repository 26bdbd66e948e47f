CONSTANTS
    Producer = {p, q}
    PerProducer = 2
    MaxBatch = 2
    PrefetchLimit = 1
    WithTimeouts = TRUE
    QueueMayRefuse = TRUE
SPECIFICATION FairSpec
INVARIANTS InOrderExactlyOnce NoLostWakeUp
PROPERTY SentIsReceived
