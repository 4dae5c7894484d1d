SPECIFICATION FairSpec
CONSTANTS
    m1 = m1  m2 = m2  m3 = m3
    h1 = h1  h2 = h2  h3 = h3
    w1 = w1  w2 = w2
    Messages <- MCMessages
    Routed <- MCRouted
    Handlers <- MCHandlers
    Workers <- MCWorkers
    PoolSize = 2
    WorkerQueues <- MCAllQueues
    MaxDeliveries = 2
    Repeated <- MCRepeated
    MaxFaults = 2
    MaxStops = 1
INVARIANTS
    TypeOK
    UniqueRows
    EnqueuedIsDurable
    OrphanNeedsFault
    LossNeedsReason
    TaskSurvivesWorker
PROPERTIES
    ImplementsLedger
    HandlersDrain
