SPECIFICATION FairSpec
CONSTANTS
    m1 = m1  m2 = m2  m3 = m3
    h1 = h1  h2 = h2  h3 = h3
    w1 = w1  w2 = w2
    Messages <- MCSingle
    Routed <- MCSingle
    Handlers <- MCHandlers
    Workers <- MCWorkers
    PoolSize = 2
    WorkerQueues <- MCDefaultQueues
    MaxDeliveries = 1
    Repeated <- MCRepeated
    MaxFaults = 0
    MaxStops = 0
PROPERTY
    PublishedIsFiltered
