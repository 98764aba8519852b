SPECIFICATION FairSpec
CONSTANTS
    Producers = {p1, p2}
    Consumers = {c1, c2}
    Drainers = {d1, d2}
    Cleaners = {w1}
    Tasks = {k1, k2, k3}
    MayThrow = {k1}
    NoThread = NoThread
    NoTask = NoTask
INVARIANT TypeOK
INVARIANT NoSleeperWithWork
PROPERTY ImplementsFifo
PROPERTY PushReturns
PROPERTY QueuedTaskLeaves
PROPERTY EmptyWaitCompletesDrained
