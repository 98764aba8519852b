SPECIFICATION Spec
CONSTANTS
    Producers = {p1}
    Consumers = {c1}
    Drainers = {d1}
    Cleaners = {}
    Tasks = {k1, k2}
    MayThrow = {k1}
    NoThread = NoThread
    NoTask = NoTask
PROPERTY EmptyWaitCompletesAll
