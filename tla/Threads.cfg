SPECIFICATION Spec
CONSTANTS
    Lockers = {1, 2, 3}
    SpinLimit = 1
    Jobs <- MixedJobs
    Producers = {p1, p2}
    Items = {a, b}
    Capacity = 2
    MaxTickets = 3
    ReorderStores = FALSE
    Raw = raw
    Callers = {c1, c2, c3}
    MaxRenewals = 1
    Threads = {main, t1}
    Main = main
    Waiters = {main}
    Nobody = nobody
    Registries = {1, 2}
    Attempts = 1
    MaxSignals = 2
INVARIANTS
    LockSound
    NoLostWakeup
    AwaitContract
    FifoNoLoss
    RingSound
    WaitMeansNotified
    RegistryTruthful
PROPERTIES
    EverySleepEnds
    QueueContract
    EveryWaitEnds
    DeadlySignalEnds
CHECK_DEADLOCK FALSE
