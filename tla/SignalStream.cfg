SPECIFICATION StreamSpec
CONSTANTS
    p1 = p1
    p2 = p2
    c1 = c1
    PoolProducers = {p1, p2}
    ExtProducers = {}
    Consumers = {c1}
    Observers = {}
    Workers = 1
    MaxCalls = 2
    WakeHandler = WakeHandler
    NoActor = NoActor
INVARIANT NoLostWakeup
INVARIANT NoDanglingWake
PROPERTY EveryEmitIsTaken
PROPERTY ReaderComesToRest
\* A stream whose reader waits or has left, with nobody left to emit, rests.
CHECK_DEADLOCK FALSE
