SPECIFICATION Spec
CONSTANTS
    p1 = p1
    c1 = c1
    PoolProducers = {p1}
    ExtProducers = {}
    Consumers = {c1}
    Observers = {}
    Workers = 2
    MaxCalls = 1
    WakeHandler = WakeHandler
    NoActor = NoActor
INVARIANT NoLostWakeup
\* A queue whose consumers all wait, with nobody left to push, is at rest.
CHECK_DEADLOCK FALSE
