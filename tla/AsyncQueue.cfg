SPECIFICATION FairSpec
CONSTANTS
    p1 = p1
    x1 = x1
    c1 = c1
    c2 = c2
    o1 = o1
    PoolProducers = {p1}
    ExtProducers = {x1}
    Consumers = {c1, c2}
    Observers = {o1}
    Workers = 2
    MaxCalls = 1
    WakeHandler = WakeHandler
    NoActor = NoActor
INVARIANT TypeOK
INVARIANT ExactlyOnceInOrder
INVARIANT TimerExclusive
PROPERTY ImplementsChannel
\* A queue whose consumers all wait, with nobody left to push, is at rest.
CHECK_DEADLOCK FALSE
PROPERTY WokenConsumerDrains
