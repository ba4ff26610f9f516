SPECIFICATION FairSpec
CONSTANTS
    a = a
    b = b
    vel = vel
    over = over
    onVel = onVel
    onOver1 = onOver1
    onOver2 = onOver2
    Threads = {a, b}
    PoolThreads = {b}
    Topics <- MCTopics
    Handlers <- MCHandlers
    Emits <- OnVelEmits
    Policies = {TRUE, FALSE}
    MaxCalls = 2
    Listens <- OwnTopic
    NoTopic = NoTopic
    NoHandler = NoHandler
    NoThread = NoThread
INVARIANT EmitInv
INVARIANT OnlyNestingDeadlocks
PROPERTY ImplementsAtomicSignal
PROPERTY EveryCallReturns
\* All handlers registered and all calls made, the program has nothing to do.
CHECK_DEADLOCK FALSE
