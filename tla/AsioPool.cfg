SPECIFICATION FairSpec
CONSTANTS
    m = m
    n = n
    x = x
    t1 = t1
    t2 = t2
    Main = m
    Runners = {m, n}
    Clients = {x}
    Tasks = {t1, t2}
    Closers = {t1}
    Throwers = {t2}
    MaxSize = 3
\* A program that has returned from main, or has nothing to do, has stopped.
CHECK_DEADLOCK FALSE
INVARIANT TypeOK
INVARIANT PoolUsable
PROPERTY ImplementsPool
PROPERTY EveryTaskStarts
PROPERTY ShutdownEndsRun
