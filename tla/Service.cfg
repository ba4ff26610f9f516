SPECIFICATION FairSpec
CONSTANTS
    a = a
    b = b
    c = c
    main = main
    helper = helper
    onMain = onMain
    onHelper = onHelper
    onHelper2 = onHelper2
    Threads = {a, b, c}
    Services <- MCServices
    Handlers <- MCHandlers
    Names <- MCNames
    CallsOf <- MainCalls
    Registers <- MainRegisters
    Policies = {TRUE, FALSE}
    MaxCalls = 3
    NoHandler = NoHandler
    NoThread = NoThread
INVARIANT RegistryInv
PROPERTY ImplementsAtomicService
PROPERTY EveryCallReturns
\* All handlers registered and all calls made, the program has nothing to do.
CHECK_DEADLOCK FALSE
