SPECIFICATION Spec
CONSTANTS
    GET = GET
    POST = POST
    All = All
    Methods = {GET, POST}
    Patterns <- MCPatterns
    Prefixes <- MCPrefixes
    Targets <- RoutedTargets
    Requri <- MCRequri
    MaxPath = 4
    MaxRoutes = 1
INVARIANT QueryReachesHandler
\* One request is handled in each behavior.
CHECK_DEADLOCK FALSE
