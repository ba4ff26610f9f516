SPECIFICATION StaticSpec
CONSTANTS
    GET = GET
    HEAD = HEAD
    POST = POST
    All = All
    Methods = {GET, HEAD}
    Patterns <- MCPatterns
    Prefixes <- MCPrefixes
    Mounts <- MCMounts
    Roots <- MCRoots
    Targets <- MCTargets
    Requri <- MCRequri
    Order <- MCOrder
    Lower <- MCLower
    MimeMap <- MCMimeMap
    Files <- MCFiles
    Dirs <- MCDirs
    MaxPath = 4
    MaxTarget = 3
    MaxRoutes = 2
    MaxSetup = 2
INVARIANT DispatchInv
INVARIANT ServedUnderRoot
INVARIANT OutermostMountAnswers
INVARIANT TypeOfLastElement
\* One request is handled in each behavior.
CHECK_DEADLOCK FALSE
