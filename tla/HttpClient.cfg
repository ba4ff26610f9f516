SPECIFICATION ClientSpec
CONSTANTS
    RawUrls <- MCRawUrls
    Targets <- MCTargets
    UnixScheme <- MCUnix
    DefaultPorts <- MCPorts
    AnyPort <- MCAnyPort
    Fetched <- MCFetched
    MaxCalls = 2
    MaxText = 4
    GET = GET
    HEAD = HEAD
    Methods = {GET, HEAD}
    Timeouts = {1, 2}
    MaxBody = 2
    Never = Never
INVARIANT CanonicalForm
INVARIANT OnlyWholeAnswers
INVARIANT AtMostTwiceTheTimeout
PROPERTY PartsRecompose
PROPERTY FetchEnds
\* One fetch is made in each behavior.
CHECK_DEADLOCK FALSE
