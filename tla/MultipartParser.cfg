SPECIFICATION Spec
CONSTANTS
    CR = CR
    LF = LF
    Dash = Dash
    T = T
    D = D
    b = b
    x = x
    Characters = {CR, LF, Dash, T, D, b, x}
    Boundary <- MCBoundary
    Fields <- MCFields
    HeaderMax = 4
    Messages <- MCMessages
    Verdicts = {TRUE, FALSE}
INVARIANT PartsInv
INVARIANT VerdictIsRight
INVARIANT NothingIsHeldBack
\* The whole message has been parsed, or parse() has failed.
CHECK_DEADLOCK FALSE
