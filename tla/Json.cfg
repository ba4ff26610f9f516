\* parse() and dump() of eight types on every text and value of MCJson.
SPECIFICATION Spec
CONSTANTS
    Types <- MCTypes
    Values <- MCValues
    Texts <- MCTexts
    BadStrings = {"bad"}
    BadReals = {"NaN"}
INVARIANT AllOrNothing
INVARIANT RoundTrip
INVARIANT StructAndMapAgree
\* One value or text is converted in each behavior.
CHECK_DEADLOCK FALSE
