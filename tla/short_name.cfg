CONSTANTS
    MaxOptDepth = 3
    Options <- MCOptions
    IfaceName <- MCIfaceName
    RealIface <- MCRealIface
    Other = "o"
    Tokens <- MCTokens
    MaxTokens = 3
SPECIFICATION Spec
\* The enumeration of templates ends after MaxTokens pieces.
CHECK_DEADLOCK FALSE
INVARIANT SetVariablesExpand
