CONSTANTS
    MaxOptDepth = 3
    Options <- MCOptions
    IfaceName <- MCIfaceName
    RealIface <- MCRealIface
    Other = "o"
    Tokens <- MCTokens
    MaxTokens = 5
    OutSize = 3
    PlainBytes = {0, 65, 191, 255}
    MaxPlain = 4
    TextChars = {65, 81, 47, 61, 45}
    MaxText = 6
    UPos = {1, 4, 6, 9, 10, 16}
    UVals = {0, 10, 255}
    SPos = {1, 9, 14, 20, 25, 36}
    SChars = {48, 97, 70, 45, 103}
    Addrs <- MCAddrs
    Widths = {0, 1, 7, 8, 9, 15, 16, 17, 23, 24, 25, 30, 31, 32}
    Masks <- MCMasks
    StanzaNames = {"mtu", "address", "up"}
    StanzaValues = {"s"}
    ArgNames = {"mtu", "address", "post-up", "up", "metric"}
    ArgValues = {"", "o1", "o2"}
    MethodDefaults <- MCDefaults
    MaxStanza = 3
    MaxArgs = 3
    Users <- MCUsers
    EntLen <- MCEntLen
    ShellAt <- MCShellAt
    Groups <- MCGroups
    BufLens = {32, 50, 64}
    PtrSize = 8
    Devs = {1, 2}
    Prios = {0, 1}
    Size = 2
    Useds = {0, 1}
    Offsets = {7}
    ResumeOffsets = {0, 7}
    Acts = {1, 2}
    MaxSwaps = 3
    Ifaces <- MCStateIfaces
    Lifaces <- MCStateLifaces
    BufSize = 7
    MaxUpdates = 4
    CfgChars <- MCReaderChars
    MaxLen = 7
    GrowBy = 2
    MinRoom = 2
    MaxWord = 3
    LINSIZ = 5
    Mcol = 3
    NvmChars = {"a", "TAB", "BS", "CR", "NL", "FF", "FEND"}
    NvmMaxLen = 5
    NvmTerms <- MCNvmTerms
    NvmArgs <- MCNvmArgs
    NvmFileSets <- MCNsFileSets
    NvmLpp = 5
    NvmScroll = 1
    NvmKeys = {" ", "z", "d", "q", "s", "f", "NL", "FF", "'", "=", "b", "/", "n", ".", ":n", ":p", ":q"}
    NvmCounts = {0, 2}
    NvmPatterns = {"a"}
    Argv0s <- MCArgv0s
    ArgTokens <- MCArgTokens
    MaxArgv = 3
    Environ <- MCEnviron
    AllowUps <- MCAllowUps
    StateLines <- MCStateLines
    Tristates <- MCTristates
    ConfLists <- MCConfLists
    SysStates <- MCSysStates
    SysDisks <- MCSysDisks
    CsSwaps <- MCCsSwaps
SPECIFICATION PureSpec
\* Every input enumeration ends at its bound.
CHECK_DEADLOCK FALSE
INVARIANT TypeOK ParseMatchesGrammar
INVARIANT PureGetRecoversPassword
INVARIANT PureUnparseParses PureParseAcceptsCanonical
INVARIANT PureMaskAndBroadcast PureOverridesApplied
INVARIANT PureEnumPrefix PureSolarisEnumComplete
INVARIANT PureHibernateLocationUnset
INVARIANT PureDownAllOrder PureDoStateAgrees
INVARIANT PureReaderAgrees PureNvmNothingLost
INVARIANT PureNvmCurrlineTracks
INVARIANT PureTargetsAsRequested PureExitStatus
INVARIANT PureCanSleepAsDocumented
