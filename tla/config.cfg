CONSTANTS
    R = R
    A = A
    B = B
    NoFile = NoFile
    None = None
    Files = {R, A, B}
    Resolve <- MCResolve
    Pattern <- MCPattern
    Contents <- MCContents
    Root <- MCRoot
    Glob <- MCGlob
    DirEntries <- MCDirEntries
    ValidName = {"b"}
    Fams = {"inet", "inet6"}
    Methods = {"static", "loopback"}
    Defaults <- MCDefaults
    AllowGroups <- MCAllowGroups
    SourceDirKws = {"source-dir"}
    LoIface = "lo"
    MaxOpen = 2
SPECIFICATION Spec
\* read_interfaces() returns: the parse stops.
CHECK_DEADLOCK FALSE
INVARIANT TypeOK
INVARIANT StanzasResolved
PROPERTY ParseCompletes
