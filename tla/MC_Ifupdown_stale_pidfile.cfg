CONSTANTS
    p1 = p1
    p2 = p2
    p3 = p3
    p4 = p4
    None = None
    Procs <- MCProcs2
    Phys <- MCPhys
    Logical <- MCLogical
    Parent <- MCParent
    NFams <- MCNFams
    Excluded <- MCNoExcluded
    TopCalls <- MCStaleCalls
    HookCalls <- MCNoHooks
    MapStanzas <- MCNoMapStanzas
    LinkCanFail = FALSE
    MaxStarts = 3
    MaxCrashes = 1

SPECIFICATION Spec


PROPERTY KillOnlyOwnIfup
