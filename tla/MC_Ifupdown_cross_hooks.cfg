CONSTANTS
    p1 = p1
    p2 = p2
    p3 = p3
    p4 = p4
    None = None
    Procs <- MCProcs4
    Phys <- MCPhys
    Logical <- MCLogical
    Parent <- MCParent
    NFams <- MCNFams
    Excluded <- MCNoExcluded
    TopCalls <- MCCrossCalls
    HookCalls <- MCCrossHooks
    MapStanzas <- MCNoMapStanzas
    LinkCanFail = FALSE
    MaxStarts = 4
    MaxCrashes = 0

SPECIFICATION Spec

SYMMETRY Symmetry4
INVARIANT NoWaitCycle
