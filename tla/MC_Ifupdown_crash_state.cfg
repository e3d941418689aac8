CONSTANTS
    p1 = p1
    p2 = p2
    p3 = p3
    p4 = p4
    None = None
    Procs <- MCProcs
    Phys <- MCPhys
    Logical <- MCLogical
    Parent <- MCParent
    NFams <- MCNFams
    Excluded <- MCExcluded
    TopCalls <- MCTopCalls
    HookCalls <- MCHookCalls
    MapStanzas <- MCNoMapStanzas
    LinkCanFail = FALSE
    MaxStarts = 3
    MaxCrashes = 1

SPECIFICATION Spec

SYMMETRY Symmetry
INVARIANT StateFilesAgree
