CONSTANTS
    p1 = p1
    p2 = p2
    p3 = p3
    p4 = p4
    None = None
    Procs <- MCProcs
    Phys <- MCPhys
    Logical <- MCLogical
    Parent <- MCParent
    NFams <- MCNFams
    Excluded <- MCExcluded
    TopCalls <- MCTopCalls
    HookCalls <- MCHookCalls
    MapStanzas <- MCMapStanzas
    LinkCanFail = TRUE
    MaxStarts = 3
    MaxCrashes = 0

SPECIFICATION Spec

SYMMETRY Symmetry
PROPERTY RefinesIfState
