\* Data and text in either order and odd sources; a branch reaches one
\* instruction back and forward, the second datum lies beyond 2048.
SPECIFICATION FairSpec
CONSTANTS
    Sources <- MCSources
    DataSectionStart = 4096
    BranchReach = 8
    JumpReach = 16
    MExtensionEnabled = FALSE
INVARIANTS TypeOK ReferencesResolve DataReferencesReach NothingIsDropped BreakpointsFindTheirLine
PROPERTY AssemblyEnds
\* A source is assembled once.
CHECK_DEADLOCK FALSE
