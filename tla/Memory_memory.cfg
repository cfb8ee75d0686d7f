\* Four bytes in blocks of two or three: accesses cross blocks, an access of
\* eight bytes is wider than the whole memory.
SPECIFICATION Spec
CONSTANTS
    Clients = {"thread", "loop"}
    MemorySize = 4
    BlockSizes = {2, 3}
    ByteMod = 2
    Widths = {1, 2, 4, 8}
    Values = {5}
    MaxOperations = 3
INVARIANTS TypeOK AdmittedAccessesComplete UndefinedHasACause
PROPERTIES ImplementsByteMap UndisturbedAccessesAreExact
\* The user stops giving commands, and nothing is modelled past undefined.
CHECK_DEADLOCK FALSE
