CONSTANTS
    Mod = 32
    HalfMod = 16
    UShift = 4
    NumRegs = 5
    CounterMod = 8
    Decode <- MCDecode
    Programs <- MCLoop
    DataImages <- MCData
    Commands = {"step", "run", "undo"}
    MaxCommands = 3
    InstructionLimit = 1
    EditedRegs = {1}
    EditedCells = {4, 24}
    Edits = {10}
    Inputs <- MCInputs
    FpResults = {1, 9}
    FpStatus = {0, 1}
    GprFunct7 = {5}
    A0 = 1
    A1 = 2
    A2 = 3
    A7 = 4
    SysRead = 3
    SysWrite = 4
    SysExit = 10
SPECIFICATION FairSession
PROPERTY UndoRevertsOneStep
CHECK_DEADLOCK FALSE
