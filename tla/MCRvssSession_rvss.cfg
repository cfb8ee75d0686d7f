CONSTANTS
    Mod = 32
    HalfMod = 16
    UShift = 4
    NumRegs = 5
    CounterMod = 8
    Decode <- MCDecode
    Programs <- MCPrograms
    DataImages <- MCData
    Commands = {"step", "run", "run_debug", "undo", "redo", "reset", "load", "modify_register",
                "modify_memory", "add_breakpoint", "remove_breakpoint", "vm_stdin"}
    MaxCommands = 4
    InstructionLimit = 3
    EditedRegs = {1}
    EditedCells = {4, 24}
    Edits = {10}
    Inputs <- MCInputs
    FpResults = {1}
    FpStatus = {1}
    GprFunct7 = {5}
    A0 = 1
    A1 = 2
    A2 = 3
    A7 = 4
    SysRead = 3
    SysWrite = 4
    SysExit = 10
SPECIFICATION FairSession
INVARIANT TypeOK HistoryIsAPath CounterCoversHistory
PROPERTY ImplementsTimeline EveryLaunchReturns
CHECK_DEADLOCK FALSE
