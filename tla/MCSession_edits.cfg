CONSTANTS
    Mod = 32
    HalfMod = 16
    UShift = 4
    NumRegs = 3
    CounterMod = 2
    TableSize = 2
    HistoryLength = 2
    NumPerceptrons = 2
    MinWeight <- MCMinWeight
    MaxWeight = 1
    TrainingThreshold = 1
    Decode <- MCDecode
    DataImages <- MCData
    EditedCells = {4}
    Edits = {24}
    Length = 3
    Programs <- TwoPrograms
    Repertoire <- TwoInstrs
    Modes = {"FWD", "STATIC_BP"}
    Commands = {"step", "undo", "redo", "load", "modify_register", "modify_memory", "modify_config"}
    MaxUndos = 3
SPECIFICATION SessionSpec
INVARIANT HistoryMeetsPc
PROPERTY UndoGoesBack RedoRestoresProgram
