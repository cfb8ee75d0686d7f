CONSTANTS
    Mod = 32
    HalfMod = 16
    UShift = 4
    NumRegs = 3
    CounterMod = 4
    TableSize = 2
    HistoryLength = 2
    NumPerceptrons = 2
    MinWeight <- MCMinWeight
    MaxWeight = 1
    TrainingThreshold = 1
    Decode <- MCDecode
    DataImages <- MCData
    EditedCells = {16}
    Edits = {12}
    Length = 3
    Programs <- MCPrograms
    Repertoire <- SessionInstrs
    Modes = {"STALL", "DYN2_BP"}
    Commands = {"step", "run", "stop", "reset"}
    MaxUndos = 0
SPECIFICATION SessionSpec
CONSTRAINT SparesJumps
PROPERTY RunStartsAfresh
