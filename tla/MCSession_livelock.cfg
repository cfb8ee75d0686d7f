CONSTANTS
    Mod = 32
    HalfMod = 16
    UShift = 4
    NumRegs = 3
    CounterMod = 4
    TableSize = 2
    HistoryLength = 2
    NumPerceptrons = 2
    MinWeight <- MCMinWeight
    MaxWeight = 1
    TrainingThreshold = 1
    Decode <- MCDecode
    DataImages <- MCData
    EditedCells = {16}
    Edits = {12}
    Length = 3
    Programs <- JumpLoadUse
    Repertoire <- JumpInstrs
    Modes = {"FWD"}
    Commands = {"step", "undo"}
    MaxUndos = 3
SPECIFICATION PatientSpec
PROPERTY UndoneProgramFinishes
