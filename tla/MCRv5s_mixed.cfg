CONSTANTS
    Mod = 32
    HalfMod = 16
    UShift = 4
    NumRegs = 3
    CounterMod = 4
    TableSize = 2
    HistoryLength = 2
    NumPerceptrons = 2
    MinWeight <- MCMinWeight
    MaxWeight = 1
    TrainingThreshold = 1
    Length = 4
    Decode <- MCDecode
    Programs <- MCPrograms
    DataImages <- MCData
    Repertoire <- MixedInstrs
    Modes = {"NO_HAZ", "STALL", "FWD", "STATIC_BP"}
SPECIFICATION Spec
CONSTRAINT KeepsApart SparesFlight
INVARIANT TypeOK StallKeepsInstruction
PROPERTY ImplementsRvss
