CONSTANTS
    Mod = 32
    HalfMod = 16
    UShift = 4
    NumRegs = 3
    CounterMod = 2
    TableSize = 2
    HistoryLength = 2
    NumPerceptrons = 2
    MinWeight <- MCMinWeight
    MaxWeight = 1
    TrainingThreshold = 1
    Length = 4
    Decode <- MCDecode
    Programs <- MCPrograms
    DataImages <- MCData
    Repertoire <- LoopInstrs
    Modes = {"STALL", "FWD", "STATIC_BP", "DYN1_BP", "DYN2_BP", "PERCEPTRON_BP", "GSHARE_BP"}
SPECIFICATION FairSpec
INVARIANT PredictionsAreChecked BtbKnowsOnlyJumps TypeOK
PROPERTY ImplementsRvss KeepsRetiring
