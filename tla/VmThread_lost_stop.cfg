CONSTANTS
    Cores = {"rv5s"}
    Programs = {"loops"}
    Commands = {"run", "exit"}
    MaxCommands = 2
    Length = 2
    Limit = 3
SPECIFICATION FairSpec
PROPERTY ExitEnds

