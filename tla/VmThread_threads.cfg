CONSTANTS
    Cores = {"rvss", "rv5s"}
    Programs = {"halts", "loops", "reads"}
    Commands = {"run", "step", "stop", "load", "exit", "edit", "mode", "vm_stdin"}
    MaxCommands = 5
    Length = 2
    Limit = 3
SPECIFICATION FairSpec
INVARIANT MachineIsExclusive RunningFlagIsTrue PipelineStopIsPrompt
PROPERTY StopEndsLoop CommandsReturn
CHECK_DEADLOCK FALSE
