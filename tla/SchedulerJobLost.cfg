SPECIFICATION SafeSpec
CONSTANTS
    v1 = v1
    v2 = v2
    main = main
    VMs <- OneVM
    Main <- main
    Published <- OneVM
    LocalFile = FALSE
    UserCode <- UserOnly
    Patient = FALSE
    TriesLimit = 2
    MaxReinits = 0
    MaxInputs = 1
    MaxGrabs = 2
INVARIANT DroppedJobIsExecuted
CHECK_DEADLOCK FALSE
