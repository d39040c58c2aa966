SPECIFICATION SafeSpec
CONSTANTS
    v1 = v1
    v2 = v2
    main = main
    VMs <- OneVM
    Main <- main
    Published <- OneVM
    LocalFile = FALSE
    UserCode <- UserOnly
    Patient = TRUE
    TriesLimit = 2
    MaxReinits = 1
    MaxInputs = 1
    MaxGrabs = 3
INVARIANT RunnerIsValid
CHECK_DEADLOCK FALSE
