SPECIFICATION SafeSpec
CONSTANTS
    v1 = v1
    v2 = v2
    main = main
    VMs <- TwoVMs
    Main <- main
    Published <- TwoVMs
    LocalFile = FALSE
    UserCode <- NoCode
    Patient = TRUE
    TriesLimit = 2
    MaxReinits = 1
    MaxInputs = 0
    MaxGrabs = 3
INVARIANT EnvironmentIsCurrent
CHECK_DEADLOCK FALSE
