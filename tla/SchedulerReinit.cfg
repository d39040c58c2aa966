SPECIFICATION Spec
CONSTANTS
    v1 = v1
    v2 = v2
    main = main
    VMs <- OneVM
    Main <- main
    Published <- NoVM
    LocalFile = FALSE
    UserCode <- UserOnly
    Patient = TRUE
    TriesLimit = 2
    MaxReinits = 1
    MaxInputs = 1
    MaxGrabs = 3
INVARIANTS
    LockNotOrphaned
    MainSeesStates
PROPERTIES
    MainReturnsToPrompt
    MutxReleased
    QueueDrains
CHECK_DEADLOCK FALSE
