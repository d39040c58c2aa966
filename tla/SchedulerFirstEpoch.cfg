SPECIFICATION Spec
CONSTANTS
    v1 = v1
    v2 = v2
    main = main
    VMs <- TwoVMs
    Main <- main
    Published <- TwoVMs
    LocalFile = FALSE
    UserCode <- EveryCode
    Patient = TRUE
    TriesLimit = 2
    MaxReinits = 0
    MaxInputs = 2
    MaxGrabs = 2
INVARIANTS
    TypeOK
    LockMutex
    NeverCrashes
    QueueRaceFree
    OneInitializer
PROPERTIES
    ImplementsJobQueue
