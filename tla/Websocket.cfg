SPECIFICATION WebsocketSpec
CONSTANTS
    s1 = s1
    s2 = s2
    vm = vm
    VM <- vm
    Sockets <- TwoSockets
    Closers <- First
    Unreliable <- First
    SendsInvalid = TRUE
INVARIANTS
    WebsocketTypeOK
    MapHoldsLiveSockets
    WorkerUsesLiveSocket
    ReferencesOwnUntilReleasedTwice
    LeftOpenIsReconnected
PROPERTIES
    CloseReturns
CHECK_DEADLOCK FALSE
