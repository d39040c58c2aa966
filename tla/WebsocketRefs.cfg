SPECIFICATION WebsocketSpec
CONSTANTS
    s1 = s1
    s2 = s2
    vm = vm
    VM <- vm
    Sockets <- TwoSockets
    Closers <- None
    Unreliable <- None
    SendsInvalid = FALSE
INVARIANTS
    ReferencesAreOwn
CHECK_DEADLOCK FALSE
