SPECIFICATION ClosuresSpec
CONSTANTS
    Codes <- CodesOfScript
    Upvalues <- ScriptValues
    InitialClosures <- OneEach
    MaxUnheld = 2
    MaxClosures = 3
INVARIANTS
    CalleesAreAlive
CHECK_DEADLOCK FALSE
