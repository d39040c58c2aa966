SPECIFICATION ClosuresSpec
CONSTANTS
    Codes <- CodesOfScript
    Upvalues <- ScriptValues
    InitialClosures <- MixedClosures
    MaxUnheld = 1
    MaxClosures = 6
INVARIANTS
    ClosuresTypeOK
    HandlersAreMapped
PROPERTIES
    HookIsLocal
    HookTakesEffect
CHECK_DEADLOCK FALSE
