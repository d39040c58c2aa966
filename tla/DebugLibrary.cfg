SPECIFICATION DebugSpec
CONSTANTS
    nil = nil
    t = t
    f = f
    native = native
    fresh = fresh
    outer = outer
    inner = inner
    x = x
    Nil <- nil
    Plain <- OnlyNil
    Tables <- OneTable
    Closures <- AllClosures
    Protos <- AllProtos
    Variables <- OneVariable
    Nested <- NestedProtos
    Nups <- Captures
    InitialClosures <- ScriptClosures
    InitialConstants <- Constants
    InitialStack <- ThreeCalls
    Indices <- SomeIndices
    Levels <- SomeLevels
INVARIANTS
    DebugTypeOK
    FunctionsTriColor
CHECK_DEADLOCK FALSE
