SPECIFICATION IdentitySpec
CONSTANTS
    None = None
    s1 = s1
    s2 = s2
    chunk = chunk
    callback = callback
    inner = inner
    stub = stub
    plugin = plugin
    StudioThreads <- TwoOfStudio
    SpareThreads = {n1, n2, n3, n4, n5}
    StudioIs <- PluginAndScript
    GlobalsOf <- SharedGlobals
    SetTo <- InAndOutOfRange
    Protos <- EveryProto
    Inside <- Nesting
    Chunks <- LoadedChunks
    Stubs <- LoadedStubs
    StudioProtos <- PluginCode
SYMMETRY ThreadSymmetry
INVARIANTS
    IdentityTypeOK
    CapabilitiesMatch
    CheckcallerKnowsOurs
    CodeKeepsCapabilities
PROPERTIES
    IdentityIsOwn
CHECK_DEADLOCK FALSE
