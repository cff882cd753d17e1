SPECIFICATION Spec
CONSTANTS
    Paths = {shipped}
    Failures = {"dlopen", "create", "initialize", "session", "stream", "opus"}
    MaxTests = 1
    MaxLoads = 3
    MaxFrames = 1
    shipped = shipped
INVARIANTS TypeOK LiveCodecHasItsLibrary QuiescentIsUnloaded NoFault
CHECK_DEADLOCK FALSE
