CONSTANTS
    Types = {"RuntimeException", "NullPointerException", "ITPException"}
    RuntimeException = "RuntimeException"
    Supertype <- MCSupertype
    Catches <- MCCatches
    E4C_MAX_FRAMES = 3
SPECIFICATION Spec
INVARIANT JumpsToLiveBlock
PROPERTY BlocksMeanTry
CHECK_DEADLOCK FALSE
