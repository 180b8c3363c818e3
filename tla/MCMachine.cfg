CONSTANTS
    Radix = 4
    Programs <- MCPrograms
    Consts <- MCConsts
    Requests <- MCRequests
    Descriptors = 12
    HostBase = 4096
    MaxUcs = 192
    MaxCut = 1
SPECIFICATION Spec
INVARIANTS
    ListingIsExecution
    RegionsApart
PROPERTY StepsMeanSource
CHECK_DEADLOCK FALSE
