SPECIFICATION DebugSpec
CONSTANTS
    Vals <- MCVals
    Names <- MCNames
    PtrAddrs = {}
    Features = {}
    Raised = {"error"}
    GC_ALLOC_THRESHOLD = 0
    FREE_LIST_COMPACT_THRESHOLD = 1
    MaxAddr = 65552
    MAX_CALL_DEPTH = 1
    MAX_VARIABLES = 2
    MaxNesting = 2
    MaxHeight = 3
    MaxDefers = 0
    MaxResumes = 1
    MaxEvaluations = 1
    MaxClientDefers = 1
CHECK_DEADLOCK FALSE
INVARIANTS
    DebugTypeOK
    HeapHandedBack
PROPERTIES
    StoppedVariablesKept
    StepsByCalls
