SPECIFICATION Spec
CONSTANTS
    Vals <- MCVals
    Names <- OneName
    PtrAddrs = {}
    Features = {}
    Raised = {"error", "return"}
    GC_ALLOC_THRESHOLD = 1
    FREE_LIST_COMPACT_THRESHOLD = 1
    MaxAddr = 65552
    MAX_CALL_DEPTH = 2
    MAX_VARIABLES = 2
    MaxNesting = 3
    MaxHeight = 3
    MaxDefers = 1
INVARIANTS
    ScopeBalance
PROPERTIES
    VariablesAreCells
