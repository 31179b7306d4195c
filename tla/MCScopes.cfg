SPECIFICATION Spec
CONSTANTS
    Vals <- MCVals
    Names <- OneName
    PtrAddrs <- MCPtrAddrs
    Features = {"unsafe", "headError"}
    Raised = {"error", "return", "break", "continue"}
    GC_ALLOC_THRESHOLD = 2
    FREE_LIST_COMPACT_THRESHOLD = 1
    MaxAddr = 65552
    MAX_CALL_DEPTH = 1
    MAX_VARIABLES = 2
    MaxNesting = 2
    MaxHeight = 3
    MaxDefers = 1
INVARIANTS
    TypeOK
    NoDoubleFree
    OwnedOnce
    BindingsLive
    NoAliasing
