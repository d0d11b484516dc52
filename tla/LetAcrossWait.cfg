SPECIFICATION SimSpec
CONSTANTS
    Structs <- MCStructs
    Variants <- MCVariants
    StructNames <- MCStructNames
    VariantNames <- MCVariantNames
    Upstreams <- MCUpstreams
    StrOrder <- MCStrOrder
    Functions <- MCFunctions
    Programs <- LetAcrossWait
    Requests <- MCRequests
    Results <- MCResults
    FrontEnd <- analyze_route
    MiddleEnd <- build_mir
    BackEnd <- lower_to_rir
    Handler <- emit_function
    Source <- Meaning
INVARIANTS
    LetsReachTheTerminal
CHECK_DEADLOCK FALSE
