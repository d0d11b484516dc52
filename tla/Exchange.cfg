SPECIFICATION FairSpec
CONSTANT Scenarios <- PassScenarios
CHECK_DEADLOCK FALSE
INVARIANTS
    UpstreamGetsRequest ClientGetsResponses StateMatchesSlots
    CompletionAwaited NotStuck HandlerGetsBody
PROPERTY AllAnswered
