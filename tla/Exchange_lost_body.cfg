SPECIFICATION Spec
CONSTANT Scenarios <- BodyEarly
CHECK_DEADLOCK FALSE
INVARIANT UpstreamGetsRequest
