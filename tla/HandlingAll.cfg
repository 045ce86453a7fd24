CONSTANTS
    Method = {"GET", "POST"}
    Pattern <- Paths
    Prefix <- Scopes
    Target <- Targets
    Parameter = "{id}"
    CatchAll = "{*path}"
    MaxRoutes = 2
    MaxDepth = 2
    MaxServed = 0
    Sse2 = 4
    Avx2 = 8
    Name = {"n", "m"}
    FileName = {"f", ""}
    Content <- Contents
    Boundary <- Boundaries
    MaxParts = 2
SPECIFICATION Spec
INVARIANTS DispatchesAsWritten FormAsSent SearchesAgree
CHECK_DEADLOCK FALSE
