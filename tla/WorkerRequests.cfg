SPECIFICATION FairSpec
CONSTANTS
    i1 = i1
    l1 = l1
    p1 = p1
    k1 = k1
    None = None
    Images = {i1}
    Listings = {l1}
    Probes = {p1}
    Conns = {k1}
    Native <- NativeSizes
    Widths <- SomeWidths
    FallsShort <- FallingShort
    MaxQueries = 2
INVARIANTS
    NoConnectionIsKept
    TelemetryIsTrue
    SizeIsSane
PROPERTIES
    EveryRequestEnds
    EveryProbeAnswers
