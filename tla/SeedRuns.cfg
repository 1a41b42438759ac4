SPECIFICATION Spec
CONSTANTS
    None = None
    Stored = Stored
    a1 = a1
    a2 = a2
    b1 = b1
    s1 = s1
    s2 = s2
    Aliases = {"one", "two", "shared", "only"}
    AliasesOf <- Names
    Seeds = {s1, s2}
    LeaguesOf <- WiderRun
    Leagues = {"a", "b"}
    LeagueRows = {"a", "b"}
    Teams <- TwoLeagues
    Renders = {"r1"}
    MaxVersion = 2
    MayFail = TRUE
    Expiring <- SomeKeys
INVARIANTS
    StaleImageHasACause
    SeededLogosAreWarm
PROPERTIES
    ReseedIsIdempotent
