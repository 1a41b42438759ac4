SPECIFICATION Spec
CONSTANTS
    Threshold = 3
    NullColor = NullColor
    NoVariant = NoVariant
    Corrupt = Corrupt
    None = None
    Sides = {"away", "home"}
    Rosters <- TwoRosters
    Images = {0, 7, 20}
    Placeholder = 5
    LeagueSets = {{"default", "dark"}}
    CachedAtStart = {7}
    LeagueBlobs = {None, Corrupt, 20}
    Disturbed = {"away"}
    Disturbances = {"seed", "render", "ttl"}
INVARIANTS
    LegibleUnlessDefaultChanged
    SwapNeverMakesItWorse
    LeagueLogoIsLegible
