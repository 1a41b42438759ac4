SPECIFICATION CallSpec
CONSTANTS
    Nothing = Nothing
    NoUrl = NoUrl
    Calls = {"espnTeams", "espnShield", "ncaaShield", "mlbShield", "milb", "rookie"}
    LevelsOf <- MCLevelsOf
    Rookie = "rookie"
    ListedAt <- MCListed
    Active = {"a1", "a2", "b1", "b2", "r1", "r2", "r3", "r4"}
    Untagged = {"r3"}
    SlugOf <- MCSlugOf
    LogoLists <- MCLogoLists
    SemSize = 2
INVARIANTS
    AttemptsAddUp
    TeamsAreTheirOwn
    ShieldAsSeedExpects
    LoaderFetchesTheSame
