SPECIFICATION FairSpec
CONSTANTS
    None = None
    Lookups = {1, 2}
    Inputs <- MixedInputs
    Norm <- MixedNorm
    SlugMatch <- MixedSlug
    TooLong = {"overlong"}
    Leagues = {3, 7, 9}
    Known = {3, 7}
    SeedAliases <- MixedAliases
    Score <- MixedScore
    Threshold = 10
INVARIANTS
    AnswersKnownLeagues
    AnswerWasTrue
PROPERTIES
    CachesCatchUp
