SPECIFICATION Spec
CONSTANTS
    None = None
    Lookups = {1}
    Inputs <- HyphenInputs
    Norm <- HyphenNorm
    SlugMatch <- HyphenSlug
    TooLong = {}
    Leagues = {3, 7, 9}
    Known = {3, 7}
    SeedAliases <- HyphenAliases
    Score <- HyphenScore
    Threshold = 10
INVARIANTS
    CanonicalSlugResolves
