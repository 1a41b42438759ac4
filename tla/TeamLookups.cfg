SPECIFICATION FairSpec
CONSTANTS
    None = None
    Overlong = Overlong
    Lookups = {1, 2}
    Leagues = {"mlb", "milb", "xfl"}
    Known = {"mlb", "milb"}
    Norms = {"jays", "jay"}
    Calls <- JayCalls
    Teams = {1, 2}
    LeagueOf <- TwoLeagues
    AliasesAt <- JaysAliases
    Deletable = {1}
    Score <- CloseScore
    Threshold = 10
INVARIANTS
    LeagueIsolation
    AnswerIsCurrent
    AnswerWasTrue
PROPERTIES
    CachesCatchUp
