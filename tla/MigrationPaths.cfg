SPECIFICATION Spec
CONSTANTS
    Null = Null
    Seedable = {"nba", "milb-aaa", "milb-single-a", "milb-a", "milb-winter"}
    Aliased = {"milb-a", "milb-winter"}
    Strays <- HandMadeRows
INVARIANTS
    KnownLeaguesHaveRows
    BackfillsAreRight
PROPERTIES
    RefusalsHaveAReason
    SeededTeamsSurvive
