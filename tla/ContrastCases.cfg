SPECIFICATION CaseSpec
CONSTANTS
    Threshold = 3
    NullColor = NullColor
    NoVariant = NoVariant
    Luminances = {0, 1, 2, 3, 4, 5, 6, 7, 8, 9, 10, 11, 12, 13, 14, 15, 16, 17, 18, 19, 20}
    VariantSets = {{}, {"dark"}, {"primary_logo_on_primary_color"}, {"default", "dark", "primary_logo_on_primary_color"}}
INVARIANTS
    ChoosesFirstLegible
CHECK_DEADLOCK FALSE
