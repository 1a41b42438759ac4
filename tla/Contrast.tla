------------------------------ MODULE Contrast ------------------------------
(***************************************************************************)
(* The contrast engine (contrast.py) and the pure parts of the render's    *)
(* two passes (render.py).                                                 *)
(*                                                                         *)
(* A colour, and the dominant colour of a logo, is its relative luminance  *)
(* in twentieths: 0 is black, White = 20 is white.  The 0.05 of the WCAG   *)
(* formula is then 1, and a ratio is exact as a pair num / den.            *)
(*                                                                         *)
(* Definitions marked "Mutant" are plausible mistakes that the properties  *)
(* are shown to catch; no specification uses them.                         *)
(***************************************************************************)
EXTENDS Integers

CONSTANTS
    Threshold,  \* settings.min_contrast_ratio
    NullColor,  \* an absent or malformed colour string
    NoVariant   \* recommended_variant is None

White == 20             \* _WHITE_LOGO_RGB
Light == 10             \* _LIGHT_BACKGROUND_LUMINANCE
NullPrimary == 1        \* luminance of NULL_PRIMARY, #3A3A3A
NullSecondary == 3       \* luminance of NULL_SECONDARY, #6E6E6E

OnPrimary == "primary_logo_on_primary_color"
Dark == "dark"

ASSUME ContrastAssumption ==
    /\ Threshold \in Nat \ {0}
    /\ NullColor \notin 0..White
    /\ NoVariant \notin {OnPrimary, Dark}

Lighter(a, b) == IF a >= b THEN a ELSE b
Darker(a, b) == IF a >= b THEN b ELSE a
contrast_ratio(a, b) == [num |-> Lighter(a, b) + 1, den |-> Darker(a, b) + 1]
Clears(ratio) == ratio.num >= Threshold * ratio.den
AtMost(r, s) == r.num * s.den <= s.num * r.den
One == [num |-> 1, den |-> 1]

-----------------------------------------------------------------------------

(* A white variant is for dark backgrounds only.                           *)
recommend_variant(variants, source, background) ==
    IF source = "primary" /\ OnPrimary \in variants THEN OnPrimary
    ELSE IF source = "secondary" /\ Dark \in variants /\ background < Light THEN Dark
    ELSE NoVariant

select_league_logo_variant(seam, variants) ==
    IF Dark \in variants /\ seam < Light THEN Dark ELSE "default"

Decision(background, source, achieved, variant, treatment, reason) ==
    [background |-> background, source |-> source, achieved |-> achieved,
     variant |-> variant, treatment |-> treatment, reason |-> reason]

(* Mutant: > for >=, so that a tie goes to the secondary colour.           *)
better_source_strictly(onPrimary, onSecondary) ==
    IF AtMost(onPrimary, onSecondary) THEN "secondary" ELSE "primary"

(* When nothing clears the bar: the better of the two colours, the primary *)
(* one when they tie.                                                      *)
better_source(onPrimary, onSecondary) ==
    IF AtMost(onSecondary, onPrimary) THEN "primary" ELSE "secondary"

(* Vibrant first: default logo on primary, white logo on primary, default  *)
(* logo on secondary, and an outline on the better of the two.             *)
decide_contrast(primary, secondary, repr, variants) ==
    LET onPrimary == contrast_ratio(repr, primary)
        onSecondary == contrast_ratio(repr, secondary)
        whiteOnPrimary == contrast_ratio(White, primary)
        source == better_source(onPrimary, onSecondary)
        better == IF source = "primary" THEN primary ELSE secondary
    IN  IF Clears(onPrimary)
        THEN Decision(primary, "primary", onPrimary,
                      recommend_variant(variants, "primary", primary),
                      "none", "primary_ok")
        ELSE IF Dark \in variants /\ Clears(whiteOnPrimary)
        THEN Decision(primary, "primary", whiteOnPrimary, Dark,
                      "none", "primary_light_variant")
        ELSE IF Clears(onSecondary)
        THEN Decision(secondary, "secondary", onSecondary,
                      recommend_variant(variants, "secondary", secondary),
                      "none", "swapped_to_secondary")
        ELSE Decision(better, source, contrast_ratio(repr, better),
                      recommend_variant(variants, source, better),
                      "outline", "treatment_required")

-----------------------------------------------------------------------------
(* A team without any usable colour keeps the grey of old.                 *)
legacy_decision == Decision(NullPrimary, "primary", One, NoVariant, "none", "null_color")

OrDefault(color, fallback) == IF color = NullColor THEN fallback ELSE color

decide_for_team(team, defaultLogo) ==
    IF team.primary = NullColor /\ team.secondary = NullColor
    THEN legacy_decision
    ELSE decide_contrast(OrDefault(team.primary, NullPrimary),
                         OrDefault(team.secondary, NullSecondary),
                         defaultLogo, team.variants)

(* Mutant: back to the default logo without measuring it.                  *)
resolve_variant_logo_blindly(loaded, default, decision) ==
    LET loadedRatio == contrast_ratio(loaded, decision.background)
    IN  IF decision.variant = NoVariant
        THEN [logo |-> loaded, achieved |-> decision.achieved]
        ELSE IF Clears(loadedRatio)
        THEN [logo |-> loaded, achieved |-> loadedRatio]
        ELSE [logo |-> default, achieved |-> contrast_ratio(default, decision.background)]

(* The logo to draw and its ratio, given the logo that pass 2 loaded and   *)
(* the default logo of pass 1.                                             *)
resolve_variant_logo(loaded, default, decision) ==
    LET loadedRatio == contrast_ratio(loaded, decision.background)
        defaultRatio == contrast_ratio(default, decision.background)
    IN  IF decision.variant = NoVariant
        THEN [logo |-> loaded, achieved |-> decision.achieved]
        ELSE IF Clears(loadedRatio) \/ AtMost(defaultRatio, loadedRatio)
        THEN [logo |-> loaded, achieved |-> loadedRatio]
        ELSE [logo |-> default, achieved |-> defaultRatio]

(* Mutant: the re-check picks a logo but never escalates.                  *)
enforce_without_escalation(loaded, default, decision) ==
    [logo |-> resolve_variant_logo(loaded, default, decision).logo, decision |-> decision]

enforce_logo_contrast(loaded, default, decision) ==
    LET best == resolve_variant_logo(loaded, default, decision)
        escalated == ~Clears(best.achieved) /\ decision.treatment # "outline"
    IN  [logo |-> best.logo,
         decision |-> IF escalated
                      THEN [decision EXCEPT !.treatment = "outline", !.achieved = best.achieved]
                      ELSE decision]

(* Mutant: the variant was chosen for the seam, so it must be fine.        *)
trust_league_variant(logo, seam, variant) ==
    Decision(seam, "seam", contrast_ratio(logo, seam), variant, "none", "primary_ok")

enforce_league_logo_contrast(logo, seam, variant) ==
    LET achieved == contrast_ratio(logo, seam)
    IN  IF Clears(achieved)
        THEN Decision(seam, "seam", achieved, variant, "none", "primary_ok")
        ELSE Decision(seam, "seam", achieved, variant, "outline", "treatment_required")

(* Per-channel averaging only darkens: the seam's luminance is anything up *)
(* to the mean of the two, since linearisation is convex.                  *)
blend_seam_color(away, home) == 0..((away + home) \div 2)
=============================================================================
