----------------------- MODULE RenderAndEncodeProofs -----------------------
(***************************************************************************)
(* Theorems about RenderAndEncode and, by way of the cases of              *)
(* ContrastCases, about decide_contrast: for every luminance of logos and  *)
(* colours, every threshold and every set of variants.                     *)
(***************************************************************************)
EXTENDS RenderAndEncode, ContrastCases, TLAPS

(* The rows and the logos are luminances; a logo is there once loaded.     *)
TeamsTyped ==
    \A side \in Sides : team[side].primary \in Colors /\ team[side].secondary \in Colors

LogosAreThere ==
    \A i \in 1..4 : i < step => logo[Pass(i)][Side(i)] \in 0..White

(* What a load holds between its awaits.                                   *)
LoadsHold ==
    /\ sub = "set" => bytes # None
    /\ step >= 5 => sub = "get"

(* A league logo that was loaded has been through the re-check.            *)
LeagueIsChecked ==
    step = 7 /\ league.logo # None =>
        league.decision = enforce_league_logo_contrast(league.logo, league.seam, league.variant)

(* The league logo's record keeps its fields.                              *)
LeagueTyped ==
    league = [seam |-> league.seam, variant |-> league.variant,
              logo |-> league.logo, decision |-> league.decision]

LogoInv == TypeOK /\ LeagueTyped /\ TeamsTyped /\ LogosAreThere /\ LoadsHold /\ LeagueIsChecked

-----------------------------------------------------------------------------
(* The operators of the contrast engine.                                   *)

LEMMA Product ==
    ASSUME NEW a \in Nat, NEW b \in Nat
    PROVE  /\ a * b \in Nat /\ a * b = b * a
           /\ \A c \in Nat : b <= c => a * b <= a * c
OBVIOUS

LEMMA RatioIsTyped ==
    ASSUME NEW a \in 0..White, NEW b \in 0..White
    PROVE  LET r == contrast_ratio(a, b)
           IN  r.num \in Nat \ {0} /\ r.den \in Nat \ {0} /\ r.den <= r.num
BY DEF contrast_ratio, Lighter, Darker, White

(* AtMost is an order, and total, on the ratios.                           *)
LEMMA AtMostIsTotal ==
    ASSUME NEW r, NEW s, {r.num, r.den, s.num, s.den} \subseteq Nat
    PROVE  AtMost(r, r) /\ (AtMost(r, s) \/ AtMost(s, r))
<1>1. r.num * s.den \in Nat /\ s.num * r.den \in Nat /\ r.num * r.den \in Nat
  BY Product
<1> QED BY <1>1 DEF AtMost

(* Where 1 : 1 clears the bar, every ratio does.                           *)
LEMMA OneClears ==
    ASSUME Clears(One), NEW a \in 0..White, NEW b \in 0..White
    PROVE  Clears(contrast_ratio(a, b))
<1>1. Threshold = 1
  BY ContrastAssumption DEF Clears, One
<1> QED BY <1>1, RatioIsTyped DEF Clears

(* Of a decision whose logo needs no variant, the ratio is that of the     *)
(* default logo on the background, unless the team has no colour.          *)
LEMMA DefaultIsMeasured ==
    ASSUME NEW row, row.primary \in Colors, row.secondary \in Colors, NEW repr \in 0..White
    PROVE  LET d == decide_for_team(row, repr)
           IN  /\ d.background \in 0..White
               /\ d.variant = NoVariant =>
                     \/ d.treatment = "outline"
                     \/ d.achieved \in {One, contrast_ratio(repr, d.background)}
<1> DEFINE primary == OrDefault(row.primary, NullPrimary)
           secondary == OrDefault(row.secondary, NullSecondary)
           d == decide_contrast(primary, secondary, repr, row.variants)
<1>1. primary \in 0..White /\ secondary \in 0..White
  BY DEF OrDefault, Colors, NullPrimary, NullSecondary, White
<1>2. /\ d.background \in {primary, secondary}
      /\ d.variant = NoVariant =>
            \/ d.treatment = "outline"
            \/ d.achieved = contrast_ratio(repr, d.background)
  <2> HIDE DEF primary, secondary
  <2> QED BY ContrastAssumption DEF decide_contrast, Decision
<1>3. CASE row.primary = NullColor /\ row.secondary = NullColor
  BY <1>3 DEF decide_for_team, legacy_decision, Decision, NullPrimary, White
<1>4. CASE ~(row.primary = NullColor /\ row.secondary = NullColor)
  <2>1. decide_for_team(row, repr) = d
    BY <1>4 DEF decide_for_team
  <2> HIDE DEF d, primary, secondary
  <2> QED BY <1>1, <1>2, <2>1
<1> QED BY <1>3, <1>4

(* A decision asks for one of the two variants, or for none.               *)
LEMMA VariantIsKnown ==
    ASSUME NEW row, NEW repr
    PROVE  decide_for_team(row, repr).variant \in {OnPrimary, Dark, NoVariant}
<1>1. \A variants, source, background :
         recommend_variant(variants, source, background) \in {OnPrimary, Dark, NoVariant}
  BY DEF recommend_variant
<1>2. \A p, s : decide_contrast(p, s, repr, row.variants).variant \in {OnPrimary, Dark, NoVariant}
  BY <1>1 DEF decide_contrast, Decision
<1> QED BY <1>2 DEF decide_for_team, legacy_decision, Decision

(* Whatever the second pass loaded: what is drawn is legible, unless no    *)
(* variant was asked for and the default logo is another one by now.       *)
LEMMA EnforcedIsLegible ==
    ASSUME NEW row, row.primary \in Colors, row.secondary \in Colors,
           NEW default \in 0..White, NEW loaded \in 0..White
    PROVE  LET d == decide_for_team(row, default)
               drawn == enforce_logo_contrast(loaded, default, d)
           IN  \/ IsLegible(drawn.logo, drawn.decision)
               \/ d.variant = NoVariant /\ default # loaded
<1> DEFINE d == decide_for_team(row, default)
           best == resolve_variant_logo(loaded, default, d)
           drawn == enforce_logo_contrast(loaded, default, d)
<1>1. /\ d.background \in 0..White
      /\ d.variant = NoVariant =>
            \/ d.treatment = "outline"
            \/ d.achieved \in {One, contrast_ratio(default, d.background)}
  BY DefaultIsMeasured
<1>2. /\ drawn.logo = best.logo
      /\ ~Clears(best.achieved) /\ d.treatment # "outline" => drawn.decision.treatment = "outline"
      /\ d.treatment = "outline" => drawn.decision.treatment = "outline"
      /\ drawn.decision.background = d.background
  <2>1. \E b, p, a, v, t, r : d = Decision(b, p, a, v, t, r)
    BY DEF decide_for_team, legacy_decision, decide_contrast
  <2> HIDE DEF d, best
  <2> QED BY <2>1 DEF enforce_logo_contrast, Decision, best
<1>3. CASE d.variant # NoVariant
  <2>1. best.achieved = contrast_ratio(best.logo, d.background)
    <3> HIDE DEF d
    <3> QED BY <1>3 DEF resolve_variant_logo
  <2> HIDE DEF d, best, drawn
  <2> QED BY <1>2, <2>1 DEF IsLegible, d, drawn
<1>4. CASE d.variant = NoVariant /\ default = loaded
  <2>1. best.logo = default /\ best.achieved = d.achieved
    <3> HIDE DEF d
    <3> QED BY <1>4 DEF resolve_variant_logo
  <2>2. Clears(One) => Clears(contrast_ratio(default, d.background))
    BY <1>1, OneClears
  <2> HIDE DEF d, best, drawn
  <2> QED BY <1>1, <1>2, <1>4, <2>1, <2>2 DEF IsLegible, d, drawn
<1> HIDE DEF d, drawn
<1> QED BY <1>3, <1>4 DEF d, drawn

(* After a swap, what is drawn is legible or the better of the two logos.  *)
LEMMA SwapIsNoWorse ==
    ASSUME NEW row, row.primary \in Colors, row.secondary \in Colors,
           NEW default \in 0..White, NEW loaded \in 0..White
    PROVE  LET d == decide_for_team(row, default)
               drawn == enforce_logo_contrast(loaded, default, d)
               ratio(image) == contrast_ratio(image, drawn.decision.background)
           IN  d.variant # NoVariant =>
                 \/ Clears(ratio(drawn.logo))
                 \/ AtMost(ratio(default), ratio(drawn.logo)) /\ AtMost(ratio(loaded), ratio(drawn.logo))
<1> DEFINE d == decide_for_team(row, default)
           best == resolve_variant_logo(loaded, default, d)
           drawn == enforce_logo_contrast(loaded, default, d)
           ratio(image) == contrast_ratio(image, d.background)
<1> SUFFICES ASSUME d.variant # NoVariant
             PROVE  LET r(image) == contrast_ratio(image, drawn.decision.background)
                    IN  \/ Clears(r(drawn.logo))
                        \/ AtMost(r(default), r(drawn.logo)) /\ AtMost(r(loaded), r(drawn.logo))
  OBVIOUS
<1>1. d.background \in 0..White
  BY DefaultIsMeasured
<1>2. drawn.logo = best.logo /\ drawn.decision.background = d.background
  <2>1. \E b, p, a, v, t, r : d = Decision(b, p, a, v, t, r)
    BY DEF decide_for_team, legacy_decision, decide_contrast
  <2> HIDE DEF d, best
  <2> QED BY <2>1 DEF enforce_logo_contrast, Decision, best
<1>3. \/ best.logo = loaded /\ (Clears(ratio(loaded)) \/ AtMost(ratio(default), ratio(loaded)))
      \/ best.logo = default /\ ~AtMost(ratio(default), ratio(loaded))
  <2> HIDE DEF d
  <2> QED BY DEF resolve_variant_logo
<1>4. /\ AtMost(ratio(default), ratio(default)) /\ AtMost(ratio(loaded), ratio(loaded))
      /\ AtMost(ratio(default), ratio(loaded)) \/ AtMost(ratio(loaded), ratio(default))
  <2> HIDE DEF d
  <2>1. {ratio(default).num, ratio(default).den, ratio(loaded).num, ratio(loaded).den} \subseteq Nat
    BY <1>1, RatioIsTyped
  <2> HIDE DEF ratio
  <2> QED BY <2>1, AtMostIsTotal
<1> HIDE DEF d, best, drawn
<1> QED BY <1>2, <1>3, <1>4

-----------------------------------------------------------------------------
(* Loads.                                                                  *)

LEMMA PlacesOfLoads ==
    ASSUME NEW i \in 1..4
    PROVE  /\ Pass(i) \in 1..2 /\ Side(i) \in Sides
           /\ \A j \in 1..4 : j # i => Pass(j) # Pass(i) \/ Side(j) # Side(i)
<1>1. i \in {1, 2, 3, 4}
  OBVIOUS
<1>2. /\ Pass(1) = 1 /\ Pass(2) = 1 /\ Pass(3) = 2 /\ Pass(4) = 2
      /\ Side(1) = "away" /\ Side(2) = "home" /\ Side(3) = "away" /\ Side(4) = "home"
  BY DEF Pass, Side
<1>3. \A j \in 1..4 : j \in {1, 2, 3, 4}
  OBVIOUS
<1> HIDE DEF Pass, Side
<1> QED BY <1>1, <1>2, <1>3, RenderAssumption

(* What a load comes to: its logo, and on to the next load.                *)
LEMMA LoadedKeeps ==
    ASSUME LogoInv, step \in 1..4, NEW blob \in Blobs, Loaded(blob), UNCHANGED <<team, league>>,
           cache' \in [Sides -> [Variants -> Blobs \cup {None}]]
    PROVE  LogoInv'
<1>0. Pass(step) \in 1..2 /\ Side(step) \in Sides
  BY PlacesOfLoads
<1>1. logo \in [1..2 -> [Sides -> Images \cup {Placeholder, None}]]
  BY DEF LogoInv, TypeOK
<1>2. Decoded(blob) \in Images \cup {Placeholder} /\ Decoded(blob) \in 0..White
  BY RenderAssumption DEF Decoded, Blobs
<1>3. /\ logo' \in [1..2 -> [Sides -> Images \cup {Placeholder, None}]]
      /\ logo'[Pass(step)][Side(step)] = Decoded(blob)
      /\ \A p \in 1..2, side \in Sides :
            p # Pass(step) \/ side # Side(step) => logo'[p][side] = logo[p][side]
  <2> DEFINE p == Pass(step)
             side == Side(step)
             image == Decoded(blob)
  <2>1. logo' = [logo EXCEPT ![p][side] = image]
    BY DEF Loaded
  <2> HIDE DEF p, side, image
  <2>2. p \in 1..2 /\ side \in Sides /\ image \in Images \cup {Placeholder}
    BY <1>0, <1>2 DEF p, side, image
  <2> QED BY <1>1, <2>1, <2>2 DEF p, side, image
<1>4. step' = step + 1 /\ sub' = "get" /\ bytes' = None
  BY DEF Loaded
<1>5. \A i \in 1..4 : i < step' => logo'[Pass(i)][Side(i)] \in 0..White
  <2> SUFFICES ASSUME NEW i \in 1..4, i < step' PROVE logo'[Pass(i)][Side(i)] \in 0..White
    OBVIOUS
  <2>1. CASE i = step
    BY <1>2, <1>3, <2>1
  <2>2. CASE i # step
    <3>1. i < step
      BY <1>4, <2>2
    <3> QED BY <1>3, <2>2, <3>1, PlacesOfLoads DEF LogoInv, LogosAreThere
  <2> QED BY <2>1, <2>2
<1>6. TypeOK' /\ LoadsHold'
  BY <1>3, <1>4 DEF LogoInv, TypeOK, LoadsHold
<1>7. LeagueTyped' /\ TeamsTyped' /\ LeagueIsChecked'
  BY <1>4 DEF LogoInv, LeagueTyped, TeamsTyped, LeagueIsChecked
<1>8. LogosAreThere'
  BY <1>5 DEF LogosAreThere, Pass, Side
<1> QED BY <1>6, <1>7, <1>8 DEF LogoInv

LEMMA LogoInit == Init => LogoInv
BY RenderAssumption
DEF Init, LogoInv, TypeOK, LeagueTyped, TeamsTyped, LogosAreThere, LoadsHold, LeagueIsChecked, Blobs

LEMMA LogoStep == LogoInv /\ [Next]_vars => LogoInv'
<1> SUFFICES ASSUME LogoInv, [Next]_vars PROVE LogoInv'
  OBVIOUS
<1>0. /\ cache \in [Sides -> [Variants -> Blobs \cup {None}]] /\ None \notin 0..White
      /\ Images \cup {Placeholder} \subseteq Blobs
  BY RenderAssumption DEF LogoInv, TypeOK, Blobs
<1>a. ASSUME NEW i \in 1..4 PROVE Variant(i) \in Variants
  BY VariantIsKnown DEF Variant, Variants, Decide
<1>1. CASE GetLogoHit
  <2>1. Side(step) \in Sides /\ Variant(step) \in Variants /\ step \in 1..4
    BY <1>a, <1>1, PlacesOfLoads DEF GetLogoHit
  <2>2. cache[Side(step)][Variant(step)] \in Blobs
    BY <1>0, <1>1, <2>1 DEF GetLogoHit
  <2> QED BY <1>0, <1>1, <2>1, <2>2, LoadedKeeps DEF GetLogoHit
<1>2. CASE GetLogoMiss
  <2>1. CASE HasUrl(step)
    <3>1. step \in 1..4 /\ sub' = "fetch" /\ UNCHANGED <<step, bytes, logo, team, cache, league>>
      BY <1>2, <2>1 DEF GetLogoMiss
    <3> QED BY <3>1 DEF LogoInv, TypeOK, LeagueTyped, TeamsTyped, LogosAreThere, LoadsHold,
                LeagueIsChecked, Pass, Side
  <2>2. CASE ~HasUrl(step)
    BY <1>0, <1>2, <2>2, LoadedKeeps DEF GetLogoMiss
  <2> QED BY <2>1, <2>2
<1>3. CASE FetchLogo
  <2>1. bytes' \in Blobs /\ bytes' # None
    BY <1>3, RenderAssumption DEF FetchLogo, Blobs
  <2> QED BY <1>3, <2>1 DEF FetchLogo, LogoInv, TypeOK, LeagueTyped, TeamsTyped, LogosAreThere,
             LoadsHold, LeagueIsChecked, Pass, Side
<1>4. CASE SetLogo
  <2>1. Side(step) \in Sides /\ Variant(step) \in Variants /\ bytes \in Blobs /\ step \in 1..4
    BY <1>a, <1>4, PlacesOfLoads DEF SetLogo, LogoInv, TypeOK, LoadsHold
  <2>2. cache' \in [Sides -> [Variants -> Blobs \cup {None}]]
    <3> DEFINE v == Variant(step)
               side == Side(step)
    <3>1. cache' = [cache EXCEPT ![side][v] = bytes]
      BY <1>4 DEF SetLogo
    <3> HIDE DEF v, side
    <3>2. side \in Sides /\ v \in Variants
      BY <2>1 DEF v, side
    <3> QED BY <1>0, <2>1, <3>1, <3>2
  <2> QED BY <1>4, <2>1, <2>2, LoadedKeeps DEF SetLogo
<1>5. CASE LoadFails
  BY <1>0, <1>5, LoadedKeeps DEF LoadFails
<1>6. CASE SelectLeagueVariant
  <2>1. PICK seam, advertised :
           league' = [league EXCEPT !.seam = seam,
                        !.variant = select_league_logo_variant(seam, advertised)]
    BY <1>6 DEF SelectLeagueVariant
  <2>2. /\ league'.variant \in {"default", Dark}
        /\ league' = [seam |-> league'.seam, variant |-> league'.variant,
                      logo |-> league'.logo, decision |-> league'.decision]
    <3> DEFINE v == select_league_logo_variant(seam, advertised)
    <3>1. v \in {"default", Dark}
      BY DEF select_league_logo_variant
    <3>2. league' = [league EXCEPT !.seam = seam, !.variant = v]
      BY <2>1
    <3> HIDE DEF v
    <3> QED BY <3>1, <3>2 DEF LogoInv, LeagueTyped
  <2>3. step = 5 /\ step' = 6 /\ UNCHANGED <<loadVars, team, cache, logo>>
    BY <1>6 DEF SelectLeagueVariant
  <2> QED BY <2>2, <2>3 DEF LogoInv, TypeOK, LeagueTyped, TeamsTyped, LogosAreThere, LoadsHold,
             LeagueIsChecked, Pass, Side, loadVars
<1>7. CASE LoadLeagueLogo
  <2>1. PICK image :
           league' = [league EXCEPT !.logo = image,
                        !.decision = IF image = None THEN NoVariant
                                     ELSE enforce_league_logo_contrast(
                                              image, league.seam, league.variant)]
    BY <1>7 DEF LoadLeagueLogo
  <2>2. /\ league'.variant = league.variant /\ league'.seam = league.seam
        /\ league'.logo = image
        /\ image # None => league'.decision =
              enforce_league_logo_contrast(image, league.seam, league.variant)
        /\ league' = [seam |-> league'.seam, variant |-> league'.variant,
                      logo |-> league'.logo, decision |-> league'.decision]
    <3> DEFINE d == enforce_league_logo_contrast(image, league.seam, league.variant)
    <3> HIDE DEF d
    <3>1. league' = [league EXCEPT !.logo = image,
                        !.decision = IF image = None THEN NoVariant ELSE d]
      BY <2>1 DEF d
    <3>2. /\ league'.variant = league.variant /\ league'.seam = league.seam
          /\ league'.logo = image
          /\ image # None => league'.decision = d
          /\ league' = [seam |-> league'.seam, variant |-> league'.variant,
                        logo |-> league'.logo, decision |-> league'.decision]
      BY <3>1 DEF LogoInv, LeagueTyped
    <3> QED BY <3>2 DEF d
  <2>3. step = 6 /\ step' = 7 /\ UNCHANGED <<loadVars, team, cache, logo>>
    BY <1>7 DEF LoadLeagueLogo
  <2>4. LeagueIsChecked'
    BY <2>2 DEF LeagueIsChecked
  <2> QED BY <2>2, <2>3, <2>4 DEF LogoInv, TypeOK, LeagueTyped, TeamsTyped, LogosAreThere,
             LoadsHold, Pass, Side, loadVars
<1>8. CASE Disturb
  <2>1. cache' \in [Sides -> [Variants -> Blobs \cup {None}]]
    BY <1>0, <1>8, RenderAssumption
    DEF Disturb, SeedWritesLogo, OtherRenderStores, LogoExpires, Blobs, Variants
  <2> QED BY <1>8, <2>1 DEF Disturb, LogoInv, TypeOK, LeagueTyped, TeamsTyped, LogosAreThere,
             LoadsHold, LeagueIsChecked, Pass, Side, loadVars
<1>9. CASE UNCHANGED vars
  BY <1>9 DEF vars, LogoInv, TypeOK, LeagueTyped, TeamsTyped, LogosAreThere,
             LoadsHold, LeagueIsChecked, Pass, Side, loadVars
<1> QED BY <1>1, <1>2, <1>3, <1>4, <1>5, <1>6, <1>7, <1>8, <1>9 DEF Next, Render, Done

LEMMA LogoInvariant == Spec => []LogoInv
BY LogoInit, LogoStep, PTL DEF Spec

(* Once all four loads are done, both logos of a side are luminances.      *)
LEMMA FinishedLogos ==
    ASSUME LogoInv, Finished, NEW side \in Sides
    PROVE  /\ logo[1][side] \in 0..White /\ logo[2][side] \in 0..White
           /\ team[side].primary \in Colors /\ team[side].secondary \in Colors
<1>1. \A i \in 1..4 : logo[Pass(i)][Side(i)] \in 0..White
  BY DEF LogoInv, LogosAreThere, Finished
<1>2. /\ Pass(1) = 1 /\ Pass(2) = 1 /\ Pass(3) = 2 /\ Pass(4) = 2
      /\ Side(1) = "away" /\ Side(2) = "home" /\ Side(3) = "away" /\ Side(4) = "home"
  BY DEF Pass, Side
<1>3. /\ logo[1]["away"] \in 0..White /\ logo[1]["home"] \in 0..White
      /\ logo[2]["away"] \in 0..White /\ logo[2]["home"] \in 0..White
  BY <1>1, <1>2
<1> QED BY <1>3, RenderAssumption DEF LogoInv, TeamsTyped

(* Type correctness.                                                       *)
THEOREM TypesHold == Spec => []TypeOK
BY LogoInvariant, PTL DEF LogoInv

(* Whatever CDN, Redis and seed do between the passes, a drawn logo is     *)
(* legible, for every luminance and threshold; or no variant was asked for *)
(* and the default logo has been replaced in between.                      *)
THEOREM LogosAreLegible == Spec => []LegibleUnlessDefaultChanged
<1>1. LogoInv => LegibleUnlessDefaultChanged
  <2> SUFFICES ASSUME LogoInv, Finished, NEW side \in Sides
               PROVE  \/ SideLegible(side)
                      \/ Decide(side).variant = NoVariant /\ logo[1][side] # logo[2][side]
    BY DEF LegibleUnlessDefaultChanged
  <2> QED BY FinishedLogos, EnforcedIsLegible DEF SideLegible, Drawn, Decide
<1> QED BY <1>1, LogoInvariant, PTL

(* A variant swap never draws a logo that contrasts worse than the other   *)
(* one at hand, unless it is legible.                                      *)
THEOREM SwapsAreNoWorse == Spec => []SwapNeverMakesItWorse
<1>1. LogoInv => SwapNeverMakesItWorse
  <2> SUFFICES ASSUME LogoInv, Finished, NEW side \in Sides, Decide(side).variant # NoVariant
               PROVE  LET ratio(image) == contrast_ratio(image, Drawn(side).decision.background)
                      IN  \/ Clears(ratio(Drawn(side).logo))
                          \/ \A p \in 1..2 : AtMost(ratio(logo[p][side]), ratio(Drawn(side).logo))
    BY DEF SwapNeverMakesItWorse
  <2>1. logo[1][side] \in 0..White /\ logo[2][side] \in 0..White
    BY FinishedLogos
  <2>2. \A p \in 1..2 : p = 1 \/ p = 2
    OBVIOUS
  <2> QED BY <2>1, <2>2, FinishedLogos, SwapIsNoWorse DEF Drawn, Decide
<1> QED BY <1>1, LogoInvariant, PTL

(* So is the league logo on the seam, whichever variant the loader served. *)
THEOREM LeagueLogosAreLegible == Spec => []LeagueLogoIsLegible
<1>1. LogoInv => LeagueLogoIsLegible
  BY DEF LogoInv, LeagueIsChecked, LeagueLogoIsLegible, Finished, IsLegible,
         enforce_league_logo_contrast, Decision
<1> QED BY <1>1, LogoInvariant, PTL

-----------------------------------------------------------------------------
(* decide_contrast and its reference.                                      *)

CaseInv ==
    /\ case \in [primary : 0..White, secondary : 0..White, repr : 0..White, variants : VariantSets]
    /\ chosen # NoVariant =>
          chosen = decide_contrast(case.primary, case.secondary, case.repr, case.variants)

(* Where white clears a bar of 2 : 1 or more, the background is dark.      *)
LEMMA WhiteNeedsDark ==
    ASSUME Threshold >= 2, NEW a \in 0..White, Clears(contrast_ratio(White, a))
    PROVE  a < Light
<1>1. 21 >= Threshold * (a + 1)
  BY DEF Clears, contrast_ratio, Lighter, Darker, White
<1>2. Threshold * (a + 1) >= 2 * (a + 1)
  BY ContrastAssumption, Product DEF White
<1>3. Threshold * (a + 1) \in Nat
  BY ContrastAssumption, Product DEF White
<1> HIDE DEF White
<1> QED BY <1>1, <1>2, <1>3 DEF Light, White

LEMMA FirstLegible ==
    ASSUME CaseInv, Threshold >= 2
    PROVE  ChoosesFirstLegible
<1> DEFINE p == case.primary
           s == case.secondary
           onPrimary == contrast_ratio(case.repr, p)
           onSecondary == contrast_ratio(case.repr, s)
           white == contrast_ratio(White, p)
<1> SUFFICES ASSUME chosen # NoVariant
             PROVE  ChoosesFirstLegible
  BY DEF ChoosesFirstLegible, Decided
<1>1. /\ case \in [primary : 0..White, secondary : 0..White, repr : 0..White, variants : VariantSets]
      /\ chosen = decide_contrast(p, s, case.repr, case.variants)
  BY DEF CaseInv
<1>2. chosen.variant = Dark => chosen.background < Light
  <2>1. \A background : recommend_variant(case.variants, "primary", background) # Dark
    BY ContrastAssumption DEF recommend_variant, OnPrimary, Dark
  <2>2. \A source, background :
           recommend_variant(case.variants, source, background) = Dark => background < Light
    BY ContrastAssumption DEF recommend_variant, OnPrimary, Dark
  <2>3. Clears(white) => p < Light
    BY <1>1, WhiteNeedsDark
  <2> HIDE DEF p, s
  <2> QED BY <1>1, <2>1, <2>2, <2>3 DEF decide_contrast, Decision
<1>3. /\ Legible = {pair \in Pairs : Clears(RatioOf(pair))}
      /\ Pairs =
            {[rank |-> 1, logo |-> case.repr, source |-> "primary"],
             [rank |-> 3, logo |-> case.repr, source |-> "secondary"]}
            \cup (IF Dark \in case.variants
                  THEN {[rank |-> 2, logo |-> White, source |-> "primary"]} ELSE {})
  BY DEF Legible, Pairs, Clears
<1>4. /\ RatioOf([rank |-> 1, logo |-> case.repr, source |-> "primary"]) = onPrimary
      /\ RatioOf([rank |-> 3, logo |-> case.repr, source |-> "secondary"]) = onSecondary
      /\ RatioOf([rank |-> 2, logo |-> White, source |-> "primary"]) = white
  BY DEF RatioOf
<1>5. CASE Clears(onPrimary)
  <2> DEFINE first == [rank |-> 1, logo |-> case.repr, source |-> "primary"]
  <2>1. first \in Legible
    BY <1>3, <1>4, <1>5
  <2>2. \A pair \in Legible : first.rank <= pair.rank
    BY <1>3
  <2>3. /\ chosen.treatment = "none" /\ chosen.background = case[first.source]
        /\ chosen.achieved = RatioOf(first)
    BY <1>1, <1>4, <1>5 DEF decide_contrast, Decision
  <2> HIDE DEF first
  <2> QED BY <1>2, <2>1, <2>2, <2>3 DEF ChoosesFirstLegible
<1>6. CASE ~Clears(onPrimary) /\ Dark \in case.variants /\ Clears(white)
  <2> DEFINE first == [rank |-> 2, logo |-> White, source |-> "primary"]
  <2>1. first \in Legible
    BY <1>3, <1>4, <1>6
  <2>2. \A pair \in Legible : first.rank <= pair.rank
    BY <1>3, <1>4, <1>6
  <2>3. /\ chosen.treatment = "none" /\ chosen.background = case[first.source]
        /\ chosen.achieved = RatioOf(first)
    BY <1>1, <1>4, <1>6 DEF decide_contrast, Decision
  <2> HIDE DEF first
  <2> QED BY <1>2, <2>1, <2>2, <2>3 DEF ChoosesFirstLegible
<1>7. CASE ~Clears(onPrimary) /\ ~(Dark \in case.variants /\ Clears(white)) /\ Clears(onSecondary)
  <2> DEFINE first == [rank |-> 3, logo |-> case.repr, source |-> "secondary"]
  <2>1. first \in Legible
    BY <1>3, <1>4, <1>7
  <2>2. \A pair \in Legible : first.rank <= pair.rank
    BY <1>3, <1>4, <1>7
  <2>3. /\ chosen.treatment = "none" /\ chosen.background = case[first.source]
        /\ chosen.achieved = RatioOf(first)
    BY <1>1, <1>4, <1>7 DEF decide_contrast, Decision
  <2> HIDE DEF first
  <2> QED BY <1>2, <2>1, <2>2, <2>3 DEF ChoosesFirstLegible
<1>8. CASE ~Clears(onPrimary) /\ ~(Dark \in case.variants /\ Clears(white)) /\ ~Clears(onSecondary)
  <2>1. Legible = {}
    BY <1>3, <1>4, <1>8
  <2> DEFINE source == better_source(onPrimary, onSecondary)
  <2>2. /\ source \in {"primary", "secondary"}
        /\ source = "primary" <=> AtMost(onSecondary, onPrimary)
    BY DEF better_source
  <2>3. /\ chosen.treatment = "outline" /\ chosen.source = source
        /\ chosen.background = case[source]
        /\ chosen.achieved = contrast_ratio(case.repr, case[source])
    BY <1>1, <1>8, <2>2 DEF decide_contrast, Decision
  <2>4. /\ AtMost(onPrimary, onPrimary) /\ AtMost(onSecondary, onSecondary)
        /\ AtMost(onPrimary, onSecondary) \/ AtMost(onSecondary, onPrimary)
    <3>1. {onPrimary.num, onPrimary.den, onSecondary.num, onSecondary.den} \subseteq Nat
      BY <1>1, RatioIsTyped
    <3> HIDE DEF onPrimary, onSecondary
    <3> QED BY <3>1, AtMostIsTotal
  <2>5. \A other \in {"primary", "secondary"} :
           AtMost(contrast_ratio(case.repr, case[other]), chosen.achieved)
    <3> HIDE DEF source
    <3> QED BY <2>2, <2>3, <2>4
  <2>6. chosen.source = "secondary" => ~AtMost(chosen.achieved, onPrimary)
    <3> HIDE DEF source
    <3> QED BY <2>2, <2>3
  <2> HIDE DEF source
  <2> QED BY <1>2, <2>1, <2>3, <2>5, <2>6 DEF ChoosesFirstLegible
<1> QED BY <1>5, <1>6, <1>7, <1>8

(* decide_contrast takes the first legible pair of logo and background, or *)
(* outlines the better one: for all luminances and any threshold of 2 : 1  *)
(* or more.  Below, white clears the bar on backgrounds that count as      *)
(* light, where the white variant is not for.                              *)
THEOREM DecisionsAreFirstLegible ==
    ASSUME Threshold >= 2, Luminances \subseteq 0..White
    PROVE  CaseSpec => []ChoosesFirstLegible
<1>1. CaseInit => CaseInv
  BY DEF CaseInit, CaseInv
<1>2. CaseInv /\ [CaseNext]_caseVars => CaseInv'
  BY DEF CaseInv, CaseNext, DecideCase, caseVars
<1>3. CaseInv => ChoosesFirstLegible
  BY FirstLegible
<1> QED BY <1>1, <1>2, <1>3, PTL DEF CaseSpec
=============================================================================
