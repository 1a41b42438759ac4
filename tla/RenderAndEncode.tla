--------------------------- MODULE RenderAndEncode ---------------------------
(***************************************************************************)
(* _render_and_encode (render.py) up to the generator: two passes over the *)
(* team logos around the contrast decision, then the league logo, with the *)
(* loader (assets/loader.py) and its Redis logo cache.                     *)
(*                                                                         *)
(* An image is the luminance of its dominant colour.  Between any two      *)
(* awaits of the render, a seed run or another render may rewrite a cached *)
(* logo and a TTL may end; a CDN answers with an image, with bytes that do *)
(* not decode, or not at all, and need not answer twice the same.          *)
(*                                                                         *)
(* A Redis GET that raises ends the render (UnlockedComposeFails and       *)
(* ComposeFails of RenderPipeline); it is left out here.                   *)
(*                                                                         *)
(* Definitions marked "Mutant" are plausible mistakes that the properties  *)
(* are shown to catch; no specification uses them.                         *)
(***************************************************************************)
EXTENDS Contrast

CONSTANTS
    Sides,         \* "away" and "home"
    Rosters,       \* [Sides -> sets of team rows [primary, secondary, variants, hasUrl]]
    Images,        \* luminances a CDN may answer with
    Placeholder,   \* luminance of the bundled placeholder
    Corrupt,       \* bytes that Pillow cannot decode
    None,          \* a cache miss, or no league logo
    LeagueSets,    \* what leagues.logo_variants may advertise
    CachedAtStart, \* what Redis may hold for a team's default logo at the start
    LeagueBlobs,   \* what Redis may hold for each variant of the league's logo
    Disturbances,  \* which of "seed", "render", "ttl" happen meanwhile
    Disturbed      \* the sides whose logos they touch

VARIABLES
    step,       \* 1..4: the loads of away and home; then "league", "done"
    sub,        \* inside a load: "get", "fetch" or "set"
    bytes,      \* what a load has fetched
    team,       \* the two team rows
    cache,      \* logo:<league>:<provider_id>:<variant>
    logo,       \* [1..2 -> [Sides -> image]]: the logos of pass 1 and pass 2
    league      \* seam, variant, logo and decision of the league logo

loadVars == <<sub, bytes>>
vars == <<step, loadVars, team, cache, logo, league>>

Variants == {"default", Dark, OnPrimary}
Blobs == Images \cup {Placeholder, Corrupt}
Colors == 0..White \cup {NullColor}

ASSUME RenderAssumption ==
    /\ Sides = {"away", "home"}
    /\ Images \cup {Placeholder} \subseteq 0..White
    /\ None \notin 0..White /\ None # Corrupt
    /\ CachedAtStart \subseteq Blobs
    /\ \A s \in Sides : \A row \in Rosters[s] : {row.primary, row.secondary} \subseteq Colors

Pass(i) == IF i <= 2 THEN 1 ELSE 2
Side(i) == IF i % 2 = 1 THEN "away" ELSE "home"

Decide(side) == decide_for_team(team[side], logo[1][side])
Variant(i) ==
    LET wanted == Decide(Side(i)).variant
    IN  IF Pass(i) = 1 \/ wanted = NoVariant THEN "default" ELSE wanted
Drawn(side) == enforce_logo_contrast(logo[2][side], logo[1][side], Decide(side))

Init ==
    /\ step = 1 /\ sub = "get" /\ bytes = None
    /\ team \in {t \in [Sides -> UNION {Rosters[s] : s \in Sides}] :
                    \A s \in Sides : t[s] \in Rosters[s]}
    /\ cache \in {c \in [Sides -> [Variants -> CachedAtStart \cup {None}]] :
                    \A s \in Sides : c[s][Dark] = None /\ c[s][OnPrimary] = None}
    /\ logo = [p \in 1..2 |-> [s \in Sides |-> None]]
    /\ league = [seam |-> None, variant |-> "default", logo |-> None, decision |-> NoVariant]

-----------------------------------------------------------------------------
(* _load_one_logo: decode what came; what does not decode is replaced by   *)
(* the placeholder, and stays in the cache.                                *)
Decoded(blob) == IF blob = Corrupt THEN Placeholder ELSE blob
Loaded(blob) ==
    /\ logo' = [logo EXCEPT ![Pass(step)][Side(step)] = Decoded(blob)]
    /\ step' = step + 1
    /\ sub' = "get"
    /\ bytes' = None

(* The fallback chain over the advertised hrefs ends at logo_url.          *)
HasUrl(i) ==
    \/ team[Side(i)].variants \cap {Variant(i), Dark, "default"} # {}
    \/ team[Side(i)].hasUrl

GetLogoHit ==
    /\ step \in 1..4 /\ sub = "get"
    /\ cache[Side(step)][Variant(step)] # None
    /\ Loaded(cache[Side(step)][Variant(step)])
    /\ UNCHANGED <<team, cache, league>>

GetLogoMiss ==
    /\ step \in 1..4 /\ sub = "get"
    /\ cache[Side(step)][Variant(step)] = None
    /\ IF HasUrl(step)
       THEN sub' = "fetch" /\ UNCHANGED <<step, bytes, logo>>
       ELSE Loaded(Placeholder)
    /\ UNCHANGED <<team, cache, league>>

FetchLogo ==
    /\ step \in 1..4 /\ sub = "fetch"
    /\ bytes' \in Images \cup {Corrupt}
    /\ sub' = "set"
    /\ UNCHANGED <<step, team, cache, logo, league>>

SetLogo ==
    /\ step \in 1..4 /\ sub = "set"
    /\ cache' = [cache EXCEPT ![Side(step)][Variant(step)] = bytes]
    /\ Loaded(bytes)
    /\ UNCHANGED <<team, league>>

(* Fetching, rasterising or storing raised: the placeholder, not cached.   *)
LoadFails ==
    /\ step \in 1..4 /\ sub \in {"fetch", "set"}
    /\ Loaded(Placeholder)
    /\ UNCHANGED <<team, cache, league>>

-----------------------------------------------------------------------------
(* The seam, the SELECT of leagues.logo_variants (none when it fails), and *)
(* the choice of the league logo's variant.                                *)
SelectLeagueVariant ==
    /\ step = 5
    /\ \E seam \in blend_seam_color(Drawn("away").decision.background,
                                    Drawn("home").decision.background),
          advertised \in LeagueSets \cup {{}} :
          league' = [league EXCEPT !.seam = seam,
                       !.variant = select_league_logo_variant(seam, advertised)]
    /\ step' = 6
    /\ UNCHANGED <<loadVars, team, cache, logo>>

(* load_league_logo: what leaguelogo:<league>:<variant> holds by now, on a *)
(* miss the default, never the network.  Bytes that do not decode are a    *)
(* missing logo, also when the default would decode.                       *)
LeagueBlob(cached) ==
    IF cached[league.variant] # None THEN cached[league.variant] ELSE cached["default"]

LoadLeagueLogo ==
    /\ step = 6
    /\ \E cached \in [{"default", Dark} -> LeagueBlobs] :
          LET image == IF LeagueBlob(cached) = Corrupt THEN None ELSE LeagueBlob(cached)
          IN  league' = [league EXCEPT !.logo = image,
                           !.decision = IF image = None THEN NoVariant
                                        ELSE enforce_league_logo_contrast(
                                                 image, league.seam, league.variant)]
    /\ step' = 7
    /\ UNCHANGED <<loadVars, team, cache, logo>>

Render == GetLogoHit \/ GetLogoMiss \/ FetchLogo \/ SetLogo \/ LoadFails
             \/ SelectLeagueVariant \/ LoadLeagueLogo

-----------------------------------------------------------------------------
(* Others, while the render awaits.                                        *)

(* seed.py rewrites the default logo, with the placeholder when its own    *)
(* fetch fails.                                                            *)
SeedWritesLogo(side) ==
    /\ "seed" \in Disturbances
    /\ \E image \in Images \cup {Placeholder} :
          cache' = [cache EXCEPT ![side]["default"] = image]

(* Another render that missed the same variant stores what it fetched.     *)
OtherRenderStores(side, variant) ==
    /\ "render" \in Disturbances
    /\ cache[side][variant] = None
    /\ \E image \in Images \cup {Corrupt} :
          cache' = [cache EXCEPT ![side][variant] = image]

LogoExpires(side, variant) ==
    /\ "ttl" \in Disturbances
    /\ cache[side][variant] # None
    /\ cache' = [cache EXCEPT ![side][variant] = None]

Disturb ==
    /\ step \in 1..4
    /\ \E side \in Disturbed :
          \/ SeedWritesLogo(side)
          \/ \E variant \in Variants :
                OtherRenderStores(side, variant) \/ LogoExpires(side, variant)
    /\ UNCHANGED <<step, loadVars, team, logo, league>>

Done == step = 7 /\ UNCHANGED vars

Next == Render \/ Disturb \/ Done
Spec == Init /\ [][Next]_vars

-----------------------------------------------------------------------------
Finished == step = 7

(* Every variable stays in its type.                                       *)
TypeOK ==
    /\ step \in 1..7
    /\ sub \in {"get", "fetch", "set"}
    /\ bytes \in Blobs \cup {None}
    /\ cache \in [Sides -> [Variants -> Blobs \cup {None}]]
    /\ logo \in [1..2 -> [Sides -> Images \cup {Placeholder, None}]]
    /\ league.variant \in {"default", Dark}

IsLegible(image, decision) ==
    decision.treatment = "outline" \/ Clears(contrast_ratio(image, decision.background))
SideLegible(side) == IsLegible(Drawn(side).logo, Drawn(side).decision)

(* "This re-check measures the ACTUAL loaded bytes so the caller can       *)
(* guarantee legibility" (render.py, _resolve_variant_logo).  Whatever     *)
(* CDN, Redis and seed do between the passes, the drawn logo contrasts     *)
(* with its background or is outlined, with one exception the code has: no *)
(* variant was asked for, so nothing was measured, and the default logo of *)
(* pass 2 is not the one that pass 1 decided on.                           *)
LegibleUnlessDefaultChanged ==
    Finished => \A side \in Sides :
        SideLegible(side) \/ /\ Decide(side).variant = NoVariant
                             /\ logo[1][side] # logo[2][side]

(* "Fall back to the default logo ONLY if it actually contrasts better":   *)
(* after a variant swap the drawn logo is legible, or no worse on its      *)
(* background than either of the two images at hand.                       *)
SwapNeverMakesItWorse ==
    Finished => \A side \in Sides :
        LET ratio(image) == contrast_ratio(image, Drawn(side).decision.background)
        IN  Decide(side).variant # NoVariant =>
                \/ Clears(ratio(Drawn(side).logo))
                \/ \A p \in 1..2 : AtMost(ratio(logo[p][side]), ratio(Drawn(side).logo))

(* The league logo is legible on the seam, or outlined, also when a miss   *)
(* of the chosen variant made the loader serve the other one.              *)
LeagueLogoIsLegible ==
    Finished /\ league.logo # None => IsLegible(league.logo, league.decision)
=============================================================================
