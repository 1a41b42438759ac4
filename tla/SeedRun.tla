------------------------------ MODULE SeedRun ------------------------------
(***************************************************************************)
(* seed.run (seed.py) beside the renders that read what it writes.         *)
(*                                                                         *)
(* A seed works league by league: the shield, the UPDATE of the league and *)
(* its logos in Redis, then team by team one transaction for the row and   *)
(* its aliases and one SET for the logo, and at the very end the deletion  *)
(* of every rendered image.  Nothing undoes a seed that raises or is       *)
(* killed half way, and nothing keeps two of them apart.                   *)
(*                                                                         *)
(* The data of a team is the version the provider listed it in.  A render  *)
(* is the resolve of one team's row and, later, the SET of an image        *)
(* composed from it (RenderPipeline has the lock between the two).         *)
(*                                                                         *)
(* Definitions marked "Mutant" are plausible mistakes that the properties  *)
(* are shown to catch; no specification uses them.                         *)
(***************************************************************************)
EXTENDS Integers, Sequences

CONSTANTS
    Seeds,         \* runs of the seed command
    LeaguesOf,     \* [Seeds -> sequences of leagues]: --leagues
    Leagues,       \* KNOWN_LEAGUES
    LeagueRows,    \* leagues with a row in Postgres
    Teams,         \* [Leagues -> sets of teams]
    Aliases,       \* normalised names
    AliasesOf,     \* [Listed -> SUBSET Aliases]: generate_aliases and extra_aliases
    Renders,       \* image requests
    MaxVersion,    \* bound on the provider's changes
    MayFail,       \* whether a seed may raise or be killed
    Expiring,      \* Redis keys whose TTL may end
    None, Stored

VARIABLES
    offered,     \* version of the data the provider lists now
    seed,        \* [Seeds -> [at, league, fetched, todo, shield, team]]
    advertised,  \* leagues whose logo_variants list a dark logo
    row,         \* teams: version of the row, or None
    owner,       \* team_aliases: team of an alias, or None
    logoKey,     \* Redis logo keys: "cold", "warm" or "expired"
    image,       \* Redis rendered images: [version, by], or None
    render,      \* [Renders -> [team, version], None before, Stored after]
    late         \* history: renders under way when some flush deleted

registry == <<row, owner>>
vars == <<offered, seed, advertised, registry, logoKey, image, render, late>>

Listed == UNION {Teams[l] : l \in Leagues}
LogoKeys == Listed \cup {<<l, v>> : l \in Leagues, v \in {"default", "dark"}}
Shields == [default : BOOLEAN, dark : BOOLEAN, advertised : BOOLEAN]

(* ESPN lists each logo's URL apart from fetching it; MLB's shield, whose  *)
(* URLs are constants, is empty unless the default logo was fetched.       *)
EspnShields == {s \in Shields : s.dark => s.advertised}
MlbShields == {s \in Shields : s.default = s.advertised /\ (s.dark => s.default)}

Ended == {"done", "failed"}
Running(s) == seed[s].at \notin {"idle"} \cup Ended
League(s) == LeaguesOf[s][seed[s].league]
InFlight == {r \in Renders : render[r] \notin {None, Stored}}

ASSUME SeedAssumption ==
    /\ LeaguesOf \in [Seeds -> Seq(STRING \cup Leagues)]
    /\ None \notin Listed \cup Nat \cup {Stored}
    /\ MaxVersion \in Nat \ {0}
    /\ {None, Stored} \cap [team : Listed, version : 1..MaxVersion] = {}
    /\ None \notin [version : 1..MaxVersion, by : Renders]
    /\ AliasesOf \in [Listed -> SUBSET Aliases]

Init ==
    /\ offered = 1
    /\ seed = [s \in Seeds |-> [at |-> "idle", league |-> 1, fetched |-> None,
                                todo |-> {}, shield |-> None, team |-> None]]
    /\ advertised = {}
    /\ row = [t \in Listed |-> None]
    /\ owner = [a \in Aliases |-> None]
    /\ logoKey = [k \in LogoKeys |-> "cold"]
    /\ image = [t \in Listed |-> None]
    /\ render = [r \in Renders |-> None]
    /\ late = {}

-----------------------------------------------------------------------------
At(s, place) == seed[s].at = place
Goto(s, place) == seed' = [seed EXCEPT ![s].at = place]
End(s, place) ==
    seed' = [seed EXCEPT ![s] = [at |-> place, league |-> 1, fetched |-> None,
                                 todo |-> {}, shield |-> None, team |-> None]]
Warm(key) == logoKey' = [logoKey EXCEPT ![key] = "warm"]

(* One unknown slug refuses the run before anything is touched.            *)
Start(s) ==
    /\ At(s, "idle")
    /\ Goto(s, IF \E i \in DOMAIN LeaguesOf[s] : LeaguesOf[s][i] \notin Leagues THEN "failed"
               ELSE IF LeaguesOf[s] = <<>> THEN "scan" ELSE "shield")
    /\ UNCHANGED <<offered, advertised, registry, logoKey, image, render, late>>

(* fetch_league_shield: which bytes came, whether dark is in variant_map.  *)
FetchShield(s) ==
    /\ At(s, "shield")
    /\ \E shield \in EspnShields \cup MlbShields :
          seed' = [seed EXCEPT ![s].at = "update", ![s].shield = shield]
    /\ UNCHANGED <<offered, advertised, registry, logoKey, image, render, late>>

(* UPDATE ... WHERE slug: of no row when the migration has not run.        *)
UpdateLeague(s) ==
    /\ At(s, "update")
    /\ advertised' = IF seed[s].shield.advertised /\ League(s) \in LeagueRows
                     THEN advertised \cup {League(s)}
                     ELSE advertised \ {League(s)}
    /\ Goto(s, "default")
    /\ UNCHANGED <<offered, registry, logoKey, image, render, late>>

(* The fetched bytes, or the placeholder in their stead.                   *)
WarmDefault(s) ==
    /\ At(s, "default")
    /\ Warm(<<League(s), "default">>)
    /\ Goto(s, "dark")
    /\ UNCHANGED <<offered, advertised, registry, image, render, late>>

(* Mutant: dark is warmed only from bytes of its own.                      *)
WarmDarkIfFetched(s) ==
    /\ At(s, "dark")
    /\ IF seed[s].shield.dark THEN Warm(<<League(s), "dark">>) ELSE UNCHANGED logoKey
    /\ seed' = [seed EXCEPT ![s].at = "teams", ![s].shield = None]
    /\ UNCHANGED <<offered, advertised, registry, image, render, late>>

(* Dark bytes, or those of default when dark is advertised all the same.   *)
WarmDark(s) ==
    /\ At(s, "dark")
    /\ IF seed[s].shield.dark \/ seed[s].shield.advertised
       THEN Warm(<<League(s), "dark">>)
       ELSE UNCHANGED logoKey
    /\ seed' = [seed EXCEPT ![s].at = "teams", ![s].shield = None]
    /\ UNCHANGED <<offered, advertised, registry, image, render, late>>

(* provider.fetch_teams.                                                   *)
FetchTeams(s) ==
    /\ At(s, "teams")
    /\ seed' = [seed EXCEPT ![s].at = "league", ![s].fetched = offered,
                            ![s].todo = Teams[League(s)]]
    /\ UNCHANGED <<offered, advertised, registry, logoKey, image, render, late>>

(* The league's id; its aliases follow, see SeedLeague of LeagueResolver.  *)
SelectLeague(s) ==
    /\ At(s, "league")
    /\ Goto(s, IF League(s) \in LeagueRows THEN "upsert" ELSE "failed")
    /\ UNCHANGED <<offered, advertised, registry, logoKey, image, render, late>>

(* Mutant: ON CONFLICT DO UPDATE for the aliases.                          *)
Steals(team, a) == a \in AliasesOf[team]

(* One transaction: INSERT .. ON CONFLICT DO UPDATE of the row, INSERT ..  *)
(* ON CONFLICT DO NOTHING of each alias.                                   *)
Claims(team, a) == a \in AliasesOf[team] /\ owner[a] = None

UpsertTeam(s) ==
    /\ At(s, "upsert")
    /\ \E team \in seed[s].todo :
          /\ row' = [row EXCEPT ![team] = seed[s].fetched]
          /\ owner' = [a \in Aliases |-> IF Claims(team, a) THEN team ELSE owner[a]]
          /\ seed' = [seed EXCEPT ![s].at = "logo", ![s].todo = @ \ {team},
                                  ![s].team = team]
    /\ UNCHANGED <<offered, advertised, logoKey, image, render, late>>

(* _resolve_logo_bytes never raises: the bytes, or the placeholder.        *)
WarmTeam(s) ==
    /\ At(s, "logo")
    /\ Warm(seed[s].team)
    /\ seed' = [seed EXCEPT ![s].at = "upsert", ![s].team = None]
    /\ UNCHANGED <<offered, advertised, registry, image, render, late>>

NextLeague(s) ==
    /\ At(s, "upsert") /\ seed[s].todo = {}
    /\ seed' = [seed EXCEPT ![s] =
                  IF seed[s].league < Len(LeaguesOf[s])
                  THEN [@ EXCEPT !.at = "shield", !.fetched = None, !.league = seed[s].league + 1]
                  ELSE [@ EXCEPT !.at = "scan", !.fetched = None]]
    /\ UNCHANGED <<offered, advertised, registry, logoKey, image, render, late>>

(* Mutant: only the images of the last league are deleted.                 *)
StartScanOfLeague(s) ==
    /\ At(s, "scan")
    /\ seed' = [seed EXCEPT ![s].at = "flush", ![s].todo = Teams[League(s)]]
    /\ UNCHANGED <<offered, advertised, registry, logoKey, image, render, late>>

StartScan(s) ==
    /\ At(s, "scan")
    /\ seed' = [seed EXCEPT ![s].at = "flush", ![s].todo = Listed]
    /\ UNCHANGED <<offered, advertised, registry, logoKey, image, render, late>>

(* SCAN comes by every key that is there all along; a key stored behind    *)
(* the cursor is not seen.                                                 *)
Flush(s) ==
    /\ At(s, "flush")
    /\ \E team \in seed[s].todo :
          /\ image' = [image EXCEPT ![team] = None]
          /\ seed' = [seed EXCEPT ![s].todo = @ \ {team}]
    /\ late' = late \cup InFlight
    /\ UNCHANGED <<offered, advertised, registry, logoKey, render>>

FlushDone(s) ==
    /\ At(s, "flush") /\ seed[s].todo = {}
    /\ End(s, "done")
    /\ UNCHANGED <<offered, advertised, registry, logoKey, image, render, late>>

(* A provider, Redis or Postgres error, or the death of the process.       *)
SeedFails(s) ==
    /\ MayFail /\ Running(s)
    /\ End(s, "failed")
    /\ UNCHANGED <<offered, advertised, registry, logoKey, image, render, late>>

SeedStep(s) ==
    \/ Start(s) \/ FetchShield(s) \/ UpdateLeague(s) \/ WarmDefault(s) \/ WarmDark(s)
    \/ FetchTeams(s) \/ SelectLeague(s) \/ UpsertTeam(s) \/ WarmTeam(s) \/ NextLeague(s)
    \/ StartScan(s) \/ Flush(s) \/ FlushDone(s)

-----------------------------------------------------------------------------
(* The service and the world meanwhile.                                    *)
ReadRow(r) ==
    /\ render[r] = None
    /\ \E team \in Listed :
          /\ row[team] # None /\ image[team] = None
          /\ render' = [render EXCEPT ![r] = [team |-> team, version |-> row[team]]]
    /\ UNCHANGED <<offered, seed, advertised, registry, logoKey, image, late>>

StoreImage(r) ==
    /\ r \in InFlight
    /\ image' = [image EXCEPT ![render[r].team] = [version |-> render[r].version, by |-> r]]
    /\ render' = [render EXCEPT ![r] = Stored]
    /\ UNCHANGED <<offered, seed, advertised, registry, logoKey, late>>

ProviderChanges ==
    /\ offered < MaxVersion
    /\ offered' = offered + 1
    /\ UNCHANGED <<seed, advertised, registry, logoKey, image, render, late>>

LogoExpires(key) ==
    /\ key \in Expiring /\ logoKey[key] = "warm"
    /\ logoKey' = [logoKey EXCEPT ![key] = "expired"]
    /\ UNCHANGED <<offered, seed, advertised, registry, image, render, late>>

ImageExpires(team) ==
    /\ image[team] # None
    /\ image' = [image EXCEPT ![team] = None]
    /\ UNCHANGED <<offered, seed, advertised, registry, logoKey, render, late>>

Rest ==
    /\ \A s \in Seeds : seed[s].at \in Ended
    /\ UNCHANGED vars

Next ==
    \/ \E s \in Seeds : SeedStep(s) \/ SeedFails(s)
    \/ \E r \in Renders : ReadRow(r) \/ StoreImage(r)
    \/ ProviderChanges
    \/ \E key \in LogoKeys : LogoExpires(key)
    \/ \E team \in Listed : ImageExpires(team)
    \/ Rest

Spec == Init /\ [][Next]_vars

-----------------------------------------------------------------------------
Places == {"idle", "shield", "update", "default", "dark", "teams", "league", "upsert",
           "logo", "scan", "flush"} \cup Ended

(* Every variable stays in its type.                                       *)
TypeOK ==
    /\ offered \in 1..MaxVersion
    /\ seed \in [Seeds -> [at : Places, league : Nat \ {0},
                           fetched : 1..MaxVersion \cup {None}, todo : SUBSET Listed,
                           shield : Shields \cup {None}, team : Listed \cup {None}]]
    /\ advertised \subseteq LeagueRows
    /\ row \in [Listed -> 1..MaxVersion \cup {None}]
    /\ owner \in [Aliases -> Listed \cup {None}]
    /\ logoKey \in [LogoKeys -> {"cold", "warm", "expired"}]
    /\ render \in [Renders -> [team : Listed, version : 1..MaxVersion] \cup {None, Stored}]
    /\ image \in [Listed -> [version : 1..MaxVersion, by : Renders] \cup {None}]
    /\ late \subseteq Renders

Quiet == \A s \in Seeds : ~Running(s)
Stale(team) == image[team] # None /\ image[team].version # row[team]

(* "Clearing them here makes a re-seed take effect immediately" (seed.py), *)
(* with one exception: between runs, an image of old data is one that a    *)
(* render under way stored behind the flush, or some run failed before its *)
(* flush.                                                                  *)
StaleImageHasACause ==
    Quiet => \A team \in Listed :
        Stale(team) => image[team].by \in late \/ \E s \in Seeds : At(s, "failed")

(* When every run started is done, each listed team of its leagues has its *)
(* default logo in Redis, and so has each league every variant that        *)
(* Postgres advertises for it, as long as no TTL ended.                    *)
SeededLogosAreWarm ==
    (\A s \in Seeds : seed[s].at \in {"idle", "done"}) =>
        \A s \in Seeds : At(s, "done") => \A i \in DOMAIN LeaguesOf[s] :
            LET league == LeaguesOf[s][i]
            IN  /\ \A team \in Teams[league] : logoKey[team] # "cold"
                /\ logoKey[<<league, "default">>] # "cold"
                /\ league \in advertised => logoKey[<<league, "dark">>] # "cold"

(* Re-seeding is idempotent (README.md): a run that leaves every row as it *)
(* is leaves every alias with the team it had, also when teams collide on  *)
(* an alias and another run is under way.                                  *)
ReseedIsIdempotent == [][row' = row => owner' = owner]_registry
=============================================================================
