--------------------------- MODULE ProviderFetch ---------------------------
(***************************************************************************)
(* One call that a seed run makes to a provider (providers/espn.py,        *)
(* providers/mlb.py): the teams of a league, or its shield.                *)
(*                                                                         *)
(* ESPN's teams and the logos of a shield come from one GET each.  MLB's   *)
(* teams come level by level, for the umbrella league one after the other; *)
(* the colours of a level's teams are extracted from their marks by tasks  *)
(* of one asyncio.gather that share a semaphore.  Every mark or logo is    *)
(* downloaded by fetch_logo_bytes: the GET inside the semaphore, up to     *)
(* three times on an HTTP error status and only then, the back-off between *)
(* two of them outside the semaphore.                                      *)
(***************************************************************************)
EXTENDS Integers, FiniteSets, EspnLogos

CONSTANTS
    Calls,       \* what the seed may ask: "espnTeams", "espnShield", "ncaaShield",
                 \* "mlbShield", or a league of MiLB for its teams
    LevelsOf,    \* [leagues of MiLB -> their levels in order]
    Rookie,      \* the level with complex tags
    ListedAt,    \* [levels -> teams that may be listed]
    Active,      \* teams with "active" set
    Untagged,    \* rookie teams of an unknown complex
    SlugOf,      \* [teams -> slugs]
    LogoLists,   \* what ESPN may list for one team or league
    SemSize,     \* espn_semaphore_size
    Nothing

MaxAttempts == 3

VARIABLES
    call,     \* the call being made
    phase,    \* "list", "download", "returned" or "raised"
    level,    \* index of the level
    logos,    \* what ESPN listed
    entries,  \* the teams of the level, active ones only
    task,     \* a download per kept team or wanted logo: [of, at, bad, cause]
    permits,  \* value of the semaphore
    warned,   \* pairs of teams logged as milb_slug_collision
    teams,    \* teams so far: [id, slug, colour, level]
    answer    \* the shield [default, dark, advertised], or Nothing

(* One rookie team without a complex makes none of another level; every    *)
(* league has a level; a logo has a URL.                                   *)
ASSUME ProviderAssumption ==
    /\ SemSize \in Nat
    /\ Nothing \notin {"bytes", "status", "other"}
    /\ Nothing \notin [default : BOOLEAN, dark : BOOLEAN, advertised : BOOLEAN]
    /\ DOMAIN LevelsOf \cap {"espnTeams", "espnShield", "ncaaShield", "mlbShield"} = {}
    /\ \A league \in DOMAIN LevelsOf :
          LevelsOf[league] # <<>> /\ LevelsOf[league] \in Seq(DOMAIN ListedAt)
    /\ \A l \in DOMAIN ListedAt : IsFiniteSet(ListedAt[l])
    /\ \A l \in DOMAIN ListedAt \ {Rookie} : ListedAt[l] \cap Untagged = {}
    /\ LogoLists \subseteq Seq([rel : SUBSET STRING, href : STRING \ {NoUrl}])

listing == <<logos, entries>>
callVars == <<call, phase, level, listing, task, permits, warned, teams, answer>>

-----------------------------------------------------------------------------
IsMlbTeams == call \in DOMAIN LevelsOf
IsEspnShield == call \in {"espnShield", "ncaaShield"}
IsShield == IsEspnShield \/ call = "mlbShield"
Level == LevelsOf[call][level]

TaskPlaces == {"ready", "getting", "backoff", "raster", "done"}
Causes == {"bytes", "status", "other", Nothing}
Getting == {i \in DOMAIN task : task[i].at = "getting"}
AllDone == \A i \in DOMAIN task : task[i].at = "done"
Got(what) == \E i \in DOMAIN task : task[i].of = what /\ task[i].cause = "bytes"

(* The elements of s that are in set, in their order.                      *)
Only(s, set) ==
    LET those[n \in 0..Len(s)] ==
            IF n = 0 THEN <<>>
            ELSE IF s[n] \in set THEN Append(those[n - 1], s[n])
            ELSE those[n - 1]
    IN  those[Len(s)]

CallInit ==
    /\ call \in Calls
    /\ phase = "list"
    /\ level = 1
    /\ logos = <<>>
    /\ entries = <<>>
    /\ task = <<>>
    /\ permits = SemSize
    /\ warned = {}
    /\ teams = <<>>
    /\ answer = Nothing

Downloads(wanted) ==
    [i \in DOMAIN wanted |-> [of |-> wanted[i], at |-> "ready", bad |-> 0, cause |-> Nothing]]

-----------------------------------------------------------------------------
(* Listing.                                                                *)

(* HTTP error, drifted schema, connection lost: for the shield of an ESPN  *)
(* league an error status means an empty list instead.                     *)
ListRaises ==
    /\ phase = "list" /\ call # "mlbShield"
    /\ phase' = "raised"
    /\ UNCHANGED <<call, level, listing, task, permits, warned, teams, answer>>

(* The team is stored with one URL and with its variants; one team stands  *)
(* for all, each is mapped by itself.                                      *)
EspnTeams ==
    /\ phase = "list" /\ call = "espnTeams"
    /\ logos' \in LogoLists
    /\ phase' = "returned"
    /\ UNCHANGED <<call, level, entries, task, permits, warned, teams, answer>>

WantedOf(variants) ==
    IF HasUsableLeagueLogo(variants)
    THEN Only(<<Default, Dark>>, DOMAIN variants)
    ELSE IF call = "ncaaShield" THEN <<Default>> ELSE <<>>

ListEspnShield ==
    /\ phase = "list" /\ IsEspnShield
    /\ logos' \in LogoLists
    /\ task' = Downloads(WantedOf(LogoVariants(logos')))
    /\ phase' = "download"
    /\ UNCHANGED <<call, level, entries, permits, warned, teams, answer>>

ListMlbShield ==
    /\ phase = "list" /\ call = "mlbShield"
    /\ task' = Downloads(<<Default, Dark>>)
    /\ phase' = "download"
    /\ UNCHANGED <<call, level, listing, permits, warned, teams, answer>>

Listings(ids) ==
    {s \in UNION {[1..n -> ids] : n \in 0..Cardinality(ids)} :
        \A i, j \in DOMAIN s : s[i] = s[j] => i = j}

Kept(listed) ==
    IF Level = Rookie THEN Only(listed, ListedAt[Level] \ Untagged) ELSE listed

(* seen_slugs[slug] is the team that had the slug last.                    *)
Collides(kept, i, j) ==
    /\ i < j /\ SlugOf[kept[i]] = SlugOf[kept[j]]
    /\ \A k \in (i + 1)..(j - 1) : SlugOf[kept[k]] # SlugOf[kept[i]]

Collisions(kept) ==
    LET places == {p \in (DOMAIN kept) \X (DOMAIN kept) : Collides(kept, p[1], p[2])}
    IN  {<<kept[p[1]], kept[p[2]]>> : p \in places}

ListMlbTeams ==
    /\ phase = "list" /\ IsMlbTeams
    /\ \E listed \in Listings(ListedAt[Level]) :
          /\ entries' = Only(listed, Active)
          /\ task' = Downloads(Kept(entries'))
          /\ warned' = warned \cup Collisions(Kept(entries'))
    /\ permits' = SemSize
    /\ phase' = "download"
    /\ UNCHANGED <<call, level, logos, teams, answer>>

-----------------------------------------------------------------------------
(* fetch_logo_bytes and what its caller does with the bytes.               *)

(* The logos of a shield are fetched one after the other.                  *)
MayStart(i) == IsShield => \A j \in 1..(i - 1) : task[j].at = "done"

Acquire(i) ==
    /\ task[i].at = "ready" /\ MayStart(i)
    /\ permits > 0
    /\ permits' = permits - 1
    /\ task' = [task EXCEPT ![i].at = "getting"]
    /\ UNCHANGED <<call, phase, level, listing, warned, teams, answer>>

(* MLB's SVG marks are rasterised in a thread.                             *)
GetReturns(i) ==
    /\ i \in Getting
    /\ permits' = permits + 1
    /\ task' = IF IsEspnShield
               THEN [task EXCEPT ![i].at = "done", ![i].cause = "bytes"]
               ELSE [task EXCEPT ![i].at = "raster"]
    /\ UNCHANGED <<call, phase, level, listing, warned, teams, answer>>

(* Mutant: the semaphore is kept during the back-off.                      *)
ErrorKeepsPermit(i) ==
    /\ i \in Getting
    /\ UNCHANGED permits
    /\ task' = IF task[i].bad + 1 < MaxAttempts
               THEN [task EXCEPT ![i].at = "backoff", ![i].bad = @ + 1]
               ELSE [task EXCEPT ![i].at = "done", ![i].bad = @ + 1, ![i].cause = "status"]
    /\ UNCHANGED <<call, phase, level, listing, warned, teams, answer>>

(* HTTPStatusError, whatever the status.                                   *)
GetErrorStatus(i) ==
    /\ i \in Getting
    /\ permits' = permits + 1
    /\ task' = IF task[i].bad + 1 < MaxAttempts
               THEN [task EXCEPT ![i].at = "backoff", ![i].bad = @ + 1]
               ELSE [task EXCEPT ![i].at = "done", ![i].bad = @ + 1, ![i].cause = "status"]
    /\ UNCHANGED <<call, phase, level, listing, warned, teams, answer>>

(* A timeout or a lost connection: no HTTPStatusError, no retry.           *)
GetFails(i) ==
    /\ i \in Getting
    /\ permits' = permits + 1
    /\ task' = [task EXCEPT ![i].at = "done", ![i].cause = "other"]
    /\ UNCHANGED <<call, phase, level, listing, warned, teams, answer>>

BackOffEnds(i) ==
    /\ task[i].at = "backoff"
    /\ task' = [task EXCEPT ![i].at = "ready"]
    /\ UNCHANGED <<call, phase, level, listing, permits, warned, teams, answer>>

(* Rasterising and, for a team, extract_palette succeed or raise.          *)
Rasterise(i) ==
    /\ task[i].at = "raster"
    /\ \E cause \in {"bytes", "other"} :
          task' = [task EXCEPT ![i].at = "done", ![i].cause = cause]
    /\ UNCHANGED <<call, phase, level, listing, permits, warned, teams, answer>>

DownloadStep(i) ==
    \/ Acquire(i) \/ GetReturns(i) \/ GetErrorStatus(i) \/ GetFails(i)
    \/ BackOffEnds(i) \/ Rasterise(i)

-----------------------------------------------------------------------------
(* What is returned.                                                       *)

Colour(i) == IF task[i].cause = "bytes" THEN task[i].of ELSE Nothing

(* Mutant: the colours are zipped with the listed teams, the skipped       *)
(* rookie teams among them.                                                *)
ZippedWithListed ==
    [i \in DOMAIN task |-> [id |-> entries[i], slug |-> SlugOf[entries[i]],
                            colour |-> Colour(i), level |-> level]]

Zipped ==
    LET kept == Kept(entries)
    IN  [i \in DOMAIN task |-> [id |-> kept[i], slug |-> SlugOf[kept[i]],
                                colour |-> Colour(i), level |-> level]]

LevelDone ==
    /\ phase = "download" /\ IsMlbTeams /\ AllDone
    /\ teams' = teams \o Zipped
    /\ task' = <<>>
    /\ entries' = <<>>
    /\ IF level < Len(LevelsOf[call])
       THEN level' = level + 1 /\ phase' = "list"
       ELSE level' = level /\ phase' = "returned"
    /\ UNCHANGED <<call, logos, permits, warned, answer>>

(* Mutant: the URLs of the MiLB marks are advertised in any case.          *)
AdvertisedAnyway ==
    [default |-> Got(Default), dark |-> Got(Dark), advertised |-> TRUE]

Shield ==
    IF call = "mlbShield"
    THEN [default |-> Got(Default), dark |-> Got(Default) /\ Got(Dark),
          advertised |-> Got(Default)]
    ELSE LET variants == LogoVariants(logos)
         IN  [default |-> Got(Default),
              dark |-> Got(Dark),
              advertised |-> \/ Dark \in DOMAIN variants
                             \/ call = "ncaaShield" /\ ~HasUsableLeagueLogo(variants)]

ShieldDone ==
    /\ phase = "download" /\ IsShield /\ AllDone
    /\ answer' = Shield
    /\ phase' = "returned"
    /\ UNCHANGED <<call, level, listing, task, permits, warned, teams>>

CallRests == phase \in {"returned", "raised"} /\ UNCHANGED callVars

CallNext ==
    \/ ListRaises \/ EspnTeams \/ ListEspnShield \/ ListMlbShield \/ ListMlbTeams
    \/ \E i \in DOMAIN task : DownloadStep(i)
    \/ LevelDone \/ ShieldDone
    \/ CallRests

CallSpec == CallInit /\ [][CallNext]_callVars

-----------------------------------------------------------------------------
(* Every variable stays in its type, and no GET is made a fourth time.     *)
CallTypeOK ==
    /\ call \in Calls
    /\ phase \in {"list", "download", "returned", "raised"}
    /\ IsMlbTeams => level \in DOMAIN LevelsOf[call]
    /\ \A i \in DOMAIN task :
          /\ task[i].at \in TaskPlaces /\ task[i].cause \in Causes
          /\ task[i].bad \in 0..MaxAttempts
    /\ permits \in 0..SemSize
    /\ answer \in [default : BOOLEAN, dark : BOOLEAN, advertised : BOOLEAN] \cup {Nothing}

(* espn_semaphore_size bounds the GETs in flight ("defeat                  *)
(* espn_semaphore_size", mlb.py), and no failed or repeated GET keeps its  *)
(* permit: a task that backs off lets another one through.                 *)
PermitsAreReturned == permits + Cardinality(Getting) = SemSize

(* asyncio.gather answers in order whatever order the tasks end in, and    *)
(* "skipped Rookie entries are excluded" everywhere: no team is returned   *)
(* with another one's colours or slug, or returned twice.                  *)
ColoursAreOwn ==
    \A i \in DOMAIN teams :
        /\ teams[i].colour \in {teams[i].id, Nothing}
        /\ teams[i].slug = SlugOf[teams[i].id]
        /\ teams[i].id \notin Untagged
        /\ \A j \in DOMAIN teams :
              teams[i].id = teams[j].id => i = j \/ teams[i].level # teams[j].level

(* A download that is given up had a reason: three answers with an error   *)
(* status, or one failure of another kind, which is not tried again.       *)
GivenUpForAReason ==
    \A i \in DOMAIN task : task[i].at = "done" =>
        CASE task[i].cause = "status" -> task[i].bad = MaxAttempts
          [] OTHER -> task[i].cause # Nothing /\ task[i].bad < MaxAttempts

(* The attempts of a download add up: its permit is back after each, and   *)
(* it makes as many as its answers ask for.                                *)
AttemptsAddUp == PermitsAreReturned /\ GivenUpForAReason

(* Two teams of a level with one slug, the later of which will overwrite   *)
(* the earlier one's row, leave a warning.                                 *)
CollisionsAreWarned ==
    \A i, j \in DOMAIN teams :
        i < j /\ teams[i].slug = teams[j].slug /\ teams[i].level = teams[j].level =>
            \E pair \in warned : pair[2] = teams[j].id

(* What a level returns is what it listed: every team with its own slug    *)
(* and colours, and none that silently takes another one's place.          *)
TeamsAreTheirOwn == ColoursAreOwn /\ CollisionsAreWarned

(* The shields SeedRun lets a provider return are those that come out.     *)
ShieldAsSeedExpects ==
    answer # Nothing =>
        /\ answer.dark => answer.advertised
        /\ call = "mlbShield" => answer.default = answer.advertised

(* The logo the seed stores for a team is the one the loader fetches again *)
(* when it has expired, if ESPN's list is unambiguous.                     *)
LoaderFetchesTheSame ==
    Unambiguous(logos) =>
        LoaderUrl(LogoVariants(logos), SelectLogoUrl(logos), Default) = SelectLogoUrl(logos)
=============================================================================
