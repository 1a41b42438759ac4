# Formal models of matchup-thumbs

TLA+ specifications of the matchup image service in this repository, TLC
configurations that check them on small instances, and TLAPS proofs of all the
safety properties. `PROJECT.json` maps every definition to the lines it models
and lists runs, mutants, findings, hazards and theorems.

Paths below are relative to `src/src/matchup_thumbs/` unless they begin with
another directory of the repository.

## 1. Inventory

| Component | State it keeps | Operations | Interacts with | Hard behaviour | What makes it correct | Module |
|---|---|---|---|---|---|---|
| Image route (`routes/images.py`) | none | resolve league, away, home; render; transform | both resolvers, render pipeline | holds rows across awaits, ends early in six ways | only canonical names reach keys; a miss is a 404; counters and log line are true of the reply | WebWorker |
| League resolver (`resolver.py` 175–378) | Redis `leagueresolve:*`, `leagueresolve_miss:*` | `resolve_league` | Postgres tables the seed writes | stale and unknown entries, shared keys | known leagues only, answers the tables gave | LeagueResolver |
| Team resolver (`resolver.py` 86–167, 386–496) | Redis `resolve:*`, `resolve_miss:*` | `resolve` | same | id cached for days, row changes or goes | league isolation, rows never older than the call | TeamResolver |
| Render pipeline (`render.py` 640–801) | Redis `rendered:*`, `renderlock:*` | `render_pipeline` | two workers, Redis, the composition | lock TTL, crashes, lost replies, waiters | finished image of its own key; lock never leaked or stolen; every request ends | RenderPipeline, ImageService |
| Two-pass composition (`render.py` 255–637) | none of its own | load, decide, load again, enforce | logo loader, contrast engine, league row | cached logos change between passes | legible logos; always completes | RenderAndEncode, Contrast |
| Contrast engine (`contrast.py`) | none | `decide_contrast`, variant choices | composition | ties and thresholds | first legible choice in the documented order | Contrast |
| Logo loader (`assets/loader.py`) | Redis `logo:*` | `_load_one_logo`, `load_league_logo` | CDN, seed | misses, undecodable bytes | placeholder instead of an error | RenderAndEncode, EspnLogos |
| Seed (`seed.py`) | Postgres rows and aliases, Redis `logo:*` | `run` | providers, renders, both resolvers | aborts half way; flush against renders under way | new data takes effect; advertised logos are warm; idempotent | SeedRun |
| Providers and clients (`providers/`, `espn/`, `mlb/`) | semaphore | fetch leagues, teams, logos | remote APIs | retries, tasks that end in any order, partial failures | colours and slugs stay with their teams; permits come back; what a shield advertises was fetched | ProviderFetch, EspnLogos |
| `post_cache_transform` (`render.py` 804–893) | none | clamp, resize, encode | Pillow | sizes at a boundary | same proportions, never larger than native | WebWorker |
| Listing and health routes, middleware, metrics | connection pool, counters, log context | read-only routes, probes | Postgres, Redis | connections on every early way out; hung servers | connections come back; probes answer | WebWorker |
| nginx (`nginx/nginx.conf.template`) | `proxy_cache`, one lock per entry | cache, collapse, limit | image route | a second cache nothing flushes and no redeploy reaches | age bounded over both tiers; both converge | EdgeCache |
| Migrations (`migrations/versions/`) | schema, league and alias rows | upgrade, downgrade | seed, operators, listings | rows in use while going down, hand-made rows going up | leagues of the revision have rows; nothing seeded is lost | Migrations |
| `main.py`, `svg.py`, `generators/`, scripts | none | wiring, conversions, drawing | — | — | — | none, see 7 |

Clients reach nginx, nginx reaches two gunicorn worker processes, and each
worker runs many requests as coroutines. Requests share Postgres and Redis and,
within a worker, the connection pool and the counters. The seed is a separate
process that writes to both stores, and `alembic` a third one. So the
interleavings that matter are those of Redis commands, queries and remote
fetches, and in every module below an action ends where the code awaits one.

The hazards, each at its line, are in `PROJECT.json`; the properties are chosen
for them.

## 2. Modules and how they correspond to the code

**ImageService** is what the render pipeline promises, without cache, lock or
waiting: requests compose, and an answered request holds a finished composition
of *the same picture* (matchup and render version), or fails.

**RenderPipeline** is `render_pipeline`. `pc[r]` is where a request awaits:
cache GET, SET NX, composition, storing, release, polling, degraded
composition, backfill. `lock` and `rendered` are the two Redis keys of a
matchup; the owner token (`uuid4`) is the request's name. `RenderKey` and
`Owns`/`CompareAndDelete` are `_build_render_key` and the Lua script. Faults are
a constant: `redis` (a command raises, or its reply is lost and redis-py sends
SET NX again — `AcquireReplyLost`), `render`, `crash` (a worker dies with all
its requests), `ttl` (a lock's TTL ends, also under its holder), `evict` (an image
leaves Redis, by its TTL or a seed's flush). `Unwind` is the
`finally` of the holder, `PollsOver` the end of `sf_max_wait`.
*composed*, *lapsed* and *struck* are history variables; nothing reads them but
properties, except that an image is named by who composed it.

**LeagueResolver** and **TeamResolver** are `resolve_league` and `resolve`.
Each lookup walks through the GETs, queries and SETs. The tables are variables
that the seed's upserts change in between (`SeedLeague`, `SeedTeam`); a team
row is its version, so "current" can be stated. Trigram similarity is a
constant score, ties are broken any way. `truths` collects what the tables have
ever meant by an input, so that answers can be compared with it. `CallFails` is
any exception of Redis or Postgres. `DeleteTeam` is external: nothing in the
repository deletes a team, but `resolve` evicts ids whose row is gone.

**Contrast** holds the pure functions of the contrast engine and of the checks
in `render.py`. A colour, and the dominant colour of a logo, is its relative
luminance in twentieths: the 0.05 of the WCAG formula is then 1 and ratios are
compared exactly, by cross multiplication. **ContrastCases** applies
`decide_contrast` to every combination of the 21 luminances and compares it with
a reference definition.

**RenderAndEncode** is `_render_and_encode` with `load_assets`,
`_load_one_logo` and `load_league_logo`: pass 1 loads the default logos,
`Decide` is both decisions, pass 2 loads the chosen variants, `Drawn` is what
`_enforce_logo_contrast` makes of them, `SelectLeagueVariant` and
`LoadLeagueLogo` are the league logo. Logo bytes are reduced to "nothing",
"undecodable" or the luminance of the picture. Meanwhile the seed overwrites a
default logo (`SeedWritesLogo`), another render stores what it fetched, and TTLs
end; `Disturbances` and `Disturbed` say which of these an instance has and on
which side. What Redis holds for the league logo is read once, so it is any
value at that moment.

**SeedRun** is `seed.run` beside renders. A run goes league by league (shield,
UPDATE, warming of default and dark, teams, SELECT of the league row) and team
by team (one transaction for row and aliases, then the logo), and ends with
scan and flush; `SeedFails` aborts it anywhere. A render reads a team's row
(`ReadRow`, the image route) and later stores its image (`StoreImage`).
`ProviderChanges` is external: the provider publishes new data.

**EdgeCache** composes the two caches of one matchup: nginx's `proxy_cache`, by
URL, before Redis' `rendered:*`, by render version. A connection misses, waits
for the `proxy_cache_lock`, takes it over or passes it by; the application reads
the row (`ReadRow`), finds or composes and stores the image, and the response
populates nginx's cache unless the kill-switch made it `no-store`. An image is
the row version and render version it was made from and its age; time passes in
days (`Day`), and a request spans at most one midnight. `SeedRow`, `SeedFlush`
and `Redeploy` are what changes underneath: the seed reaches only Redis, a
redeploy only the settings. RenderPipeline's lock and waiting are folded into
one step of the application here.

**WebWorker** is one worker process from the inside: image requests through
their stages (league, away, home, render, transform), listings, and `/readyz`,
over one pool of connections. `AskPool`, `CheckOut`, `QueryReturns`,
`QueryFails`, `PoolTimeout` are `async with pool.connection()`. What the resolvers and
the pipeline answer is any answer their modules allow; the module is about what
is counted, logged and given back on each way out. `Transform` and `SizeOf` are
`post_cache_transform`. `int(h * (w / W))` is the rounded-down quotient, except
that where the quotient is exact the doubles may fall one short of it; for which
native sizes and widths they do is the constant `FallsShort`. MCWebWorker gives it
the value CPython computes for the three native sizes. (A quotient that is not
exact is at least 1/W away from an integer, far more than doubles err on images
within `_MAX_RENDER_PIXELS`.) Postgres and Redis are up, down or hung, and change at
any moment.

**EspnLogos** holds the two ways of choosing among the logos ESPN lists:
`select_logo_url` and `build_logo_variants` for the seed, the loader's own chain
for an expired logo. **ProviderFetch**, which extends it, is one call of the
seed to a provider: listing, then one download per team or logo, each through
`fetch_logo_bytes` with its semaphore and three attempts; for MLB, level by
level of the umbrella league, with `asyncio.gather`, the skipped rookie
entries, `seen_slugs` and the final `zip` (`Zipped`). `Shield` is what
`fetch_league_shield` returns; SeedRun takes its set of shields from there
(`ShieldAsSeedExpects`).

**Migrations** runs the revisions 0001 to 0008 up and down. An `alembic` command
is one step, since `env.py` runs all its revisions in one transaction: it takes
effect or is refused. The statements (`Insert`, `Delete`, `Rename`) are refused
by the constraints of the tables. In between, seed runs fill league, team and
alias rows league by league, also while a migration passes under them, and
operators insert and correct leagues by hand, as the error message of 0007 asks
them to. `SportsListing` and `LeaguesListing` are the queries of
`routes/leagues.py`.

`MC…` modules only give constants their values. Every module with state defines
`TypeOK`, which is the first conjunct of the invariant its proofs rest on.
`…Proofs` modules hold the theorems, see 5.

## 3. Runs

| Run | Instance | Question and result |
|---|---|---|
| RenderCrowd | 3 requests of one picture, 2 workers, 1 poll, crashes, failed commands, lost replies, lapsed locks; fairness | the lock is its holder's until its TTL ends; one holder without a lapse; every request ends, with an image unless its own worker or command failed |
| RenderRedeploy | 4 requests, render versions 5 and 6 side by side, a worker with caching off, an unknown generator, 2 polls, failing compositions and commands, lost replies, crashes | every step is a step of ImageService or a stutter; a lock is left behind only by dead or struck requests; only finished images of a key are cached under it; while no image leaves Redis, a picture somebody has been given is not composed for those who come later |
| LeagueLookups | 2 lookups, a seed run, an unknown league in table and cache, two inputs of one normal form; fairness | answers are known leagues the tables gave; caches end up agreeing with the tables |
| LeagueHyphen | `milb-a`, `milba` and an alias | **violated**: a canonical slug resolves |
| TeamLookups | 2 lookups, 2 known leagues with the same name and an unknown one, seed runs, a deletion; fairness | isolation, currency, truth; caches end up agreeing with the tables |
| ContrastCases | 21³ luminances, 4 variant sets | `decide_contrast` equals its reference, on the threshold and at ties too, and never puts white on a light background |
| LogoPasses | 19 kinds of team, all disturbances, all failures | a logo is illegible only if the default logo changed between the passes; a swap never makes it worse; the league logo is legible or outlined |
| SeedRuns | 2 overlapping runs of 1 and 2 leagues, colliding aliases, a render | every stale image has a cause; advertised logos are warm; reseeding moves no alias |
| EdgeTiers | 2 connections, 1 URL, TTL of 2 days, 2 row versions, 2 render versions, 1 redeploy; fairness | an image in nginx is at most two TTLs old; one of an old render version is gone a TTL after the redeploy; both tiers converge; the kill-switch drains them |
| WorkerRequests | 1 image, 1 listing, 1 probe, 1 connection, 2 queries per name, three native sizes, ten widths; fairness | connections come back; counters and log lines are true; sizes are sane; every request ends once servers answer; every probe ends unless its SELECT 1 hangs |
| ProviderCalls | umbrella of 2 levels with 2 and 3 teams, a rookie level of 4, semaphore of 2, all lists of up to 3 logos of 12 kinds | permits and attempts add up; colours and slugs stay with their teams and collisions are warned of; shields are what the seed expects; seed and loader choose one logo |
| MigrationPaths | all revisions, 5 leagues that may be seeded, 3 hand-made rows | leagues have rows, backfills are right, refusals have a reason, seeded teams survive |

Why the bounds are enough. *Requests*: three let a holder, a second holder
(after a TTL) and a waiter meet; a fourth adds no new role, except the one of
another render version or without caching, which RenderRedeploy gives it.
*MaxPolls* 1 or 2: a first, a further and a last
poll are the only cases the code tells apart. TTLs end and images leave in RenderCrowd only, compositions fail in RenderRedeploy
only: the theorems below cover them together. *Lookups* 2: the code keeps nothing
between calls but the cache entry, so two calls and one seed step reach every
order of read and write. *Upserts* of a team 2: "older" needs two. *Seed runs*
2: one to establish data and one to change or repeat it. *Renders* 1: a render
touches only its own image, and one can read before and store after any step of
both runs. Luminances straddle both thresholds, and each disturbance may strike
any number of times. *Ttl* 2: an entry has a first, a further and a last day,
and with two tiers and a midnight in between ages up to 4 are told apart.
*Connections to nginx* 2: a filler and a waiter that takes over or passes by;
URLs of one matchup meet only in Redis, where they look the same. *Conns* 1 is
the hardest pool: every second user queues. *MaxQueries* 2: a first and a
further query. *SemSize* 2 is below the three downloads of the rookie level,
so tasks wait for a permit. *Listings* are all orders of all subsets of a level's
teams, of which two or three share a slug. *Seedable*: a league that all
revisions know, one of 0005 that stays, the one that 0008 renames under both its
names, and one of 0008. *Strays*: a sport the backfill knows, one it does not,
and a slug that 0008 inserts.

Every run checks deadlock but ContrastCases, whose single step decides a case.
Where a system may rest (`AllEnded`, `Rest`), the resting state is a step of its
own, so that a request stuck half way is found.

## 4. Fairness

Weak fairness of each request's next step (`RequestStep`) and of each lookup's
(`LookupStep`): asyncio runs every ready coroutine, and an awaited call returns
or raises. In the resolvers weak fairness of TTLs: Redis expires keys by time.
RenderPipeline assumes none of the lock's TTL: no request waits for its end. In EdgeCache, of
each begun request and of `Day`. In WebWorker nothing of the kind is assumed of
the servers: a step that awaits Postgres or Redis is enabled only while the
server answers or fails, so a hung one holds its users, and the properties say
for whom that is allowed. There the pool's default timeout of 30 seconds is not
relied on, so that EveryRequestEnds shows the absence of circular waiting; the
probe's own timeouts are, since EveryProbeAnswers is about them. No fairness for
crashes, failures, seed runs, redeploys, deletions or new requests. ProviderFetch
states none: that no call gets stuck is its deadlock check.

`EverySurvivorIsAnswered` excludes a dead worker and the request's own failed
command by its own statement, not by fairness; its instance has no failing
composition, which RenderRedeploy has.

## 5. Proofs

TLC shows each property on one small instance; the theorems below show it for
every value of the constants, from the module's named assumption alone unless
another one is stated. Each `…Proofs` module first proves type correctness, then
one strengthening (the inductive invariant, its name ending in `Inv`) per
property or group of properties: `Init => Inv`, a step lemma with one case per
action, and `Inv => Property`. A strengthening, once proved
inductive, needs no run of its own.

| Module | Theorem: property | What the strengthening says, and why the property needs it |
|---|---|---|
| RenderPipelineProofs | TypeCorrect: TypeOK; HolderKeepsItsLock, Singleflight, NoLockLeaks: the three lock invariants | a request in the locked section owns its key's lock unless it lapsed; a lock's owner is where it will release it, or dead or struck; mutual exclusion follows because a lock has one value |
| | AnsweredOnceComposedOnce: AnsweredIsNotComposedAgain, if images do not leave | `Served`: a request that answered through the cache left or found the image of its key there, unless its own command failed; `FindsImage`: a request that arrives then hits, fails or dies. The property is temporal (`[](P => [](Q))`), and both are its inductive halves |
| | CacheServesItsKey: CachedImageIsComposed | the same of images that requests still hold |
| | PipelineImplementsService: ImplementsService | every step is one of ImageService on `composed`, `answer` and the derived `status`, or leaves them alone; a hit is an `Answer` only by the cache invariant |
| LeagueResolverProofs | AnswersAreKnown: AnswersKnownLeagues | what a lookup holds at each place: nothing before its queries |
| | AnswersWereTrue: AnswerWasTrue, if SelfIsBest | what caches and lookups hold is in `truths` |
| TeamResolverProofs | LeaguesAreIsolated: LeagueIsolation | aliases, cached ids and held rows are of the league of their key |
| | AnswersAreCurrent: AnswerIsCurrent | a held version is at least the one the call began with, and at most the one in the table. An alias never outlives its row (`AliasLive`): without it not even the types are inductive |
| | AnswersWereTrue: AnswerWasTrue, if SelfIsBest | as above |
| RenderAndEncodeProofs | LogosAreLegible, SwapsAreNoWorse, LeagueLogosAreLegible: LegibleUnlessDefaultChanged, SwapNeverMakesItWorse, LeagueLogoIsLegible | every logo loaded so far is a luminance; a loaded league logo has been through the re-check. The rest are lemmas about the operators of Contrast: WCAG ratios compared by cross multiplication, for any threshold |
| | DecisionsAreFirstLegible: ChoosesFirstLegible, if Threshold >= 2 | the chain of choices in `decide_contrast` equals the reference. Below 2 : 1 white clears the bar on backgrounds that count as light, where the white variant is not for |
| SeedRunProofs | ReseedingIsIdempotent: ReseedIsIdempotent | a row that is there has all its aliases owned, by it or an earlier team |
| | StaleImagesHaveACause: StaleImageHasACause | also in the middle of a run: a stale image is late, or a failed run or one that has still to flush it accounts for it; a render that read an old row is overtaken by such a run |
| | SeededLogosHold: SeededLogosAreWarm | what each run has covered so far is warm, league by league and team by team, and stays so |
| | ProviderAttemptsAddUp: AttemptsAddUp | a download that is not given up has failed fewer than three times; permits and GETs in flight make up the size, as cardinalities |
| | ProviderTeamsAreTheirOwn: TeamsAreTheirOwn | the downloads of a level are those of the kept teams in their order; levels that are done precede the one at hand; the last earlier team with the same slug is the one warned about |
| | ProviderShields: ShieldAsSeedExpects; SeedReckonsWithEveryShield | a dark logo is downloaded only if it is listed. The second theorem composes the two modules: whatever ProviderFetch returns is a shield that `FetchShield` of SeedRun chooses from |
| | ProviderLogosComeAgain: LoaderFetchesTheSame | the list comes from ESPN; the rest is a lemma about EspnLogos for lists of any length |
| EdgeCacheProofs | AgesAreBounded: AgeIsBounded | age and remaining stay of an entry add up to a TTL and a day in Redis and to two TTLs and a day in nginx; a request adds the midnight it spans |
| | OldCodeGivesWay: OldCodeIsBounded | Redis keeps a picture under its own render version; the days since the redeploy and the remaining stay of an old picture in nginx add up to a TTL and a day |
| WebWorkerProofs | ConnectionsComeBack: NoConnectionIsKept | a request has a connection exactly while it queries, and it is one connection |
| | TelemetryHolds: TelemetryIsTrue | each counter is the cardinality of a set of requests, told from the stage at which they ended; the context fits the stage |
| | SizesAreSane: SizeIsSane | arithmetic of `int(h * ratio)` with its rounding, for all sizes and wherever the doubles miss an exact quotient: 49 by 49 at width 1 is height 0, a pixel short |
| MigrationsProofs | LeaguesHaveRows, BackfillsHold, RefusalsAreExplained, TeamsSurvive: KnownLeaguesHaveRows, BackfillsAreRight, RefusalsHaveAReason, SeededTeamsSurvive | what tables hold at each revision (`DatabaseOK`): slugs, ids, sports and providers of that revision. One lemma per revision and direction, then induction over the revisions of a command |

`SelfIsBest`: no alias is as similar to an input as the input itself. pg_trgm
nearly guarantees it, but `aaaa` and `aaaaa` have the same trigrams. It is
needed: with such a tie, an alias inserted between the exact and the fuzzy query
lets the fuzzy query find another row, and TLC finds AnswerWasTrue violated. The
instances of the runs satisfy it.

The theorems about ProviderFetch rest on its assumption alone: every league has a
level, the teams of a level are finitely many, logos have URLs, the ways a
download ends are told apart. Its definitions and those of ContrastCases have
names of their own (`CallSpec`, `CaseSpec`), so that SeedRunProofs and
RenderAndEncodeProofs extend both modules whose theorems they hold.

No induction theorem of the library is applied to an operator. `Only`, `UpTo`
and `DownTo` are recursive functions, so the proofs first show that such a
function exists: a smallest argument at which it failed (`SmallestOf`, from
well-foundedness of the naturals) would be preceded by one at which it does not.
The same argument shows what the function computes.

Only model-checked are the liveness properties: EverySurvivorIsAnswered,
CachesCatchUp (both resolvers), CachesConverge,
SwitchedOffDrains, EveryRequestEnds, EveryProbeAnswers. They rest on fairness and
ENABLED, which the prover does not reach. The absence of deadlock is TLC's, too.

## 6. Findings

One statement of the repository is refuted by a run of its own. `resolver.py`
187–190 keeps the hyphens of a slug in the query because otherwise "every
hyphenated league slug … 404s"; the cache keys do not keep them, so a request
for `milba` makes `milb-a` a 404 for five minutes (LeagueHyphen).

Other statements hold with an exception or in a weaker form. The models contain
the behaviour, and the property that is checked says what does hold:

* "only one Pillow composition runs per key" (`render.py` 5): a request whose
  GET comes before the holder's SET and whose SET NX comes after the release
  composes what is already cached. `OneHolder` is the exclusion there is, and
  `AnsweredIsNotComposedAgain` says that it ends with those who were there before
  the first answer.
* The flush is to "make a re-seed take effect immediately" (`seed.py` 416–420):
  a render that read its rows before the seed changed them stores its image
  behind the flush, where it stays for 30 days (`StaleImageHasACause`).
* `render.py` 342–343 says that without a variant the default logo *is* the
  loaded logo; pass 2 loads it again and may get another image
  (`LegibleUnlessDefaultChanged`). The legacy decision, said at 235–237 to be
  the old path, outlines a logo in any case (`Drawn`).
* `assets/loader.py` 216–218 says `load_league_logo` returns `None` only when
  all candidates are misses or do not decode; an undecodable dark logo makes it
  return `None` without trying the default one, as its comment at 267–270
  intends (`LeagueBlob`, `LoadLeagueLogo`).
* The seed and the loader choose a team's logo by two algorithms. On lists with
  a bare `full`, a `default` with further tags, two logos of one key, or two
  dark logos with different further tags and no default one they differ, and the
  picture changes when the cached logo expires. `Unambiguous` is the condition
  under which `LoaderFetchesTheSame` holds; the last case came out of its proof.
* The 30 days of `proxy_cache_valid` mirror `max-age`, but two TTLs follow each
  other: nginx may store on day 30 what Redis gave it (`AgeIsBounded`).
* `routes/health.py` 30 says "no unbounded check": the wait for a connection and
  the PING are bounded, the SELECT 1 is not (`EveryProbeAnswers`).
* `espn/client.py` 228 names 429 and 5xx; the retry covers every error status,
  404 too (`GetErrorStatus`).
* `?w=1` of the 1280 by 720 thumbnail asks for height 0, a 500; `?w=29` of 800
  by 800 gives height 28 (`SizeIsSane`).
* Two teams of *different* levels of the umbrella league with one slug overwrite
  each other without the warning that two of one level get
  (`CollisionsAreWarned`).

## 7. Not modelled

Pixels (`dominant_color`, palette extraction, drawing in `generators/`,
rasterising in `svg.py`) and text normalisation character by character,
including the text of a slug: the models take their results as values. The
format of request ids, the duration histogram, metric labels; that each of the
two gunicorn workers counts for itself (`main.py` 99) and a scrape sees one of
them. nginx's `limit_req`, which answers before anything below happens, and
eviction by size or inactivity, which is an earlier end of an entry. Start-up and
shutdown, which are one `AsyncExitStack`; the compose file and the scripts.

Liveness under a server that hangs for ever is stated for probes only; without
command timeouts in psycopg and redis-py nothing holds for the others.

## 8. Plan

1. *Done.* ImageService, RenderPipeline; both resolvers; Contrast,
   RenderAndEncode; SeedRun; EdgeCache; WebWorker; EspnLogos and ProviderFetch;
   Migrations. Proofs of every safety property of every run.
2. *Next proofs.* More of how the modules fit, where now only their text says
   so: the application's step in EdgeCache as an abstraction of RenderPipeline
   (one composition answered or not); an abstract resolver that reads the tables
   once between call and answer, or answers what they once meant, implemented by
   LeagueResolver and TeamResolver; the team rows that ProviderFetch returns as
   the ones `UpsertTeam` of SeedRun stores.
3. *Next models*, if the code grows: a second worker process beside WebWorker's
   counters, and the rate limit once it depends on anything below it.
