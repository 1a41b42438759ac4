----------------------------- MODULE Migrations -----------------------------
(***************************************************************************)
(* The migrations 0001 to 0008 over a database that seed runs fill and     *)
(* that operators touch, and the listings the service reads from it.       *)
(*                                                                         *)
(* `alembic upgrade` and `downgrade` run every revision between here and   *)
(* there in one transaction (env.py), so that an error or a crash leaves   *)
(* nothing behind: the command is one step, which either takes effect or   *)
(* is refused.  Of the tables, the columns that a migration or a listing   *)
(* reads are kept.  A row of `leagues` is identified by the slug it was    *)
(* inserted with; a row deleted and inserted again counts as the same.     *)
(*                                                                         *)
(* A seed run is that of the code of the day, which knows the leagues of   *)
(* its revision.                                                           *)
(***************************************************************************)
EXTENDS Naturals, FiniteSets

CONSTANTS
    Seedable,    \* slugs that some seed run names: bounds what is seeded
    Aliased,     \* slugs with an entry in _LEAGUE_ALIASES
    Strays,      \* [slug, sport] of rows that operators insert by hand
    Null         \* SQL's

Sports == {"baseball", "basketball", "football", "hockey"}
Espn == {"nba", "nfl", "mlb", "nhl", "ncaaf", "ncaab"}
Affiliates == {"milb-aaa", "milb-aa", "milb-high-a", "milb-single-a"}
Newest == {"milb", "milb-winter", "milb-independent"}
Head == 8

SportOf(slug) ==
    CASE slug \in {"nba", "ncaab"} -> "basketball" [] slug \in {"nfl", "ncaaf"} -> "football"
      [] slug = "nhl" -> "hockey" [] OTHER -> "baseball"

(* What an operator adds by hand is no league that a seed run names.       *)
ASSUME MigrationAssumption ==
    /\ Null \notin 0..Head
    /\ {stray.slug : stray \in Strays} \cap (Seedable \cup {"milb-single-a"}) = {}

VARIABLES
    db,      \* [rev, leagues, teams, aliases]
    seed,    \* the seed run: the league id it has selected, or Null
    last     \* the last command: [from, to, done]

vars == <<db, seed, last>>

(* leagues: [id, slug, sport, sportId]; sportId is Null without a column.  *)
(* teams: [league, provider]; provider is Null without a column.           *)
(* aliases: the leagues with rows in league_aliases.                       *)
Slugs(d) == {l.slug : l \in d.leagues}
Ids(d) == {l.id : l \in d.leagues}
Referenced(d) == {t.league : t \in d.teams} \cup d.aliases

Refused == [rev |-> Null]

Empty == [rev |-> 0, leagues |-> {}, teams |-> {}, aliases |-> {}]

Init ==
    /\ db = Empty
    /\ seed = Null
    /\ last = [from |-> 0, to |-> 0, done |-> TRUE]

-----------------------------------------------------------------------------
(* Statements.                                                             *)

(* UNIQUE (slug); sport_id is a column from 0007 on.                       *)
Insert(d, slugs) ==
    IF slugs \cap Slugs(d) # {} THEN Refused
    ELSE [d EXCEPT !.leagues = @ \cup {[id |-> s, slug |-> s, sport |-> SportOf(s),
                                        sportId |-> IF d.rev >= 7 THEN SportOf(s)
                                                   ELSE Null] : s \in slugs}]

(* Mutant: ON DELETE CASCADE.                                              *)
DeleteCascading(d, slugs) ==
    LET gone == {l \in d.leagues : l.slug \in slugs}
        ids == {l.id : l \in gone}
    IN  [d EXCEPT !.leagues = @ \ gone, !.aliases = @ \ ids,
                  !.teams = {t \in @ : t.league \notin ids}]

(* The foreign keys of teams, team_aliases and league_aliases refuse it.   *)
Delete(d, slugs) ==
    LET gone == {l \in d.leagues : l.slug \in slugs}
    IN  IF {l.id : l \in gone} \cap Referenced(d) # {} THEN Refused
        ELSE [d EXCEPT !.leagues = @ \ gone]

(* Mutant: the renamed league is a new row.                                *)
RenameByInsert(d, old, new) ==
    LET was == Delete(d, {old})
    IN  IF was = Refused THEN Refused
        ELSE IF old \notin Slugs(d) THEN d
        ELSE [was EXCEPT !.leagues = @ \cup
                {[id |-> new, slug |-> new, sport |-> l.sport, sportId |-> l.sportId] :
                    l \in {k \in d.leagues : k.slug = old}}]

Rename(d, old, new) ==
    IF old \in Slugs(d) /\ new \in Slugs(d) THEN Refused
    ELSE [d EXCEPT !.leagues = {IF l.slug = old THEN [l EXCEPT !.slug = new] ELSE l : l \in @}]

SetProvider(d, provider) ==
    [d EXCEPT !.teams = {[t EXCEPT !.provider = provider] : t \in @}]

-----------------------------------------------------------------------------
(* Revisions.  0002 and 0003 add columns that nothing here reads.          *)

(* 0007: sports, the backfill of sport_id, the guard before NOT NULL.      *)
Backfilled(d) ==
    IF \E l \in d.leagues : l.sport \notin Sports THEN Refused
    ELSE [d EXCEPT !.leagues = {[l EXCEPT !.sportId = l.sport] : l \in @}]

Upgraded(d, rev) ==
    CASE rev = 1 -> Insert(d, Espn)
      [] rev = 4 -> SetProvider(d, "espn")
      [] rev = 5 -> Insert(d, Affiliates)
      [] rev = 6 -> Insert(d, {"milb-rookie"})
      [] rev = 7 -> Backfilled(d)
      [] rev = 8 -> LET renamed == Rename(d, "milb-single-a", "milb-a")
                    IN  IF renamed = Refused THEN Refused ELSE Insert(renamed, Newest)
      [] OTHER -> d

(* Mutant: the slug of 0008 stays.                                         *)
RevertedKeepingSlug(d) == Delete(d, Newest)

Reverted8(d) ==
    LET deleted == Delete(d, Newest)
    IN  IF deleted = Refused THEN Refused ELSE Rename(deleted, "milb-a", "milb-single-a")

(* Mutant: the rows of 0005 stay.                                          *)
KeepAffiliates(d) == d

Reverted5(d) == Delete(d, Affiliates)

Downgraded(d, rev) ==
    CASE rev = 8 -> Reverted8(d)
      [] rev = 7 -> [d EXCEPT !.aliases = {},
                              !.leagues = {[l EXCEPT !.sportId = Null] : l \in @}]
      [] rev = 6 -> Delete(d, {"milb-rookie"})
      [] rev = 5 -> Reverted5(d)
      [] rev = 4 -> SetProvider(d, Null)
      [] rev = 1 -> Empty
      [] OTHER -> d

At(d, rev) == IF d = Refused THEN Refused ELSE [d EXCEPT !.rev = rev]

UpTo(target) ==
    LET after[rev \in db.rev..target] ==
            IF rev = db.rev THEN db
            ELSE IF after[rev - 1] = Refused THEN Refused
            ELSE At(Upgraded(after[rev - 1], rev), rev)
    IN  after[target]

DownTo(target) ==
    LET after[rev \in target..db.rev] ==
            IF rev = db.rev THEN db
            ELSE IF after[rev + 1] = Refused THEN Refused
            ELSE At(Downgraded(after[rev + 1], rev + 1), rev)
    IN  after[target]

Take(target, result) ==
    /\ db' = IF result = Refused THEN db ELSE result
    /\ last' = [from |-> db.rev, to |-> target, done |-> result # Refused]
    /\ UNCHANGED seed

Upgrade(target) == target > db.rev /\ Take(target, UpTo(target))
Downgrade(target) == target < db.rev /\ Take(target, DownTo(target))

-----------------------------------------------------------------------------
(* A seed run, league by league.                                           *)

Provider(slug) == IF slug \in Espn THEN "espn" ELSE "mlb"
ProviderColumn(slug) == IF db.rev >= 4 THEN Provider(slug) ELSE Null

(* UPDATE leagues sets sport_id from sport; SELECT id; the league's alias  *)
(* rows, since 0007.  Without a row for the league the run is over.        *)
SeedLeague(slug) ==
    /\ seed = Null
    /\ \E l \in db.leagues :
          /\ l.slug = slug
          /\ db.rev >= 7 => l.sport \in Sports
          /\ seed' = l.id
          /\ db' = IF db.rev < 7 THEN db
                   ELSE [db EXCEPT !.leagues = (@ \ {l}) \cup {[l EXCEPT !.sportId = l.sport]},
                                   !.aliases = IF slug \in Aliased THEN @ \cup {l.id} ELSE @]
    /\ UNCHANGED last

(* INSERT of a team under the id, which may refer to no row any more.      *)
SeedTeam ==
    /\ seed # Null
    /\ db' = IF seed \notin Ids(db) THEN db
             ELSE [db EXCEPT !.teams =
                     {t \in @ : t.league # seed}
                     \cup {[league |-> seed, provider |-> ProviderColumn(seed)]}]
    /\ UNCHANGED <<seed, last>>

SeedEnds ==
    /\ seed # Null
    /\ seed' = Null
    /\ UNCHANGED <<db, last>>

(* An operator adds a league, or corrects its sport as the guard of 0007   *)
(* asks ("Add missing slug -> sport mapping in leagues.sport").            *)
AddByHand(stray) ==
    /\ db.rev \in 1..6
    /\ stray.slug \notin Slugs(db)
    /\ db' = [db EXCEPT !.leagues = @ \cup {[id |-> stray.slug, slug |-> stray.slug,
                                             sport |-> stray.sport, sportId |-> Null]}]
    /\ UNCHANGED <<seed, last>>

CorrectByHand(l) ==
    /\ l.sport \notin Sports
    /\ \E sport \in Sports :
          db' = [db EXCEPT !.leagues = (@ \ {l}) \cup {[l EXCEPT !.sport = sport]}]
    /\ UNCHANGED <<seed, last>>

Next ==
    \/ \E rev \in 0..Head : Upgrade(rev) \/ Downgrade(rev)
    \/ \E slug \in Seedable : SeedLeague(slug)
    \/ SeedTeam
    \/ SeedEnds
    \/ \E stray \in Strays : AddByHand(stray)
    \/ \E l \in db.leagues : CorrectByHand(l)

Spec == Init /\ [][Next]_vars

-----------------------------------------------------------------------------
(* routes/leagues.py: sports LEFT JOIN leagues, and leagues JOIN sports.   *)

SportsListing ==
    [s \in Sports |-> {l.slug : l \in {k \in db.leagues : k.sportId = s}}]

LeaguesListing ==
    {[slug |-> l.slug, sport |-> l.sportId] : l \in {k \in db.leagues : k.sportId \in Sports}}

-----------------------------------------------------------------------------
(* Every variable stays in its type, and the columns are there from their  *)
(* revision on.                                                            *)
TypeOK ==
    /\ db.rev \in 0..Head
    /\ \A l \in db.leagues :
          IF db.rev >= 7 THEN l.sportId \in Sports ELSE l.sportId = Null
    /\ \A t \in db.teams :
          IF db.rev >= 4 THEN t.provider \in {"espn", "mlb"} ELSE t.provider = Null
    /\ db.rev < 7 => db.aliases = {}
    /\ last.from \in 0..Head /\ last.to \in 0..Head /\ last.done \in BOOLEAN

LeaguesAt(rev) ==
    (IF rev >= 1 THEN Espn ELSE {})
    \cup (IF rev >= 8 THEN (Affiliates \ {"milb-single-a"}) \cup {"milb-a"}
          ELSE IF rev >= 5 THEN Affiliates ELSE {})
    \cup (IF rev >= 6 THEN {"milb-rookie"} ELSE {})
    \cup (IF rev >= 8 THEN Newest ELSE {})

(* Whatever way a revision is reached, up or down, the leagues that the    *)
(* code of that revision seeds have their rows ("Run migrations before     *)
(* seeding").                                                              *)
KnownLeaguesHaveRows == LeaguesAt(db.rev) \subseteq Slugs(db)

(* The server_default of 0004 calls every team there is one of ESPN's:     *)
(* right, because no MiLB team is there when it runs, not even after a     *)
(* downgrade.                                                              *)
ProviderIsRight ==
    db.rev >= 4 => \A t \in db.teams : t.provider = Provider(t.league)

(* The listings of sports and of leagues show the same leagues, all of     *)
(* them, and each under the sport that its text column says.               *)
ListingsAgree ==
    db.rev >= 7 =>
        /\ \A l \in db.leagues :
              /\ l.slug \in SportsListing[l.sport]
              /\ [slug |-> l.slug, sport |-> l.sport] \in LeaguesListing
        /\ \A e \in LeaguesListing : e.slug \in SportsListing[e.sport]

(* What 0004 and 0007 add to rows that were there before is right.         *)
BackfillsAreRight == ProviderIsRight /\ ListingsAgree

(* An upgrade is refused only on account of a row that somebody inserted   *)
(* by hand; a downgrade only for a league that has been seeded.            *)
HandMade(l) == \E stray \in Strays : l.slug = stray.slug

RefusedForAReason ==
    ~last'.done /\ last'.from # last'.to =>
        IF last'.from < last'.to THEN \E l \in db.leagues : HandMade(l)
        ELSE \E l \in db.leagues : l.id \in Referenced(db) /\ l.slug \notin Espn

RefusalsHaveAReason == [][RefusedForAReason]_last

(* "FK children survive" (0008): short of a downgrade to base, no          *)
(* migration loses a seeded team or the league row it refers to, and none  *)
(* leaves an alias of no league.                                           *)
SeededTeamsSurvive ==
    [][db'.rev > 0 =>
         /\ {t.league : t \in db.teams} \subseteq {t.league : t \in db'.teams}
         /\ Referenced(db') \subseteq Ids(db')]_db
=============================================================================
