-------------------------- MODULE MigrationsProofs --------------------------
(***************************************************************************)
(* Theorems about Migrations: for every set of leagues that are seeded,    *)
(* have aliases or are added by hand.                                      *)
(*                                                                         *)
(* A command runs its revisions one by one (UpTo, DownTo), so that what    *)
(* holds of its result is shown by induction over them.  Each revision is  *)
(* shown to keep DatabaseOK, which says of a database all that the next    *)
(* one, up or down, relies on.                                             *)
(***************************************************************************)
EXTENDS Migrations, TLAPS, WellFoundedInduction

StraySlugs == {stray.slug : stray \in Strays}

(* A row of leagues at revision rev: known to it or added by hand, known   *)
(* by its first slug, and with the sport its text column says since 0007.  *)
RowOK(rev, l) ==
    /\ l = [id |-> l.id, slug |-> l.slug, sport |-> l.sport, sportId |-> l.sportId]
    /\ l.slug \in LeaguesAt(rev) \cup StraySlugs
    /\ l.slug \notin StraySlugs => l.sport \in Sports
    /\ l.id = IF rev = 8 /\ l.slug = "milb-a" THEN "milb-single-a" ELSE l.slug
    /\ IF rev >= 7 THEN l.sportId = l.sport /\ l.sport \in Sports ELSE l.sportId = Null

RowsOK(rev, rows) ==
    /\ LeaguesAt(rev) \subseteq {l.slug : l \in rows}
    /\ \A l \in rows : RowOK(rev, l)
    /\ \A l, k \in rows : l.slug = k.slug => l = k
    /\ rev = 8 => \A l \in rows : l.slug # "milb-single-a"

(* Teams are of leagues that are seeded, and before 0005 of ESPN's.        *)
SeededIds == Seedable \cup {"milb-single-a"}

TeamsOK(rev, teams) ==
    \A t \in teams :
        /\ t = [league |-> t.league, provider |-> t.provider]
        /\ t.league \in SeededIds
        /\ t.provider = IF rev >= 4 THEN Provider(t.league) ELSE Null
        /\ rev < 5 => t.league \in Espn

DatabaseOK(d) ==
    /\ d.rev \in 0..Head
    /\ d = [rev |-> d.rev, leagues |-> d.leagues, teams |-> d.teams, aliases |-> d.aliases]
    /\ RowsOK(d.rev, d.leagues)
    /\ TeamsOK(d.rev, d.teams)
    /\ Referenced(d) \subseteq Ids(d)
    /\ d.rev < 7 => d.aliases = {}

SeedOK == seed # Null => seed \in SeededIds

MigrationInv ==
    /\ DatabaseOK(db)
    /\ SeedOK
    /\ last = [from |-> last.from, to |-> last.to, done |-> last.done]
    /\ last.from \in 0..Head /\ last.to \in 0..Head /\ last.done \in BOOLEAN

(* What can be in the way of an upgrade, and of a downgrade.               *)
Strange(d) == \E l \in d.leagues : l.slug \notin LeaguesAt(d.rev) \/ l.sport \notin Sports
InUse(d) == \E l \in d.leagues : l.id \in Referenced(d) /\ l.slug \notin Espn

TeamLeagues(d) == {t.league : t \in d.teams}

-----------------------------------------------------------------------------
(* Induction: of a set of naturals that is not empty one is the smallest.  *)
LEMMA SmallestOf ==
    ASSUME NEW T, T \subseteq Nat, T # {}
    PROVE  \E m \in T : \A n \in T : m <= n
<1> DEFINE less == OpToRel(<, Nat)
<1>1. PICK x \in T : \A y \in T : ~(<<y, x>> \in less)
  <2>1. IsWellFoundedOn(less, Nat)
    BY NatLessThanWellFounded
  <2> HIDE DEF less
  <2> QED BY <2>1, WFMin
<1>2. \A y \in T : x <= y
  <2> SUFFICES ASSUME NEW y \in T, y < x PROVE FALSE
    OBVIOUS
  <2>1. <<y, x>> \in less
    BY DEF OpToRel
  <2> QED BY <1>1, <2>1
<1> QED BY <1>2

-----------------------------------------------------------------------------
(* Induction over revisions.                                               *)

(* after is the chain of databases that the revisions a + 1 to b make of d.*)
Climbs(after, d, a, b) ==
    after = [rev \in a..b |->
               IF rev = a THEN d
               ELSE IF after[rev - 1] = Refused THEN Refused
               ELSE At(Upgraded(after[rev - 1], rev), rev)]

(* There is one, and so the recursion in UpTo is sound.                    *)
LEMMA UpExists ==
    ASSUME NEW d, NEW a \in Nat, NEW n \in Nat
    PROVE  \E f : Climbs(f, d, a, a + n)
<1> DEFINE Step(e, rev) == IF e = Refused THEN Refused ELSE At(Upgraded(e, rev), rev)
           Is(f, m) == f = [rev \in a..(a + m) |-> IF rev = a THEN d ELSE Step(f[rev - 1], rev)]
           T == {m \in Nat : ~ \E f : Is(f, m)}
<1>1. T = {}
  <2> SUFFICES ASSUME T # {} PROVE FALSE
    OBVIOUS
  <2>1. PICK m \in T : \A k \in T : m <= k
    BY SmallestOf
  <2>2. CASE m = 0
    <3>1. Is([rev \in a..(a + 0) |-> d], 0)
      OBVIOUS
    <3> QED BY <2>1, <2>2, <3>1
  <2>3. CASE m # 0
    <3>1. m - 1 \in Nat /\ m - 1 \notin T
      <4>1. m \in Nat /\ m - 1 \in Nat /\ ~(m <= m - 1)
        BY <2>3
      <4> HIDE DEF T
      <4> QED BY <2>1, <4>1
    <3>2. PICK g : Is(g, m - 1)
      BY <3>1
    <3> DEFINE f == [rev \in a..(a + m) |-> IF rev = a + m THEN Step(g[rev - 1], rev) ELSE g[rev]]
    <3> HIDE DEF Step
    <3>3. \A rev \in a..(a + m) : f[rev] = IF rev = a THEN d ELSE Step(f[rev - 1], rev)
      <4> SUFFICES ASSUME NEW rev \in a..(a + m)
                   PROVE  f[rev] = IF rev = a THEN d ELSE Step(f[rev - 1], rev)
        OBVIOUS
      <4>1. CASE rev = a + m
        BY <2>3, <3>1, <4>1
      <4>2. CASE rev # a + m
        BY <2>3, <3>1, <3>2, <4>2
      <4> QED BY <4>1, <4>2
    <3>4. Is(f, m)
      BY <3>3
    <3> QED BY <2>1, <3>4
  <2> QED BY <2>2, <2>3
<1>2. \E f : Is(f, n)
  BY <1>1
<1> QED BY <1>2 DEF Climbs

(* UpTo runs such a chain.                                                 *)
LEMMA UpIs ==
    ASSUME NEW target \in Nat, db.rev \in Nat, target >= db.rev
    PROVE  \E f : Climbs(f, db, db.rev, target) /\ UpTo(target) = f[target]
<1> DEFINE P(f) == Climbs(f, db, db.rev, target)
<1>1. \E f : P(f)
  <2> DEFINE n == target - db.rev
  <2>1. n \in Nat /\ target = db.rev + n
    OBVIOUS
  <2> HIDE DEF n
  <2>2. \E f : Climbs(f, db, db.rev, db.rev + n)
    BY <2>1, UpExists
  <2> QED BY <2>1, <2>2
<1>2. UpTo(target) = (CHOOSE f : P(f))[target]
  BY DEF UpTo, Climbs
<1> QED BY <1>1, <1>2

(* The same on the way down.                                               *)
Descends(after, d, a, b) ==
    after = [rev \in b..a |->
               IF rev = a THEN d
               ELSE IF after[rev + 1] = Refused THEN Refused
               ELSE At(Downgraded(after[rev + 1], rev + 1), rev)]

(* There is such a function for every way down, by induction over its      *)
(* length.                                                                 *)
LEMMA DownExists ==
    ASSUME NEW d, NEW b \in Nat, NEW n \in Nat
    PROVE  \E f : Descends(f, d, b + n, b)
<1> DEFINE a == b + n
           Step(e, rev) == IF e = Refused THEN Refused ELSE At(Downgraded(e, rev + 1), rev)
           Is(f, m) == f = [rev \in (a - m)..a |-> IF rev = a THEN d ELSE Step(f[rev + 1], rev)]
           T == {m \in Nat : ~ \E f : Is(f, m)}
<1>0. a \in Nat
  OBVIOUS
<1> HIDE DEF a
<1>1. T = {}
  <2> SUFFICES ASSUME T # {} PROVE FALSE
    OBVIOUS
  <2>1. PICK m \in T : \A k \in T : m <= k
    BY SmallestOf
  <2>2. CASE m = 0
    <3>1. Is([rev \in (a - 0)..a |-> d], 0)
      BY <1>0
    <3> QED BY <2>1, <2>2, <3>1
  <2>3. CASE m # 0
    <3>1. m - 1 \in Nat /\ m - 1 \notin T
      <4>1. m \in Nat /\ m - 1 \in Nat /\ ~(m <= m - 1)
        BY <2>3
      <4> HIDE DEF T
      <4> QED BY <2>1, <4>1
    <3>2. PICK g : Is(g, m - 1)
      BY <3>1
    <3> DEFINE f == [rev \in (a - m)..a |-> IF rev = a - m THEN Step(g[rev + 1], rev) ELSE g[rev]]
    <3> HIDE DEF Step
    <3>3. \A rev \in (a - m)..a : f[rev] = IF rev = a THEN d ELSE Step(f[rev + 1], rev)
      <4> SUFFICES ASSUME NEW rev \in (a - m)..a
                   PROVE  f[rev] = IF rev = a THEN d ELSE Step(f[rev + 1], rev)
        OBVIOUS
      <4>1. CASE rev = a - m
        BY <1>0, <2>3, <3>1, <4>1
      <4>2. CASE rev # a - m
        BY <1>0, <2>3, <3>1, <3>2, <4>2
      <4> QED BY <4>1, <4>2
    <3>4. Is(f, m)
      BY <3>3
    <3> QED BY <2>1, <3>4
  <2> QED BY <2>2, <2>3
<1>2. \E f : Is(f, n)
  BY <1>1
<1>3. a - n = b /\ a = b + n
  BY DEF a
<1> HIDE DEF Step
<1>4. \E f : f = [rev \in b..a |-> IF rev = a THEN d ELSE Step(f[rev + 1], rev)]
  BY <1>2, <1>3
<1> QED BY <1>3, <1>4 DEF Descends, Step

(* So DownTo is the end of the way down to its target.                     *)
LEMMA DownIs ==
    ASSUME NEW target \in Nat, db.rev \in Nat, target <= db.rev
    PROVE  \E f : Descends(f, db, db.rev, target) /\ DownTo(target) = f[target]
<1> DEFINE P(f) == Descends(f, db, db.rev, target)
<1>1. \E f : P(f)
  <2> DEFINE n == db.rev - target
  <2>1. n \in Nat /\ db.rev = target + n
    OBVIOUS
  <2> HIDE DEF n
  <2>2. \E f : Descends(f, db, target + n, target)
    BY <2>1, DownExists
  <2> QED BY <2>1, <2>2
<1>2. DownTo(target) = (CHOOSE f : P(f))[target]
  BY DEF DownTo, Descends
<1> QED BY <1>1, <1>2

-----------------------------------------------------------------------------
(* What each revision makes of the rows of leagues.                        *)

NewRows(rev, slugs) ==
    {[id |-> s, slug |-> s, sport |-> SportOf(s),
      sportId |-> IF rev >= 7 THEN SportOf(s) ELSE Null] : s \in slugs}

LEMMA SportsAreKnown == \A s : SportOf(s) \in Sports
BY DEF SportOf, Sports

(* Names written out: what the revisions do to the set of leagues.         *)
LEMMA LeaguesOfRevisions ==
    /\ LeaguesAt(0) = {} /\ LeaguesAt(1) = Espn /\ LeaguesAt(2) = Espn /\ LeaguesAt(3) = Espn
    /\ LeaguesAt(4) = Espn /\ LeaguesAt(5) = Espn \cup Affiliates
    /\ LeaguesAt(6) = LeaguesAt(5) \cup {"milb-rookie"} /\ LeaguesAt(7) = LeaguesAt(6)
    /\ LeaguesAt(8) = (LeaguesAt(7) \ {"milb-single-a"}) \cup {"milb-a"} \cup Newest
    /\ Newest \cap (LeaguesAt(7) \cup {"milb-a"}) = {}
    /\ Affiliates \cap Espn = {} /\ "milb-rookie" \notin LeaguesAt(5)
    /\ "milb-single-a" \in LeaguesAt(7) /\ "milb-a" \notin LeaguesAt(7) \cup Espn
    /\ Newest \cap Espn = {} /\ "milb-rookie" \notin Espn /\ "milb-single-a" \notin Espn
BY DEF LeaguesAt, Espn, Affiliates, Newest

(* Rows inserted under free slugs: 0001, 0005, 0006.                       *)
LEMMA RowsInserted ==
    ASSUME NEW rev \in 1..6, NEW rows, RowsOK(rev - 1, rows),
           NEW slugs, slugs \cap {l.slug : l \in rows} = {},
           LeaguesAt(rev) = LeaguesAt(rev - 1) \cup slugs
    PROVE  RowsOK(rev, rows \cup NewRows(rev - 1, slugs))
<1> DEFINE new == NewRows(rev - 1, slugs)
<1>1. /\ \A l \in new :
            /\ l = [id |-> l.slug, slug |-> l.slug, sport |-> l.sport, sportId |-> Null]
            /\ l.slug \in slugs /\ l.sport = SportOf(l.slug) /\ l.sport \in Sports
      /\ \A l, k \in new : l.slug = k.slug => l = k
  <2>1. ASSUME NEW l \in new
        PROVE  \E t \in slugs :
                  l = [id |-> t, slug |-> t, sport |-> SportOf(t), sportId |-> Null]
    <3>1. ~(rev - 1 >= 7)
      OBVIOUS
    <3>2. PICK t \in slugs :
             l = [id |-> t, slug |-> t, sport |-> SportOf(t),
                  sportId |-> IF rev - 1 >= 7 THEN SportOf(t) ELSE Null]
      BY DEF NewRows
    <3> QED BY <3>1, <3>2
  <2> HIDE DEF new
  <2>2. \A l \in new :
            /\ l = [id |-> l.slug, slug |-> l.slug, sport |-> l.sport, sportId |-> Null]
            /\ l.slug \in slugs /\ l.sport = SportOf(l.slug)
    BY <2>1
  <2>3. ASSUME NEW l \in new, NEW k \in new, l.slug = k.slug PROVE l = k
    <3>1. /\ l = [id |-> l.slug, slug |-> l.slug, sport |-> l.sport, sportId |-> Null]
          /\ l.sport = SportOf(l.slug)
      BY <2>2
    <3>2. /\ k = [id |-> k.slug, slug |-> k.slug, sport |-> k.sport, sportId |-> Null]
          /\ k.sport = SportOf(k.slug)
      BY <2>2
    <3>3. l.sport = k.sport
      BY <2>3, <3>1, <3>2
    <3> QED BY <2>3, <3>1, <3>2, <3>3
  <2> QED BY <2>2, <2>3, SportsAreKnown
<1>2. slugs = {l.slug : l \in new}
  <2>1. ASSUME NEW t \in slugs PROVE \E l \in new : l.slug = t
    <3> DEFINE l == [id |-> t, slug |-> t, sport |-> SportOf(t),
                     sportId |-> IF rev - 1 >= 7 THEN SportOf(t) ELSE Null]
    <3>1. l \in new /\ l.slug = t
      BY DEF NewRows
    <3> QED BY <3>1
  <2> HIDE DEF new
  <2> QED BY <1>1, <2>1
<1> HIDE DEF new
<1>3. LeaguesAt(rev) \subseteq {l.slug : l \in rows \cup new}
  BY <1>2 DEF RowsOK
<1>4. ASSUME NEW l \in rows \cup new PROVE RowOK(rev, l)
  <2>1. CASE l \in rows
    BY <2>1 DEF RowsOK, RowOK
  <2>2. CASE l \in new
    BY <1>1, <2>2 DEF RowOK
  <2> QED BY <2>1, <2>2
<1>5. \A l, k \in rows \cup new : l.slug = k.slug => l = k
  BY <1>1, <1>2 DEF RowsOK
<1> QED BY <1>3, <1>4, <1>5 DEF RowsOK, new

(* Rows that stay as they are: 0002, 0003, 0004, up or down.               *)
LEMMA RowsKept ==
    ASSUME NEW rev \in 0..6, NEW to \in 0..6, NEW rows, RowsOK(rev, rows), LeaguesAt(to) = LeaguesAt(rev)
    PROVE  RowsOK(to, rows)
BY DEF RowsOK, RowOK

(* Rows deleted, those that the revision inserted: 0006, 0005.             *)
LEMMA RowsDeleted ==
    ASSUME NEW rev \in 1..6, NEW rows, RowsOK(rev, rows), NEW slugs,
           LeaguesAt(rev - 1) = LeaguesAt(rev) \ slugs
    PROVE  RowsOK(rev - 1, rows \ {l \in rows : l.slug \in slugs})
BY DEF RowsOK, RowOK

(* 0007, up and down.                                                      *)
LEMMA RowsBackfilled ==
    ASSUME NEW rows, RowsOK(6, rows), \A l \in rows : l.sport \in Sports
    PROVE  RowsOK(7, {[l EXCEPT !.sportId = l.sport] : l \in rows})
<1> DEFINE new == {[l EXCEPT !.sportId = l.sport] : l \in rows}
       Row(l) == [id |-> l.id, slug |-> l.slug, sport |-> l.sport, sportId |-> l.sport]
       Changed(l) == [l EXCEPT !.sportId = l.sport]
<1>1. \A l \in rows : Changed(l) = Row(l)
  BY DEF RowsOK, RowOK
<1>2. /\ \A k \in new : \E l \in rows :
            k = [id |-> l.id, slug |-> l.slug, sport |-> l.sport, sportId |-> l.sport]
      /\ \A l \in rows : \E k \in new : k.slug = l.slug
  <2>1. new = {Changed(l) : l \in rows}
    OBVIOUS
  <2> HIDE DEF new, Changed
  <2>2. /\ \A k \in new : \E l \in rows : k = Row(l)
        /\ \A l \in rows : Row(l) \in new /\ Row(l).slug = l.slug
    BY <1>1, <2>1
  <2> QED BY <2>2
<1> HIDE DEF new
<1>3. LeaguesAt(7) \subseteq {l.slug : l \in new}
  BY <1>2, LeaguesOfRevisions DEF RowsOK
<1>4. ASSUME NEW k \in new PROVE RowOK(7, k)
  <2>1. PICK l \in rows :
           k = [id |-> l.id, slug |-> l.slug, sport |-> l.sport, sportId |-> l.sport]
    BY <1>2
  <2>2. /\ k = [id |-> k.id, slug |-> k.slug, sport |-> k.sport, sportId |-> k.sportId]
        /\ k.id = l.id /\ k.slug = l.slug /\ k.sport = l.sport /\ k.sportId = l.sport
    BY <2>1
  <2>3. RowOK(6, l)
    BY DEF RowsOK
  <2> QED BY <2>2, <2>3, LeaguesOfRevisions DEF RowOK
<1>5. \A j, k \in new : j.slug = k.slug => j = k
  BY <1>2 DEF RowsOK
<1> QED BY <1>3, <1>4, <1>5 DEF RowsOK, new

(* 0007 taken back: without sports the rows are those of 0006.             *)
LEMMA RowsUnfilled ==
    ASSUME NEW rows, RowsOK(7, rows)
    PROVE  RowsOK(6, {[l EXCEPT !.sportId = Null] : l \in rows})
<1> DEFINE new == {[l EXCEPT !.sportId = Null] : l \in rows}
       Row(l) == [id |-> l.id, slug |-> l.slug, sport |-> l.sport, sportId |-> Null]
       Changed(l) == [l EXCEPT !.sportId = Null]
<1>1. \A l \in rows : Changed(l) = Row(l)
  BY DEF RowsOK, RowOK
<1>2. /\ \A k \in new : \E l \in rows :
            k = [id |-> l.id, slug |-> l.slug, sport |-> l.sport, sportId |-> Null]
      /\ \A l \in rows : \E k \in new : k.slug = l.slug
  <2>1. new = {Changed(l) : l \in rows}
    OBVIOUS
  <2> HIDE DEF new, Changed
  <2>2. /\ \A k \in new : \E l \in rows : k = Row(l)
        /\ \A l \in rows : Row(l) \in new /\ Row(l).slug = l.slug
    BY <1>1, <2>1
  <2> QED BY <2>2
<1> HIDE DEF new
<1>3. LeaguesAt(6) \subseteq {l.slug : l \in new}
  BY <1>2, LeaguesOfRevisions DEF RowsOK
<1>4. ASSUME NEW k \in new PROVE RowOK(6, k)
  <2>1. PICK l \in rows :
           k = [id |-> l.id, slug |-> l.slug, sport |-> l.sport, sportId |-> Null]
    BY <1>2
  <2>2. /\ k = [id |-> k.id, slug |-> k.slug, sport |-> k.sport, sportId |-> k.sportId]
        /\ k.id = l.id /\ k.slug = l.slug /\ k.sport = l.sport /\ k.sportId = Null
    BY <2>1
  <2>3. RowOK(7, l)
    BY DEF RowsOK
  <2> QED BY <2>2, <2>3, LeaguesOfRevisions DEF RowOK
<1>5. \A j, k \in new : j.slug = k.slug => j = k
  BY <1>2 DEF RowsOK
<1> QED BY <1>3, <1>4, <1>5 DEF RowsOK, new

(* 0008: milb-single-a gets its new slug in place, and the newest leagues  *)
(* their rows.                                                             *)
Renamed(rows, old, new) ==
    {IF l.slug = old THEN [l EXCEPT !.slug = new] ELSE l : l \in rows}

(* 0008, if nothing is in its way: renamed and with the newest leagues the *)
(* rows are those of 0008.                                                 *)
LEMMA RowsOfHead ==
    ASSUME NEW rows, RowsOK(7, rows), "milb-a" \notin {l.slug : l \in rows},
           Newest \cap {l.slug : l \in rows} = {}
    PROVE  RowsOK(8, Renamed(rows, "milb-single-a", "milb-a") \cup NewRows(7, Newest))
<1> DEFINE renamed == Renamed(rows, "milb-single-a", "milb-a")
           new == NewRows(7, Newest)
<1>1. ASSUME NEW k \in renamed
      PROVE  \E l \in rows :
                /\ l.slug # "milb-a" /\ l.slug \notin Newest
                /\ \/ l.slug # "milb-single-a" /\ k = l
                   \/ /\ l.slug = "milb-single-a"
                      /\ k = [id |-> l.id, slug |-> "milb-a", sport |-> l.sport,
                              sportId |-> l.sportId]
  <2>1. PICK l \in rows :
           k = IF l.slug = "milb-single-a" THEN [l EXCEPT !.slug = "milb-a"] ELSE l
    BY DEF Renamed
  <2>2. l = [id |-> l.id, slug |-> l.slug, sport |-> l.sport, sportId |-> l.sportId]
    BY DEF RowsOK, RowOK
  <2> QED BY <2>1, <2>2
<1>2. ASSUME NEW l \in rows
      PROVE  \E k \in renamed : k.slug = IF l.slug = "milb-single-a" THEN "milb-a" ELSE l.slug
  <2> DEFINE k == IF l.slug = "milb-single-a" THEN [l EXCEPT !.slug = "milb-a"] ELSE l
  <2>1. l = [id |-> l.id, slug |-> l.slug, sport |-> l.sport, sportId |-> l.sportId]
    BY DEF RowsOK, RowOK
  <2>2. k.slug = IF l.slug = "milb-single-a" THEN "milb-a" ELSE l.slug
    BY <2>1
  <2>3. k \in renamed
    BY DEF Renamed
  <2> QED BY <2>2, <2>3
<1>3. ASSUME NEW k \in new
      PROVE  \E t \in Newest :
                k = [id |-> t, slug |-> t, sport |-> SportOf(t), sportId |-> SportOf(t)]
  BY DEF NewRows
<1>4. ASSUME NEW t \in Newest PROVE \E k \in new : k.slug = t
  <2> DEFINE k == [id |-> t, slug |-> t, sport |-> SportOf(t), sportId |-> SportOf(t)]
  <2>1. k \in new /\ k.slug = t
    BY DEF NewRows
  <2> QED BY <2>1
<1> HIDE DEF renamed, new
<1>5. LeaguesAt(8) \subseteq {l.slug : l \in renamed \cup new}
  <2> SUFFICES ASSUME NEW s \in LeaguesAt(8) PROVE \E l \in renamed \cup new : l.slug = s
    OBVIOUS
  <2>1. CASE s \in Newest
    BY <1>4, <2>1
  <2>2. CASE s = "milb-a"
    <3>1. PICK l \in rows : l.slug = "milb-single-a"
      BY LeaguesOfRevisions DEF RowsOK
    <3> QED BY <1>2, <2>2, <3>1
  <2>3. CASE s \in LeaguesAt(7) /\ s # "milb-single-a"
    <3>1. PICK l \in rows : l.slug = s
      BY <2>3 DEF RowsOK
    <3> QED BY <1>2, <2>3, <3>1
  <2> QED BY <2>1, <2>2, <2>3, LeaguesOfRevisions
<1>6. ASSUME NEW k \in renamed
      PROVE  RowOK(8, k) /\ k.slug # "milb-single-a" /\ k.slug \notin Newest
  <2>1. PICK l \in rows :
           /\ l.slug # "milb-a" /\ l.slug \notin Newest
           /\ \/ l.slug # "milb-single-a" /\ k = l
              \/ /\ l.slug = "milb-single-a"
                 /\ k = [id |-> l.id, slug |-> "milb-a", sport |-> l.sport,
                         sportId |-> l.sportId]
    BY <1>1
  <2>2. RowOK(7, l)
    BY DEF RowsOK
  <2>3. CASE l.slug # "milb-single-a" /\ k = l
    BY <2>1, <2>2, <2>3, LeaguesOfRevisions DEF RowOK
  <2>4. CASE /\ l.slug = "milb-single-a"
             /\ k = [id |-> l.id, slug |-> "milb-a", sport |-> l.sport, sportId |-> l.sportId]
    <3>1. /\ k = [id |-> k.id, slug |-> k.slug, sport |-> k.sport, sportId |-> k.sportId]
          /\ k.id = l.id /\ k.slug = "milb-a" /\ k.sport = l.sport /\ k.sportId = l.sportId
      BY <2>4
    <3> QED BY <2>2, <2>4, <3>1, LeaguesOfRevisions DEF RowOK
  <2> QED BY <2>1, <2>3, <2>4
<1>7. ASSUME NEW k \in new
      PROVE  RowOK(8, k) /\ k.slug \in Newest
  <2>1. PICK t \in Newest :
           k = [id |-> t, slug |-> t, sport |-> SportOf(t), sportId |-> SportOf(t)]
    BY <1>3
  <2>2. /\ k = [id |-> k.id, slug |-> k.slug, sport |-> k.sport, sportId |-> k.sportId]
        /\ k.id = t /\ k.slug = t /\ k.sport = SportOf(t) /\ k.sportId = SportOf(t)
    BY <2>1
  <2> QED BY <2>2, SportsAreKnown, LeaguesOfRevisions DEF RowOK
<1>8. ASSUME NEW k \in renamed, NEW j \in renamed, k.slug = j.slug PROVE k = j
  <2>1. ASSUME NEW i \in renamed
        PROVE  \E l \in rows :
                  /\ l.slug # "milb-a"
                  /\ \/ l.slug # "milb-single-a" /\ i = l /\ i.slug = l.slug
                     \/ /\ l.slug = "milb-single-a" /\ i.slug = "milb-a"
                        /\ i = [id |-> l.id, slug |-> "milb-a", sport |-> l.sport,
                                sportId |-> l.sportId]
    BY <1>1
  <2> QED BY <1>8, <2>1 DEF RowsOK
<1>9. ASSUME NEW k \in new, NEW j \in new, k.slug = j.slug PROVE k = j
  BY <1>3, <1>9
<1>10. \A k, j \in renamed \cup new : k.slug = j.slug => k = j
  BY <1>6, <1>7, <1>8, <1>9
<1>11. \A k \in renamed \cup new : RowOK(8, k) /\ k.slug # "milb-single-a"
  BY <1>6, <1>7, LeaguesOfRevisions
<1> QED BY <1>5, <1>10, <1>11 DEF RowsOK, renamed, new

(* 0008 taken back: without the newest leagues and renamed again the rows  *)
(* are those of 0007.                                                      *)
LEMMA RowsBeforeHead ==
    ASSUME NEW rows, RowsOK(8, rows)
    PROVE  RowsOK(7, Renamed(rows \ {l \in rows : l.slug \in Newest}, "milb-a", "milb-single-a"))
<1> DEFINE kept == rows \ {l \in rows : l.slug \in Newest}
           renamed == Renamed(kept, "milb-a", "milb-single-a")
<1>0. \A l \in kept : RowOK(8, l) /\ l.slug \notin Newest /\ l.slug # "milb-single-a" /\ l \in rows
  BY DEF RowsOK
<1>1. ASSUME NEW k \in renamed
      PROVE  \E l \in kept :
                \/ l.slug # "milb-a" /\ k = l
                \/ /\ l.slug = "milb-a"
                   /\ k = [id |-> l.id, slug |-> "milb-single-a", sport |-> l.sport,
                           sportId |-> l.sportId]
  <2>1. PICK l \in kept :
           k = IF l.slug = "milb-a" THEN [l EXCEPT !.slug = "milb-single-a"] ELSE l
    BY DEF Renamed
  <2>2. l = [id |-> l.id, slug |-> l.slug, sport |-> l.sport, sportId |-> l.sportId]
    BY <1>0 DEF RowOK
  <2> QED BY <2>1, <2>2
<1>2. ASSUME NEW l \in kept
      PROVE  \E k \in renamed : k.slug = IF l.slug = "milb-a" THEN "milb-single-a" ELSE l.slug
  <2> DEFINE k == IF l.slug = "milb-a" THEN [l EXCEPT !.slug = "milb-single-a"] ELSE l
  <2>1. l = [id |-> l.id, slug |-> l.slug, sport |-> l.sport, sportId |-> l.sportId]
    BY <1>0 DEF RowOK
  <2>2. k.slug = IF l.slug = "milb-a" THEN "milb-single-a" ELSE l.slug
    BY <2>1
  <2>3. k \in renamed
    BY DEF Renamed
  <2> QED BY <2>2, <2>3
<1>3. \A s \in LeaguesAt(8) \ Newest : \E l \in kept : l.slug = s
  BY DEF RowsOK
<1> HIDE DEF kept, renamed
<1>4. LeaguesAt(7) \subseteq {l.slug : l \in renamed}
  <2> SUFFICES ASSUME NEW s \in LeaguesAt(7) PROVE \E l \in renamed : l.slug = s
    OBVIOUS
  <2>1. CASE s = "milb-single-a"
    <3>1. PICK l \in kept : l.slug = "milb-a"
      BY <1>3, LeaguesOfRevisions
    <3> QED BY <1>2, <2>1, <3>1
  <2>2. CASE s # "milb-single-a"
    <3>1. s \in LeaguesAt(8) \ Newest /\ s # "milb-a"
      BY <2>2, LeaguesOfRevisions
    <3>2. PICK l \in kept : l.slug = s
      BY <1>3, <3>1
    <3> QED BY <1>2, <3>1, <3>2
  <2> QED BY <2>1, <2>2
<1>5. ASSUME NEW k \in renamed PROVE RowOK(7, k)
  <2>1. PICK l \in kept :
           \/ l.slug # "milb-a" /\ k = l
           \/ /\ l.slug = "milb-a"
              /\ k = [id |-> l.id, slug |-> "milb-single-a", sport |-> l.sport,
                      sportId |-> l.sportId]
    BY <1>1
  <2>2. CASE l.slug # "milb-a" /\ k = l
    BY <1>0, <2>2, LeaguesOfRevisions DEF RowOK
  <2>3. CASE /\ l.slug = "milb-a"
             /\ k = [id |-> l.id, slug |-> "milb-single-a", sport |-> l.sport,
                     sportId |-> l.sportId]
    <3>1. /\ k = [id |-> k.id, slug |-> k.slug, sport |-> k.sport, sportId |-> k.sportId]
          /\ k.id = l.id /\ k.slug = "milb-single-a" /\ k.sport = l.sport /\ k.sportId = l.sportId
      BY <2>3
    <3> QED BY <1>0, <2>3, <3>1, LeaguesOfRevisions DEF RowOK
  <2> QED BY <2>1, <2>2, <2>3
<1>6. ASSUME NEW k \in renamed, NEW j \in renamed, k.slug = j.slug PROVE k = j
  BY <1>0, <1>1, <1>6 DEF RowsOK
<1> QED BY <1>4, <1>5, <1>6 DEF RowsOK, kept, renamed

-----------------------------------------------------------------------------
(* One revision.                                                           *)

(* Teams and aliases with rows that fit make a database.                   *)
LEMMA Assembled ==
    ASSUME NEW d, DatabaseOK(d), NEW rev \in 0..Head, NEW rows, RowsOK(rev, rows),
           NEW teams, TeamsOK(rev, teams), {t.league : t \in teams} = TeamLeagues(d),
           NEW aliases, aliases \subseteq d.aliases, rev < 7 => aliases = {},
           \A l \in d.leagues : l.id \in Referenced(d) => \E k \in rows : k.id = l.id
    PROVE  LET e == [rev |-> rev, leagues |-> rows, teams |-> teams, aliases |-> aliases]
           IN  /\ DatabaseOK(e) /\ e # Refused /\ e.rev = rev
               /\ TeamLeagues(e) = TeamLeagues(d)
               /\ Referenced(e) \subseteq Referenced(d)
<1> DEFINE e == [rev |-> rev, leagues |-> rows, teams |-> teams, aliases |-> aliases]
<1>1. /\ e.rev = rev /\ e.leagues = rows /\ e.teams = teams /\ e.aliases = aliases
      /\ e = [rev |-> e.rev, leagues |-> e.leagues, teams |-> e.teams, aliases |-> e.aliases]
  OBVIOUS
<1> HIDE DEF e
<1>2. TeamLeagues(e) = TeamLeagues(d) /\ Referenced(e) \subseteq Referenced(d)
  BY <1>1 DEF TeamLeagues, Referenced
<1>3. Referenced(e) \subseteq Ids(e)
  BY <1>1, <1>2 DEF Ids, DatabaseOK
<1>4. e # Refused
  BY <1>1, MigrationAssumption DEF Refused, Head
<1> QED BY <1>1, <1>2, <1>3, <1>4 DEF DatabaseOK, e

LEMMA RefusedStays == \A rev : At(Refused, rev) = Refused
BY DEF At

(* A new row is that of its slug, with a sport.                            *)
LEMMA NewRowsAre ==
    ASSUME NEW rev \in Nat, NEW slugs
    PROVE  \A k \in NewRows(rev, slugs) : k.slug \in slugs /\ k.sport \in Sports
<1> SUFFICES ASSUME NEW k \in NewRows(rev, slugs) PROVE k.slug \in slugs /\ k.sport \in Sports
  OBVIOUS
<1>1. PICK t \in slugs :
         k = [id |-> t, slug |-> t, sport |-> SportOf(t),
              sportId |-> IF rev >= 7 THEN SportOf(t) ELSE Null]
  BY DEF NewRows
<1>2. k.slug = t /\ k.sport = SportOf(t)
  BY <1>1
<1> QED BY <1>2, SportsAreKnown

(* An INSERT that the keys of the table allow, at the next revision.       *)
LEMMA InsertIs ==
    ASSUME NEW d, NEW slugs, NEW rev, d.rev \in 0..Head,
           d = [rev |-> d.rev, leagues |-> d.leagues, teams |-> d.teams, aliases |-> d.aliases]
    PROVE  At(Insert(d, slugs), rev) =
              IF slugs \cap Slugs(d) # {} THEN Refused
              ELSE [rev |-> rev, leagues |-> d.leagues \cup NewRows(d.rev, slugs),
                    teams |-> d.teams, aliases |-> d.aliases]
<1>1. CASE slugs \cap Slugs(d) # {}
  BY <1>1, RefusedStays DEF Insert
<1>2. CASE slugs \cap Slugs(d) = {}
  <2>1. Insert(d, slugs) = [d EXCEPT !.leagues = d.leagues \cup NewRows(d.rev, slugs)]
    BY <1>2 DEF Insert, NewRows
  <2>2. Insert(d, slugs) = [rev |-> d.rev, leagues |-> d.leagues \cup NewRows(d.rev, slugs),
                            teams |-> d.teams, aliases |-> d.aliases]
    BY <2>1
  <2>3. Insert(d, slugs) # Refused
    BY <2>2, MigrationAssumption DEF Refused, Head
  <2> QED BY <1>2, <2>2, <2>3 DEF At
<1> QED BY <1>1, <1>2

(* What a step from d up to a revision may come to.                        *)
RisesTo(d, e, rev) ==
    \/ e = Refused /\ Strange(d)
    \/ /\ DatabaseOK(e) /\ e # Refused /\ e.rev = rev
       /\ TeamLeagues(e) = TeamLeagues(d)
       /\ Strange(e) => Strange(d)

(* A revision that inserts leagues is refused only over rows with their    *)
(* slugs.                                                                  *)
LEMMA InsertRises ==
    ASSUME NEW d, DatabaseOK(d), NEW rev \in 1..6, d.rev = rev - 1, rev # 4,
           NEW slugs, LeaguesAt(rev) = LeaguesAt(rev - 1) \cup slugs,
           slugs \cap LeaguesAt(rev - 1) = {}
    PROVE  RisesTo(d, At(Insert(d, slugs), rev), rev)
<1>1. CASE slugs \cap Slugs(d) # {}
  <2>1. Strange(d)
    BY <1>1 DEF Strange, Slugs
  <2> QED BY <1>1, <2>1, InsertIs DEF RisesTo, DatabaseOK
<1>2. CASE slugs \cap Slugs(d) = {}
  <2> DEFINE new == NewRows(d.rev, slugs)
             rows == d.leagues \cup new
             e == [rev |-> rev, leagues |-> rows, teams |-> d.teams, aliases |-> d.aliases]
  <2>1. At(Insert(d, slugs), rev) = e
    BY <1>2, InsertIs DEF DatabaseOK
  <2>2. RowsOK(rev, rows)
    BY <1>2, RowsInserted DEF DatabaseOK, Slugs
  <2>3. TeamsOK(rev, d.teams)
    BY DEF DatabaseOK, TeamsOK
  <2>4. \A k \in new : k.slug \in slugs /\ k.sport \in Sports
    BY NewRowsAre
  <2>5. e.rev = rev /\ e.leagues = rows
    OBVIOUS
  <2> HIDE DEF new
  <2>6. /\ DatabaseOK(e) /\ e # Refused
        /\ TeamLeagues(e) = TeamLeagues(d)
    <3>1. rev \in 0..Head /\ d.aliases = {}
      BY DEF DatabaseOK, Head
    <3>2. \A l \in d.leagues : l.id \in Referenced(d) => \E k \in rows : k.id = l.id
      OBVIOUS
    <3> HIDE DEF rows
    <3> QED BY <2>2, <2>3, <3>1, <3>2, Assembled DEF TeamLeagues
  <2>7. Strange(e) => Strange(d)
    <3> HIDE DEF e
    <3> QED BY <2>4, <2>5 DEF Strange
  <2> HIDE DEF e
  <2> QED BY <2>1, <2>5, <2>6, <2>7 DEF RisesTo
<1> QED BY <1>1, <1>2

(* 0004, which gives every team the provider that its league has.          *)
LEMMA ProviderRises ==
    ASSUME NEW d, DatabaseOK(d), d.rev = 3
    PROVE  RisesTo(d, At(SetProvider(d, "espn"), 4), 4)
<1> DEFINE teams == {[t EXCEPT !.provider = "espn"] : t \in d.teams}
           e == [rev |-> 4, leagues |-> d.leagues, teams |-> teams, aliases |-> d.aliases]
<1>1. d = [rev |-> d.rev, leagues |-> d.leagues, teams |-> d.teams, aliases |-> d.aliases]
  BY DEF DatabaseOK
<1>2. At(SetProvider(d, "espn"), 4) = e
  <2>1. SetProvider(d, "espn") = [d EXCEPT !.teams = teams]
    BY DEF SetProvider
  <2> HIDE DEF teams
  <2>2. SetProvider(d, "espn") = [rev |-> d.rev, leagues |-> d.leagues, teams |-> teams,
                                  aliases |-> d.aliases]
    BY <1>1, <2>1
  <2>3. SetProvider(d, "espn") # Refused
    BY <2>2, MigrationAssumption DEF Refused, DatabaseOK, Head
  <2> QED BY <2>2, <2>3 DEF At
<1>3. ASSUME NEW t \in d.teams
      PROVE  /\ [t EXCEPT !.provider = "espn"] = [league |-> t.league, provider |-> "espn"]
             /\ t.league \in Espn \cap SeededIds
  BY DEF DatabaseOK, TeamsOK
<1>4. TeamsOK(4, teams) /\ {t.league : t \in teams} = TeamLeagues(d)
  <2>1. ASSUME NEW u \in teams
        PROVE  /\ u = [league |-> u.league, provider |-> u.provider] /\ u.provider = "espn"
               /\ \E t \in d.teams : u.league = t.league
    <3>1. PICK t \in d.teams : u = [league |-> t.league, provider |-> "espn"]
      BY <1>3
    <3> QED BY <3>1
  <2>2. ASSUME NEW t \in d.teams PROVE \E u \in teams : u.league = t.league
    <3>1. [t EXCEPT !.provider = "espn"] \in teams
      OBVIOUS
    <3> QED BY <1>3, <3>1
  <2> HIDE DEF teams
  <2>3. ASSUME NEW u \in teams PROVE u.league \in Espn \cap SeededIds
    BY <1>3, <2>1
  <2>4. TeamsOK(4, teams)
    BY <2>1, <2>3 DEF TeamsOK, Provider
  <2> QED BY <2>1, <2>2, <2>4 DEF TeamLeagues
<1>5. RowsOK(4, d.leagues)
  BY RowsKept, LeaguesOfRevisions DEF DatabaseOK
<1> HIDE DEF teams
<1>6. DatabaseOK(e) /\ e # Refused /\ TeamLeagues(e) = TeamLeagues(d)
  BY <1>4, <1>5, Assembled DEF DatabaseOK, Head
<1>7. Strange(e) => Strange(d)
  BY LeaguesOfRevisions DEF Strange
<1> QED BY <1>2, <1>6, <1>7 DEF RisesTo

(* 0002 and 0003 change nothing that is kept here.                         *)
LEMMA NothingRises ==
    ASSUME NEW d, DatabaseOK(d), NEW rev \in 2..3, d.rev = rev - 1
    PROVE  RisesTo(d, At(d, rev), rev)
<1> DEFINE e == [rev |-> rev, leagues |-> d.leagues, teams |-> d.teams, aliases |-> d.aliases]
<1>1. At(d, rev) = e
  BY MigrationAssumption DEF At, Refused, DatabaseOK, Head
<1>2. RowsOK(rev, d.leagues) /\ LeaguesAt(rev) = LeaguesAt(d.rev)
  BY RowsKept DEF DatabaseOK, LeaguesAt
<1>3. TeamsOK(rev, d.teams)
  BY DEF DatabaseOK, TeamsOK
<1>4. DatabaseOK(e) /\ e # Refused /\ TeamLeagues(e) = TeamLeagues(d)
  BY <1>2, <1>3, Assembled DEF DatabaseOK, Head, TeamLeagues
<1>5. Strange(e) => Strange(d)
  BY <1>2 DEF Strange
<1> QED BY <1>1, <1>4, <1>5 DEF RisesTo

(* 0007, unless there is a league with a sport of its own.                 *)
LEMMA BackfillRises ==
    ASSUME NEW d, DatabaseOK(d), d.rev = 6
    PROVE  RisesTo(d, At(Backfilled(d), 7), 7)
<1>1. CASE \E l \in d.leagues : l.sport \notin Sports
  BY <1>1, RefusedStays DEF Backfilled, RisesTo, Strange
<1>2. CASE \A l \in d.leagues : l.sport \in Sports
  <2> DEFINE rows == {[l EXCEPT !.sportId = l.sport] : l \in d.leagues}
             e == [rev |-> 7, leagues |-> rows, teams |-> d.teams, aliases |-> d.aliases]
  <2>1. At(Backfilled(d), 7) = e
    <3>1. Backfilled(d) = [d EXCEPT !.leagues = rows]
      BY <1>2 DEF Backfilled
    <3> HIDE DEF rows
    <3>2. Backfilled(d) = [rev |-> d.rev, leagues |-> rows, teams |-> d.teams,
                           aliases |-> d.aliases]
      BY <3>1 DEF DatabaseOK
    <3>3. Backfilled(d) # Refused
      BY <3>2, MigrationAssumption DEF Refused, DatabaseOK, Head
    <3> QED BY <3>2, <3>3 DEF At
  <2>2. RowsOK(7, rows)
    BY <1>2, RowsBackfilled DEF DatabaseOK
  <2>3. /\ \A k \in rows : \E l \in d.leagues : k.slug = l.slug /\ k.sport = l.sport
        /\ \A l \in d.leagues : \E k \in rows : k.id = l.id
    <3> DEFINE Row(l) == [id |-> l.id, slug |-> l.slug, sport |-> l.sport, sportId |-> l.sport]
               Changed(l) == [l EXCEPT !.sportId = l.sport]
    <3>1. \A l \in d.leagues : Changed(l) = Row(l)
      BY DEF DatabaseOK, RowsOK, RowOK
    <3>2. rows = {Changed(l) : l \in d.leagues}
      OBVIOUS
    <3> HIDE DEF rows, Changed
    <3>3. /\ \A k \in rows : \E l \in d.leagues : k = Row(l)
          /\ \A l \in d.leagues : Row(l) \in rows
      BY <3>1, <3>2
    <3>4. \A l : Row(l).id = l.id /\ Row(l).slug = l.slug /\ Row(l).sport = l.sport
      OBVIOUS
    <3> HIDE DEF Row
    <3> QED BY <3>3, <3>4
  <2>4. TeamsOK(7, d.teams)
    BY DEF DatabaseOK, TeamsOK
  <2> HIDE DEF rows
  <2>5. DatabaseOK(e) /\ e # Refused /\ TeamLeagues(e) = TeamLeagues(d)
    BY <2>2, <2>3, <2>4, Assembled DEF DatabaseOK, Head, TeamLeagues
  <2>6. Strange(e) => Strange(d)
    BY <2>3, LeaguesOfRevisions DEF Strange
  <2> QED BY <2>1, <2>5, <2>6 DEF RisesTo
<1> QED BY <1>1, <1>2

(* A renamed row keeps everything but its slug.                            *)
LEMMA RenamedAre ==
    ASSUME NEW rows, NEW old, NEW new,
           \A l \in rows :
              l = [id |-> l.id, slug |-> l.slug, sport |-> l.sport, sportId |-> l.sportId]
    PROVE  /\ \A k \in Renamed(rows, old, new) : \E l \in rows :
                 /\ k.id = l.id /\ k.sport = l.sport
                 /\ k.slug = IF l.slug = old THEN new ELSE l.slug
           /\ \A l \in rows : \E k \in Renamed(rows, old, new) :
                 k.id = l.id /\ k.slug = IF l.slug = old THEN new ELSE l.slug
<1> DEFINE Row(l) == IF l.slug = old THEN [l EXCEPT !.slug = new] ELSE l
<1>1. ASSUME NEW l \in rows
      PROVE  /\ Row(l).id = l.id /\ Row(l).sport = l.sport
             /\ Row(l).slug = IF l.slug = old THEN new ELSE l.slug
  <2>1. CASE l.slug = old
    <3>1. Row(l) = [id |-> l.id, slug |-> new, sport |-> l.sport, sportId |-> l.sportId]
      BY <2>1
    <3> HIDE DEF Row
    <3> QED BY <2>1, <3>1
  <2>2. CASE l.slug # old
    BY <2>2
  <2> QED BY <2>1, <2>2
<1>2. Renamed(rows, old, new) = {Row(l) : l \in rows}
  BY DEF Renamed
<1> HIDE DEF Row
<1> QED BY <1>1, <1>2

(* An UPDATE of a slug that no other row has.                              *)
LEMMA RenameIs ==
    ASSUME NEW d, NEW old, NEW new, d.rev \in 0..Head, ~(old \in Slugs(d) /\ new \in Slugs(d)),
           d = [rev |-> d.rev, leagues |-> d.leagues, teams |-> d.teams, aliases |-> d.aliases]
    PROVE  LET e == [rev |-> d.rev, leagues |-> Renamed(d.leagues, old, new),
                     teams |-> d.teams, aliases |-> d.aliases]
           IN  Rename(d, old, new) = e /\ e # Refused
<1> DEFINE e == [rev |-> d.rev, leagues |-> Renamed(d.leagues, old, new),
                 teams |-> d.teams, aliases |-> d.aliases]
<1>1. Rename(d, old, new) = [d EXCEPT !.leagues = Renamed(d.leagues, old, new)]
  BY DEF Rename, Renamed
<1>2. Rename(d, old, new) = e
  BY <1>1
<1>3. e # Refused
  BY MigrationAssumption DEF Refused, Head
<1> QED BY <1>2, <1>3

(* 0008, unless one of its slugs is taken.                                 *)
LEMMA HeadRises ==
    ASSUME NEW d, DatabaseOK(d), d.rev = 7
    PROVE  RisesTo(d, At(Upgraded(d, 8), 8), 8)
<1> DEFINE renamed == Rename(d, "milb-single-a", "milb-a")
           rows == Renamed(d.leagues, "milb-single-a", "milb-a")
           r == [rev |-> 7, leagues |-> rows, teams |-> d.teams, aliases |-> d.aliases]
<1>0. /\ d = [rev |-> d.rev, leagues |-> d.leagues, teams |-> d.teams, aliases |-> d.aliases]
      /\ RowsOK(7, d.leagues) /\ \A l \in d.leagues : RowOK(7, l)
      /\ "milb-single-a" \in Slugs(d)
  BY LeaguesOfRevisions DEF DatabaseOK, RowsOK, Slugs
<1>1. At(Upgraded(d, 8), 8) = IF renamed = Refused THEN Refused ELSE At(Insert(renamed, Newest), 8)
  BY RefusedStays DEF Upgraded
<1>2. /\ \A k \in rows : \E l \in d.leagues :
            /\ k.id = l.id /\ k.sport = l.sport
            /\ k.slug = IF l.slug = "milb-single-a" THEN "milb-a" ELSE l.slug
      /\ \A l \in d.leagues : \E k \in rows :
            k.id = l.id /\ k.slug = IF l.slug = "milb-single-a" THEN "milb-a" ELSE l.slug
  <2>1. \A l \in d.leagues :
           l = [id |-> l.id, slug |-> l.slug, sport |-> l.sport, sportId |-> l.sportId]
    BY <1>0 DEF RowOK
  <2> QED BY <2>1, RenamedAre
<1>3. CASE "milb-a" \in Slugs(d)
  <2>1. renamed = Refused
    BY <1>0, <1>3 DEF Rename
  <2>2. Strange(d)
    BY <1>0, <1>3, LeaguesOfRevisions DEF Strange, Slugs
  <2> QED BY <1>1, <2>1, <2>2 DEF RisesTo
<1>4. CASE "milb-a" \notin Slugs(d)
  <2>1. renamed = r /\ renamed # Refused
    BY <1>0, <1>4, RenameIs DEF DatabaseOK
  <2>2. r.rev = 7 /\ r.leagues = rows /\ r.teams = d.teams /\ r.aliases = d.aliases
    OBVIOUS
  <2> DEFINE new == NewRows(7, Newest)
             e == [rev |-> 8, leagues |-> rows \cup new, teams |-> d.teams, aliases |-> d.aliases]
  <2>3. At(Insert(r, Newest), 8) = IF Newest \cap Slugs(r) # {} THEN Refused ELSE e
    <3>1. r = [rev |-> r.rev, leagues |-> r.leagues, teams |-> r.teams, aliases |-> r.aliases]
      OBVIOUS
    <3>2. r.rev \in 0..Head
      BY DEF Head
    <3> HIDE DEF rows, r
    <3> QED BY <2>2, <3>1, <3>2, InsertIs
  <2>4. CASE Newest \cap Slugs(r) # {}
    <3>1. PICK k \in rows : k.slug \in Newest
      BY <2>2, <2>4 DEF Slugs
    <3>2. PICK l \in d.leagues : k.slug = IF l.slug = "milb-single-a" THEN "milb-a" ELSE l.slug
      BY <1>2
    <3>3. l.slug \notin LeaguesAt(7)
      BY <3>1, <3>2, LeaguesOfRevisions
    <3>4. Strange(d)
      BY <3>3 DEF Strange
    <3> HIDE DEF r
    <3> QED BY <1>1, <2>1, <2>3, <2>4, <3>4 DEF RisesTo
  <2>5. CASE Newest \cap Slugs(r) = {}
    <3>1. Newest \cap {l.slug : l \in d.leagues} = {}
      <4> SUFFICES ASSUME NEW l \in d.leagues, l.slug \in Newest PROVE FALSE
        OBVIOUS
      <4>1. PICK k \in rows : k.slug = IF l.slug = "milb-single-a" THEN "milb-a" ELSE l.slug
        BY <1>2
      <4>2. l.slug # "milb-single-a"
        BY LeaguesOfRevisions
      <4> HIDE DEF rows, r
      <4> QED BY <2>2, <2>5, <4>1, <4>2 DEF Slugs
    <3>2. RowsOK(8, rows \cup new)
      BY <1>0, <1>4, <3>1, RowsOfHead DEF Slugs
    <3>3. TeamsOK(8, d.teams)
      BY DEF DatabaseOK, TeamsOK
    <3>4. \A k \in new : k.slug \in Newest /\ k.sport \in Sports
      BY NewRowsAre
    <3> HIDE DEF rows, new
    <3>5. DatabaseOK(e) /\ e # Refused /\ TeamLeagues(e) = TeamLeagues(d)
      <4> DEFINE all == rows \cup new
      <4>1. \A l \in d.leagues : l.id \in Referenced(d) => \E k \in all : k.id = l.id
        BY <1>2
      <4>2. RowsOK(8, all)
        BY <3>2
      <4> DEFINE f == [rev |-> 8, leagues |-> all, teams |-> d.teams, aliases |-> d.aliases]
      <4>3. 8 \in 0..Head /\ ~(8 < 7) /\ d.aliases \subseteq d.aliases
        BY DEF Head
      <4>4. {t.league : t \in d.teams} = TeamLeagues(d)
        BY DEF TeamLeagues
      <4> HIDE DEF all
      <4>5. DatabaseOK(f) /\ f # Refused /\ TeamLeagues(f) = TeamLeagues(d)
        BY <3>3, <4>1, <4>2, <4>3, <4>4, Assembled
      <4> QED BY <4>5 DEF all
    <3>6. Strange(e) => Strange(d)
      <4>1. e.rev = 8 /\ e.leagues = rows \cup new
        OBVIOUS
      <4> HIDE DEF e
      <4> SUFFICES ASSUME NEW k \in rows, k.slug \notin LeaguesAt(8) \/ k.sport \notin Sports
                   PROVE  Strange(d)
        BY <3>4, <4>1, LeaguesOfRevisions DEF Strange
      <4>2. PICK l \in d.leagues :
               /\ k.sport = l.sport
               /\ k.slug = IF l.slug = "milb-single-a" THEN "milb-a" ELSE l.slug
        BY <1>2
      <4>3. l.slug \notin LeaguesAt(7) \/ l.sport \notin Sports
        BY <4>2, LeaguesOfRevisions
      <4> QED BY <4>3 DEF Strange
    <3>7. At(Upgraded(d, 8), 8) = e /\ e.rev = 8
      <4>1. e.rev = 8
        OBVIOUS
      <4> HIDE DEF e, r
      <4> QED BY <1>1, <2>1, <2>3, <2>5, <4>1
    <3> HIDE DEF e
    <3> QED BY <3>5, <3>6, <3>7 DEF RisesTo
  <2> QED BY <2>4, <2>5
<1> QED BY <1>3, <1>4

(* Every revision rises to the next.                                       *)
LEMMA UpgradedRises ==
    ASSUME NEW d, DatabaseOK(d), NEW rev \in 1..Head, d.rev = rev - 1
    PROVE  RisesTo(d, At(Upgraded(d, rev), rev), rev)
<1>0. rev \in {1, 2, 3, 4, 5, 6, 7, 8}
  BY DEF Head
<1>1. CASE rev = 1
  BY <1>1, InsertRises, LeaguesOfRevisions DEF Upgraded
<1>2. CASE rev \in {2, 3}
  BY <1>2, NothingRises DEF Upgraded
<1>3. CASE rev = 4
  BY <1>3, ProviderRises DEF Upgraded
<1>4. CASE rev = 5
  BY <1>4, InsertRises, LeaguesOfRevisions DEF Upgraded
<1>5. CASE rev = 6
  BY <1>5, InsertRises, LeaguesOfRevisions DEF Upgraded
<1>6. CASE rev = 7
  BY <1>6, BackfillRises DEF Upgraded
<1>7. CASE rev = 8
  BY <1>7, HeadRises
<1> QED BY <1>0, <1>1, <1>2, <1>3, <1>4, <1>5, <1>6, <1>7

(* What a step from d down to a revision may come to.                      *)
SinksTo(d, e, rev) ==
    \/ e = Refused /\ InUse(d)
    \/ /\ DatabaseOK(e) /\ e # Refused /\ e.rev = rev
       /\ rev > 0 => TeamLeagues(e) = TeamLeagues(d)
       /\ InUse(e) => InUse(d)

Kept(d, slugs) == d.leagues \ {l \in d.leagues : l.slug \in slugs}

(* A DELETE of leagues, at the revision before: the foreign keys let it    *)
(* pass, or one of the leagues is in use.                                  *)
LEMMA DeleteIs ==
    ASSUME NEW d, NEW slugs, d.rev \in 0..Head, slugs \cap Espn = {},
           d = [rev |-> d.rev, leagues |-> d.leagues, teams |-> d.teams, aliases |-> d.aliases]
    PROVE  LET e == [rev |-> d.rev, leagues |-> Kept(d, slugs),
                     teams |-> d.teams, aliases |-> d.aliases]
           IN  \/ Delete(d, slugs) = Refused /\ InUse(d)
               \/ /\ Delete(d, slugs) = e /\ e # Refused
                  /\ \A l \in d.leagues : l.id \in Referenced(d) => l \in Kept(d, slugs)
<1> DEFINE gone == {l \in d.leagues : l.slug \in slugs}
           e == [rev |-> d.rev, leagues |-> Kept(d, slugs), teams |-> d.teams, aliases |-> d.aliases]
<1>1. CASE {l.id : l \in gone} \cap Referenced(d) # {}
  <2>1. InUse(d)
    BY <1>1 DEF InUse
  <2> QED BY <1>1, <2>1 DEF Delete
<1>2. CASE {l.id : l \in gone} \cap Referenced(d) = {}
  <2>1. Delete(d, slugs) = [d EXCEPT !.leagues = Kept(d, slugs)]
    BY <1>2 DEF Delete, Kept
  <2>2. Delete(d, slugs) = e
    BY <2>1
  <2>3. e # Refused
    BY MigrationAssumption DEF Refused, Head
  <2>4. \A l \in d.leagues : l.id \in Referenced(d) => l \in Kept(d, slugs)
    BY <1>2 DEF Kept
  <2> QED BY <2>2, <2>3, <2>4
<1> QED BY <1>1, <1>2

(* A team of a league of ESPN's, when no other leagues are there.          *)
LEMMA TeamsAreOfRows ==
    ASSUME NEW d, DatabaseOK(d), NEW t \in d.teams
    PROVE  \E l \in d.leagues : l.id = t.league /\ l.id \in Referenced(d)
BY DEF DatabaseOK, Referenced, Ids

(* A downgrade that deletes leagues is refused only while one of them is   *)
(* in use.                                                                 *)
LEMMA DeleteSinks ==
    ASSUME NEW d, DatabaseOK(d), NEW rev \in 5..6, d.rev = rev,
           NEW slugs, LeaguesAt(rev - 1) = LeaguesAt(rev) \ slugs, slugs \cap Espn = {}
    PROVE  SinksTo(d, At(Delete(d, slugs), rev - 1), rev - 1)
<1> DEFINE rows == Kept(d, slugs)
           f == [rev |-> d.rev, leagues |-> rows, teams |-> d.teams, aliases |-> d.aliases]
           e == [rev |-> rev - 1, leagues |-> rows, teams |-> d.teams, aliases |-> d.aliases]
<1>0. /\ d = [rev |-> d.rev, leagues |-> d.leagues, teams |-> d.teams, aliases |-> d.aliases]
      /\ d.rev \in 0..Head /\ d.aliases = {}
  BY DEF DatabaseOK
<1>1. CASE Delete(d, slugs) = Refused /\ InUse(d)
  BY <1>1, RefusedStays DEF SinksTo
<1>2. CASE /\ Delete(d, slugs) = f /\ f # Refused
           /\ \A l \in d.leagues : l.id \in Referenced(d) => l \in rows
  <2>1. RowsOK(rev - 1, rows)
    <3>1. RowsOK(rev, d.leagues) /\ rev \in 1..6
      BY DEF DatabaseOK
    <3>2. RowsOK(rev - 1, d.leagues \ {l \in d.leagues : l.slug \in slugs})
      BY <3>1, RowsDeleted
    <3> QED BY <3>2 DEF Kept
  <2>2. TeamsOK(rev - 1, d.teams)
    <3> SUFFICES ASSUME NEW t \in d.teams, rev = 5 PROVE t.league \in Espn
      BY DEF DatabaseOK, TeamsOK
    <3>1. PICK l \in d.leagues : l.id = t.league /\ l.id \in Referenced(d)
      BY TeamsAreOfRows
    <3>2. l \in rows
      BY <1>2, <3>1
    <3>3. RowOK(4, l)
      BY <2>1, <3>2 DEF RowsOK
    <3>4. l.slug = t.league /\ l.slug \in Espn \cup StraySlugs
      BY <3>1, <3>3, LeaguesOfRevisions DEF RowOK
    <3> QED BY <3>4, MigrationAssumption DEF DatabaseOK, TeamsOK, SeededIds, StraySlugs
  <2>3. At(Delete(d, slugs), rev - 1) = e
    BY <1>2 DEF At
  <2>4. \A l \in d.leagues : l.id \in Referenced(d) => \E k \in rows : k.id = l.id
    BY <1>2
  <2>5. rev - 1 \in 0..Head /\ d.aliases \subseteq d.aliases /\ {t.league : t \in d.teams} = TeamLeagues(d)
    BY DEF Head, TeamLeagues
  <2>6. rows \subseteq d.leagues
    BY DEF Kept
  <2> HIDE DEF rows
  <2>7. /\ DatabaseOK(e) /\ e # Refused /\ e.rev = rev - 1
        /\ TeamLeagues(e) = TeamLeagues(d) /\ Referenced(e) \subseteq Referenced(d)
    <3> DEFINE to == rev - 1
    <3>1. to \in 0..Head /\ (to < 7 => d.aliases = {}) /\ RowsOK(to, rows) /\ TeamsOK(to, d.teams)
      BY <1>0, <2>1, <2>2, <2>5
    <3> HIDE DEF to
    <3> QED BY <2>4, <2>5, <3>1, Assembled DEF to
  <2>8. InUse(e) => InUse(d)
    <3>1. e.leagues = rows
      OBVIOUS
    <3> HIDE DEF e
    <3> QED BY <2>6, <2>7, <3>1 DEF InUse
  <2> HIDE DEF e
  <2> QED BY <2>3, <2>7, <2>8 DEF SinksTo
<1> QED BY <1>0, <1>1, <1>2, DeleteIs

(* 0004 taken back: the teams lose their provider and nothing else.        *)
LEMMA ProviderSinks ==
    ASSUME NEW d, DatabaseOK(d), d.rev = 4
    PROVE  SinksTo(d, At(SetProvider(d, Null), 3), 3)
<1> DEFINE teams == {[t EXCEPT !.provider = Null] : t \in d.teams}
           e == [rev |-> 3, leagues |-> d.leagues, teams |-> teams, aliases |-> d.aliases]
<1>1. d = [rev |-> d.rev, leagues |-> d.leagues, teams |-> d.teams, aliases |-> d.aliases]
  BY DEF DatabaseOK
<1>2. At(SetProvider(d, Null), 3) = e
  <2>1. SetProvider(d, Null) = [d EXCEPT !.teams = teams]
    BY DEF SetProvider
  <2> HIDE DEF teams
  <2>2. SetProvider(d, Null) = [rev |-> d.rev, leagues |-> d.leagues, teams |-> teams,
                                aliases |-> d.aliases]
    BY <1>1, <2>1
  <2>3. SetProvider(d, Null) # Refused
    BY <2>2, MigrationAssumption DEF Refused, DatabaseOK, Head
  <2> QED BY <2>2, <2>3 DEF At
<1>3. ASSUME NEW t \in d.teams
      PROVE  /\ [t EXCEPT !.provider = Null] = [league |-> t.league, provider |-> Null]
             /\ t.league \in Espn \cap SeededIds
  BY DEF DatabaseOK, TeamsOK
<1>4. TeamsOK(3, teams) /\ {t.league : t \in teams} = TeamLeagues(d)
  <2>1. ASSUME NEW u \in teams
        PROVE  /\ u = [league |-> u.league, provider |-> u.provider] /\ u.provider = Null
               /\ \E t \in d.teams : u.league = t.league
    <3>1. PICK t \in d.teams : u = [league |-> t.league, provider |-> Null]
      BY <1>3
    <3> QED BY <3>1
  <2>2. ASSUME NEW t \in d.teams PROVE \E u \in teams : u.league = t.league
    <3>1. [t EXCEPT !.provider = Null] \in teams
      OBVIOUS
    <3> QED BY <1>3, <3>1
  <2> HIDE DEF teams
  <2>3. ASSUME NEW u \in teams PROVE u.league \in Espn \cap SeededIds
    BY <1>3, <2>1
  <2>4. TeamsOK(3, teams)
    BY <2>1, <2>3 DEF TeamsOK
  <2> QED BY <2>1, <2>2, <2>4 DEF TeamLeagues
<1>5. RowsOK(3, d.leagues)
  BY RowsKept, LeaguesOfRevisions DEF DatabaseOK
<1> HIDE DEF teams
<1>6. DatabaseOK(e) /\ e # Refused /\ TeamLeagues(e) = TeamLeagues(d)
      /\ Referenced(e) \subseteq Referenced(d)
  BY <1>4, <1>5, Assembled DEF DatabaseOK, Head
<1>7. InUse(e) => InUse(d)
  BY <1>6 DEF InUse
<1> QED BY <1>2, <1>6, <1>7 DEF SinksTo

(* 0002 and 0003 taken back: columns nobody here reads go.                 *)
LEMMA NothingSinks ==
    ASSUME NEW d, DatabaseOK(d), NEW rev \in 2..3, d.rev = rev
    PROVE  SinksTo(d, At(d, rev - 1), rev - 1)
<1> DEFINE to == rev - 1
           e == [rev |-> to, leagues |-> d.leagues, teams |-> d.teams, aliases |-> d.aliases]
<1>1. At(d, to) = e
  BY MigrationAssumption DEF At, Refused, DatabaseOK, Head
<1>2. RowsOK(to, d.leagues) /\ to \in 0..Head
  BY RowsKept DEF DatabaseOK, LeaguesAt, Head
<1>3. TeamsOK(to, d.teams)
  BY DEF DatabaseOK, TeamsOK
<1>4. to < 7 /\ d.aliases = {}
  BY DEF DatabaseOK
<1> HIDE DEF to
<1>5. DatabaseOK(e) /\ e # Refused /\ e.rev = to /\ TeamLeagues(e) = TeamLeagues(d)
      /\ Referenced(e) \subseteq Referenced(d)
  BY <1>2, <1>3, <1>4, Assembled DEF TeamLeagues
<1>6. InUse(e) => InUse(d)
  BY <1>5 DEF InUse
<1> QED BY <1>1, <1>5, <1>6 DEF SinksTo, to

(* 0007 taken back: aliases and sports go, leagues and teams stay.         *)
LEMMA BackfillSinks ==
    ASSUME NEW d, DatabaseOK(d), d.rev = 7
    PROVE  SinksTo(d, At(Downgraded(d, 7), 6), 6)
<1> DEFINE rows == {[l EXCEPT !.sportId = Null] : l \in d.leagues}
           e == [rev |-> 6, leagues |-> rows, teams |-> d.teams, aliases |-> {}]
<1>1. At(Downgraded(d, 7), 6) = e
  <2>1. Downgraded(d, 7) = [d EXCEPT !.aliases = {}, !.leagues = rows]
    BY DEF Downgraded
  <2> HIDE DEF rows
  <2>2. Downgraded(d, 7) = [rev |-> d.rev, leagues |-> rows, teams |-> d.teams, aliases |-> {}]
    BY <2>1 DEF DatabaseOK
  <2>3. Downgraded(d, 7) # Refused
    BY <2>2, MigrationAssumption DEF Refused, DatabaseOK, Head
  <2> QED BY <2>2, <2>3 DEF At
<1>2. RowsOK(6, rows)
  BY RowsUnfilled DEF DatabaseOK
<1>3. /\ \A k \in rows : \E l \in d.leagues : k.id = l.id /\ k.slug = l.slug
      /\ \A l \in d.leagues : \E k \in rows : k.id = l.id
  <2> DEFINE Row(l) == [id |-> l.id, slug |-> l.slug, sport |-> l.sport, sportId |-> Null]
             Changed(l) == [l EXCEPT !.sportId = Null]
  <2>1. \A l \in d.leagues : Changed(l) = Row(l)
    BY DEF DatabaseOK, RowsOK, RowOK
  <2>2. rows = {Changed(l) : l \in d.leagues}
    OBVIOUS
  <2> HIDE DEF rows, Changed
  <2>3. /\ \A k \in rows : \E l \in d.leagues : k = Row(l)
        /\ \A l \in d.leagues : Row(l) \in rows
    BY <2>1, <2>2
  <2>4. \A l : Row(l).id = l.id /\ Row(l).slug = l.slug
    OBVIOUS
  <2> HIDE DEF Row
  <2> QED BY <2>3, <2>4
<1>4. TeamsOK(6, d.teams)
  BY DEF DatabaseOK, TeamsOK
<1> HIDE DEF rows
<1>5. /\ DatabaseOK(e) /\ e # Refused /\ e.rev = 6
      /\ TeamLeagues(e) = TeamLeagues(d) /\ Referenced(e) \subseteq Referenced(d)
  BY <1>2, <1>3, <1>4, Assembled DEF Head, TeamLeagues
<1>6. InUse(e) => InUse(d)
  <2>1. e.leagues = rows
    OBVIOUS
  <2> HIDE DEF e
  <2> QED BY <1>3, <1>5, <2>1 DEF InUse
<1> HIDE DEF e
<1> QED BY <1>1, <1>5, <1>6 DEF SinksTo

(* 0008 taken back is refused only while one of the newest leagues is in   *)
(* use.                                                                    *)
LEMMA HeadSinks ==
    ASSUME NEW d, DatabaseOK(d), d.rev = 8
    PROVE  SinksTo(d, At(Downgraded(d, 8), 7), 7)
<1> DEFINE kept == Kept(d, Newest)
           f == [rev |-> d.rev, leagues |-> kept, teams |-> d.teams, aliases |-> d.aliases]
           rows == Renamed(kept, "milb-a", "milb-single-a")
           r == [rev |-> 8, leagues |-> rows, teams |-> d.teams, aliases |-> d.aliases]
           e == [rev |-> 7, leagues |-> rows, teams |-> d.teams, aliases |-> d.aliases]
<1>0. /\ d = [rev |-> d.rev, leagues |-> d.leagues, teams |-> d.teams, aliases |-> d.aliases]
      /\ d.rev \in 0..Head /\ RowsOK(8, d.leagues) /\ \A l \in d.leagues : RowOK(8, l)
      /\ Newest \cap Espn = {}
  BY LeaguesOfRevisions DEF DatabaseOK, RowsOK
<1>1. CASE Delete(d, Newest) = Refused /\ InUse(d)
  BY <1>1, RefusedStays DEF SinksTo, Downgraded, Reverted8
<1>2. CASE /\ Delete(d, Newest) = f /\ f # Refused
           /\ \A l \in d.leagues : l.id \in Referenced(d) => l \in kept
  <2>1. /\ f.rev = 8 /\ f.leagues = kept /\ f.teams = d.teams /\ f.aliases = d.aliases
        /\ f = [rev |-> f.rev, leagues |-> f.leagues, teams |-> f.teams, aliases |-> f.aliases]
        /\ f.rev \in 0..Head
    BY <1>0
  <2>2. kept \subseteq d.leagues
    BY DEF Kept
  <2>3. RowsOK(7, rows)
    BY <1>0, RowsBeforeHead DEF Kept
  <2> HIDE DEF kept
  <2>4. "milb-single-a" \notin Slugs(f)
    <3> HIDE DEF f
    <3> QED BY <1>0, <2>1, <2>2 DEF RowsOK, Slugs
  <2>5. Rename(f, "milb-a", "milb-single-a") = r
    <3> HIDE DEF f
    <3> QED BY <2>1, <2>4, RenameIs
  <2>6. r # Refused
    BY MigrationAssumption DEF Refused, Head
  <2>7. At(Downgraded(d, 8), 7) = e
    <3>1. Downgraded(d, 8) = r
      <4> HIDE DEF f, r
      <4> QED BY <1>2, <2>5 DEF Downgraded, Reverted8
    <3> HIDE DEF rows
    <3>2. At(r, 7) = e
      BY <2>6 DEF At
    <3> HIDE DEF r, e
    <3> QED BY <3>1, <3>2
  <2>8. /\ \A k \in rows : \E l \in kept :
              /\ k.id = l.id
              /\ k.slug = IF l.slug = "milb-a" THEN "milb-single-a" ELSE l.slug
        /\ \A l \in kept : \E k \in rows : k.id = l.id
    <3>1. \A l \in kept :
             l = [id |-> l.id, slug |-> l.slug, sport |-> l.sport, sportId |-> l.sportId]
      BY <1>0, <2>2 DEF RowOK
    <3> QED BY <3>1, RenamedAre
  <2>9. TeamsOK(7, d.teams)
    BY DEF DatabaseOK, TeamsOK
  <2> HIDE DEF rows
  <2>10. \A l \in d.leagues : l.id \in Referenced(d) => \E k \in rows : k.id = l.id
    BY <1>2, <2>8
  <2>11. /\ DatabaseOK(e) /\ e # Refused /\ e.rev = 7
         /\ TeamLeagues(e) = TeamLeagues(d) /\ Referenced(e) \subseteq Referenced(d)
    BY <2>3, <2>9, <2>10, Assembled DEF Head, TeamLeagues
  <2>12. InUse(e) => InUse(d)
    <3>1. e.leagues = rows
      OBVIOUS
    <3> HIDE DEF e
    <3> SUFFICES ASSUME NEW k \in rows, k.id \in Referenced(e), k.slug \notin Espn
                 PROVE  InUse(d)
      BY <3>1 DEF InUse
    <3>2. PICK l \in kept :
             k.id = l.id /\ k.slug = IF l.slug = "milb-a" THEN "milb-single-a" ELSE l.slug
      BY <2>8
    <3>3. l.id \in Referenced(d) /\ l.slug \notin Espn /\ l \in d.leagues
      BY <2>2, <2>11, <3>2, LeaguesOfRevisions
    <3> QED BY <3>3 DEF InUse
  <2> HIDE DEF e
  <2> QED BY <2>7, <2>11, <2>12 DEF SinksTo
<1> QED BY <1>0, <1>1, <1>2, DeleteIs

(* 0001 down drops the tables.                                             *)
LEMMA BaseSinks ==
    ASSUME NEW d, DatabaseOK(d), d.rev = 1
    PROVE  SinksTo(d, At(Downgraded(d, 1), 0), 0)
<1>1. Downgraded(d, 1) = Empty /\ Empty # Refused
  BY MigrationAssumption DEF Downgraded, Empty, Refused, Head
<1>2. At(Empty, 0) = Empty
  BY <1>1 DEF At, Empty
<1>3. DatabaseOK(Empty) /\ ~InUse(Empty) /\ Empty.rev = 0
  BY LeaguesOfRevisions DEF Empty, DatabaseOK, RowsOK, TeamsOK, Referenced, InUse, Head
<1> QED BY <1>1, <1>2, <1>3 DEF SinksTo

(* Every revision sinks to the one before it.                              *)
LEMMA DowngradedSinks ==
    ASSUME NEW d, DatabaseOK(d), NEW rev \in 1..Head, d.rev = rev
    PROVE  SinksTo(d, At(Downgraded(d, rev), rev - 1), rev - 1)
<1>0. rev \in {1, 2, 3, 4, 5, 6, 7, 8}
  BY DEF Head
<1>1. CASE rev = 1
  BY <1>1, BaseSinks
<1>2. CASE rev \in {2, 3}
  BY <1>2, NothingSinks DEF Downgraded
<1>3. CASE rev = 4
  BY <1>3, ProviderSinks DEF Downgraded
<1>4. CASE rev = 5
  <2>1. LeaguesAt(4) = LeaguesAt(5) \ Affiliates /\ Affiliates \cap Espn = {}
    BY LeaguesOfRevisions
  <2> QED BY <1>4, <2>1, DeleteSinks DEF Downgraded, Reverted5
<1>5. CASE rev = 6
  <2>1. LeaguesAt(5) = LeaguesAt(6) \ {"milb-rookie"} /\ {"milb-rookie"} \cap Espn = {}
    BY LeaguesOfRevisions
  <2> QED BY <1>5, <2>1, DeleteSinks DEF Downgraded
<1>6. CASE rev = 7
  BY <1>6, BackfillSinks
<1>7. CASE rev = 8
  BY <1>7, HeadSinks
<1> QED BY <1>0, <1>1, <1>2, <1>3, <1>4, <1>5, <1>6, <1>7

-----------------------------------------------------------------------------
(* A whole command.                                                        *)

(* An upgrade over any number of revisions does what each of them does.    *)
LEMMA UpgradeRises ==
    ASSUME DatabaseOK(db), NEW target \in 0..Head, target > db.rev
    PROVE  RisesTo(db, UpTo(target), target)
<1>1. db.rev \in 0..Head /\ db.rev \in Nat /\ target \in Nat
  BY DEF DatabaseOK, Head
<1>2. PICK f : Climbs(f, db, db.rev, target) /\ UpTo(target) = f[target]
  BY <1>1, UpIs
<1>3. \A rev \in db.rev..target :
         f[rev] = IF rev = db.rev THEN db
                  ELSE IF f[rev - 1] = Refused THEN Refused
                  ELSE At(Upgraded(f[rev - 1], rev), rev)
  BY <1>2 DEF Climbs
<1> DEFINE T == {rev \in db.rev..target : ~RisesTo(db, f[rev], rev)}
<1>4. T = {}
  <2> SUFFICES ASSUME T # {} PROVE FALSE
    OBVIOUS
  <2>1. PICK m \in T : \A n \in T : m <= n
    <3>1. T \subseteq Nat
      BY <1>1
    <3> HIDE DEF T
    <3> QED BY <3>1, SmallestOf
  <2>2. CASE m = db.rev
    <3>1. f[m] = db /\ db # Refused
      BY <1>1, <1>3, <2>2, MigrationAssumption DEF Refused
    <3> QED BY <2>1, <2>2, <3>1 DEF RisesTo
  <2>3. CASE m # db.rev
    <3> DEFINE e == f[m - 1]
    <3>1. m \in db.rev..target /\ m - 1 \in db.rev..target /\ m \in 1..Head
      BY <1>1, <2>3 DEF Head
    <3>2. RisesTo(db, e, m - 1)
      <4>1. m - 1 \notin T
        <5>1. ~(m <= m - 1)
          BY <1>1, <3>1
        <5> HIDE DEF T
        <5> QED BY <2>1, <5>1
      <4> QED BY <3>1, <4>1
    <3>3. f[m] = IF e = Refused THEN Refused ELSE At(Upgraded(e, m), m)
      BY <1>3, <2>3, <3>1
    <3> HIDE DEF e
    <3>4. CASE e = Refused
      BY <2>1, <3>2, <3>3, <3>4 DEF RisesTo
    <3>5. CASE e # Refused
      <4>1. DatabaseOK(e) /\ e.rev = m - 1
        BY <3>2, <3>5 DEF RisesTo
      <4>2. RisesTo(e, f[m], m)
        BY <3>1, <3>3, <3>5, <4>1, UpgradedRises
      <4> QED BY <2>1, <3>2, <3>5, <4>2 DEF RisesTo
    <3> QED BY <3>4, <3>5
  <2> QED BY <2>2, <2>3
<1>5. target \in db.rev..target
  BY <1>1
<1> QED BY <1>2, <1>4, <1>5

(* So does a downgrade.                                                    *)
LEMMA DowngradeSinks ==
    ASSUME DatabaseOK(db), NEW target \in 0..Head, target < db.rev
    PROVE  SinksTo(db, DownTo(target), target)
<1>1. db.rev \in 0..Head /\ db.rev \in Nat /\ target \in Nat
  BY DEF DatabaseOK, Head
<1>2. PICK f : Descends(f, db, db.rev, target) /\ DownTo(target) = f[target]
  BY <1>1, DownIs
<1>3. \A rev \in target..db.rev :
         f[rev] = IF rev = db.rev THEN db
                  ELSE IF f[rev + 1] = Refused THEN Refused
                  ELSE At(Downgraded(f[rev + 1], rev + 1), rev)
  BY <1>2 DEF Descends
<1> DEFINE T == {n \in 0..(db.rev - target) : ~SinksTo(db, f[db.rev - n], db.rev - n)}
<1>4. T = {}
  <2> SUFFICES ASSUME T # {} PROVE FALSE
    OBVIOUS
  <2>1. PICK m \in T : \A n \in T : m <= n
    <3>1. T \subseteq Nat
      BY <1>1
    <3> HIDE DEF T
    <3> QED BY <3>1, SmallestOf
  <2> DEFINE rev == db.rev - m
  <2>0. m \in Nat /\ rev \in target..db.rev /\ ~SinksTo(db, f[rev], rev)
    BY <1>1, <2>1
  <2>2. CASE m = 0
    <3>1. rev = db.rev /\ f[rev] = db /\ db # Refused
      BY <1>1, <1>3, <2>0, <2>2, MigrationAssumption DEF Refused
    <3> HIDE DEF rev
    <3> QED BY <2>0, <3>1 DEF SinksTo
  <2>3. CASE m # 0
    <3> DEFINE e == f[rev + 1]
    <3>1. /\ rev # db.rev /\ rev + 1 \in target..db.rev /\ rev + 1 \in 1..Head
          /\ rev \in Nat /\ (rev + 1) - 1 = rev /\ rev + 1 > 0
      BY <1>1, <2>0, <2>3 DEF Head
    <3>2. SinksTo(db, e, rev + 1)
      <4>1. m - 1 \notin T
        <5>1. ~(m <= m - 1)
          BY <2>0
        <5> HIDE DEF T
        <5> QED BY <2>1, <5>1
      <4>2. m - 1 \in 0..(db.rev - target) /\ db.rev - (m - 1) = rev + 1
        BY <1>1, <2>0, <2>3
      <4> HIDE DEF rev
      <4> QED BY <4>1, <4>2
    <3>3. f[rev] = IF e = Refused THEN Refused ELSE At(Downgraded(e, rev + 1), rev)
      BY <1>3, <2>0, <3>1
    <3> HIDE DEF e, rev
    <3>4. CASE e = Refused
      BY <2>0, <3>2, <3>3, <3>4 DEF SinksTo
    <3>5. CASE e # Refused
      <4>1. DatabaseOK(e) /\ e.rev = rev + 1
        BY <3>2, <3>5 DEF SinksTo
      <4>2. SinksTo(e, f[rev], rev)
        BY <3>1, <3>3, <3>5, <4>1, DowngradedSinks
      <4> QED BY <2>0, <3>1, <3>2, <3>5, <4>2 DEF SinksTo
    <3> QED BY <3>4, <3>5
  <2> QED BY <2>2, <2>3
<1>5. db.rev - target \in 0..(db.rev - target) /\ db.rev - (db.rev - target) = target
  BY <1>1
<1>6. SinksTo(db, f[db.rev - (db.rev - target)], db.rev - (db.rev - target))
  BY <1>4, <1>5
<1> QED BY <1>2, <1>5, <1>6

-----------------------------------------------------------------------------
(* Every step keeps MigrationInv.                                          *)

(* The seed run and the operator: what becomes of a database whose rows,   *)
(* teams and aliases are changed at the same revision.                     *)
LEMMA Touched ==
    ASSUME DatabaseOK(db), NEW rows, RowsOK(db.rev, rows), Ids(db) \subseteq {l.id : l \in rows},
           NEW teams, TeamsOK(db.rev, teams),
           NEW aliases, db.rev < 7 => aliases = {},
           {t.league : t \in teams} \cup aliases \subseteq Ids(db),
           db' = [rev |-> db.rev, leagues |-> rows, teams |-> teams, aliases |-> aliases]
    PROVE  DatabaseOK(db')
<1>1. /\ db'.rev = db.rev /\ db'.leagues = rows /\ db'.teams = teams /\ db'.aliases = aliases
      /\ db' = [rev |-> db'.rev, leagues |-> db'.leagues,
                teams |-> db'.teams, aliases |-> db'.aliases]
  OBVIOUS
<1>2. Referenced(db') \subseteq Ids(db')
  BY <1>1 DEF Referenced, Ids
<1> QED BY <1>1, <1>2 DEF DatabaseOK

(* A command takes effect or is refused for a reason.                      *)
LEMMA UpgradeStep ==
    ASSUME MigrationInv, NEW target \in 0..Head, Upgrade(target)
    PROVE  /\ MigrationInv'
           /\ TeamLeagues(db') = TeamLeagues(db)
           /\ last'.from = db.rev /\ last'.to = target /\ target > db.rev
           /\ ~last'.done => Strange(db)
<1> DEFINE e == UpTo(target)
<1>1. DatabaseOK(db) /\ target > db.rev /\ Take(target, e)
  BY DEF MigrationInv, Upgrade
<1>2. RisesTo(db, e, target)
  BY <1>1, UpgradeRises
<1> HIDE DEF e
<1>3. /\ db' = IF e = Refused THEN db ELSE e
      /\ last' = [from |-> db.rev, to |-> target, done |-> e # Refused]
      /\ seed' = seed
  BY <1>1 DEF Take
<1>4. DatabaseOK(db') /\ TeamLeagues(db') = TeamLeagues(db)
  BY <1>1, <1>2, <1>3 DEF RisesTo
<1>5. /\ last' = [from |-> last'.from, to |-> last'.to, done |-> last'.done]
      /\ last'.from = db.rev /\ last'.to = target /\ last'.done = (e # Refused)
  BY <1>3
<1>6. last'.from \in 0..Head /\ last'.to \in 0..Head /\ last'.done \in BOOLEAN
  BY <1>1, <1>5 DEF DatabaseOK
<1>7. ~last'.done => Strange(db)
  BY <1>2, <1>5 DEF RisesTo
<1> QED BY <1>1, <1>3, <1>4, <1>5, <1>6, <1>7 DEF MigrationInv, SeedOK

(* A downgrade keeps the invariant, and the teams unless it goes to base.  *)
LEMMA DowngradeStep ==
    ASSUME MigrationInv, NEW target \in 0..Head, Downgrade(target)
    PROVE  /\ MigrationInv'
           /\ db'.rev > 0 => TeamLeagues(db') = TeamLeagues(db)
           /\ last'.from = db.rev /\ last'.to = target /\ target < db.rev
           /\ ~last'.done => InUse(db)
<1> DEFINE e == DownTo(target)
<1>1. DatabaseOK(db) /\ target < db.rev /\ Take(target, e)
  BY DEF MigrationInv, Downgrade
<1>2. SinksTo(db, e, target)
  BY <1>1, DowngradeSinks
<1> HIDE DEF e
<1>3. /\ db' = IF e = Refused THEN db ELSE e
      /\ last' = [from |-> db.rev, to |-> target, done |-> e # Refused]
      /\ seed' = seed
  BY <1>1 DEF Take
<1>4. DatabaseOK(db') /\ (db'.rev > 0 => TeamLeagues(db') = TeamLeagues(db))
  BY <1>1, <1>2, <1>3 DEF SinksTo
<1>5. /\ last' = [from |-> last'.from, to |-> last'.to, done |-> last'.done]
      /\ last'.from = db.rev /\ last'.to = target /\ last'.done = (e # Refused)
  BY <1>3
<1>6. last'.from \in 0..Head /\ last'.to \in 0..Head /\ last'.done \in BOOLEAN
  BY <1>1, <1>5 DEF DatabaseOK
<1>7. ~last'.done => InUse(db)
  BY <1>2, <1>5 DEF SinksTo
<1> QED BY <1>1, <1>3, <1>4, <1>5, <1>6, <1>7 DEF MigrationInv, SeedOK

(* A seed run selects a league that is seeded; since 0007 it stores the    *)
(* sport that the row has already, and the aliases of that row.            *)
LEMMA SeedLeagueStep ==
    ASSUME MigrationInv, NEW slug \in Seedable, SeedLeague(slug)
    PROVE  MigrationInv' /\ TeamLeagues(db') = TeamLeagues(db)
<1>1. DatabaseOK(db)
  BY DEF MigrationInv
<1>2. PICK l \in db.leagues :
        /\ l.slug = slug
        /\ seed' = l.id
        /\ db' = IF db.rev < 7 THEN db
                 ELSE [db EXCEPT !.leagues = (@ \ {l}) \cup {[l EXCEPT !.sportId = l.sport]},
                                 !.aliases = IF slug \in Aliased THEN @ \cup {l.id} ELSE @]
  BY DEF SeedLeague
<1>3. RowOK(db.rev, l)
  BY <1>1 DEF DatabaseOK, RowsOK
<1>4. seed' \in SeededIds
  BY <1>2, <1>3 DEF RowOK, SeededIds
<1>5. DatabaseOK(db') /\ TeamLeagues(db') = TeamLeagues(db)
  <2>1. CASE db.rev < 7
    BY <1>1, <1>2, <2>1
  <2>2. CASE ~(db.rev < 7)
    <3> DEFINE aliases == IF slug \in Aliased THEN db.aliases \cup {l.id} ELSE db.aliases
    <3>1. [l EXCEPT !.sportId = l.sport] = l
      <4>1. l.sportId = l.sport
        BY <1>1, <1>3, <2>2 DEF RowOK, DatabaseOK, Head
      <4> QED BY <1>3, <4>1 DEF RowOK
    <3>2. (db.leagues \ {l}) \cup {[l EXCEPT !.sportId = l.sport]} = db.leagues
      BY <3>1
    <3>3. db' = [rev |-> db.rev, leagues |-> db.leagues, teams |-> db.teams,
                 aliases |-> aliases]
      BY <1>1, <1>2, <2>2, <3>2 DEF DatabaseOK
    <3>4. {t.league : t \in db.teams} \cup aliases \subseteq Ids(db)
      BY <1>1 DEF DatabaseOK, Referenced, Ids
    <3> HIDE DEF aliases
    <3>5. RowsOK(db.rev, db.leagues) /\ TeamsOK(db.rev, db.teams)
      BY <1>1 DEF DatabaseOK
    <3>6. DatabaseOK(db')
      BY <1>1, <2>2, <3>3, <3>4, <3>5, Touched DEF Ids
    <3> QED BY <3>3, <3>6 DEF TeamLeagues
  <2> QED BY <2>1, <2>2
<1>6. last' = last
  BY DEF SeedLeague
<1> QED BY <1>4, <1>5, <1>6 DEF MigrationInv, SeedOK

(* A team is inserted for a seeded league with a row, which before 0005 is *)
(* one of ESPN's.                                                          *)
LEMMA SeedTeamStep ==
    ASSUME MigrationInv, SeedTeam
    PROVE  MigrationInv' /\ TeamLeagues(db) \subseteq TeamLeagues(db')
<1>1. DatabaseOK(db) /\ seed \in SeededIds /\ seed' = seed /\ last' = last
  BY DEF MigrationInv, SeedOK, SeedTeam
<1>2. CASE seed \notin Ids(db)
  <2>1. db' = db
    BY <1>2 DEF SeedTeam
  <2> QED BY <1>1, <2>1 DEF MigrationInv, SeedOK, TeamLeagues
<1>3. CASE seed \in Ids(db)
  <2> DEFINE new == [league |-> seed, provider |-> ProviderColumn(seed)]
             others == {t \in db.teams : t.league # seed}
             teams == others \cup {new}
  <2>1. db' = [rev |-> db.rev, leagues |-> db.leagues, teams |-> teams, aliases |-> db.aliases]
    BY <1>1, <1>3 DEF SeedTeam, DatabaseOK
  <2>2. new = [league |-> new.league, provider |-> new.provider] /\ new.league = seed
        /\ new.provider = ProviderColumn(seed)
    OBVIOUS
  <2>3. db.rev < 5 => seed \in Espn
    <3>1. PICK l \in db.leagues : l.id = seed
      BY <1>3 DEF Ids
    <3>2. RowOK(db.rev, l)
      BY <1>1 DEF DatabaseOK, RowsOK
    <3>3. seed \notin StraySlugs
      BY <1>1, MigrationAssumption DEF SeededIds, StraySlugs
    <3>4. db.rev < 5 => LeaguesAt(db.rev) \subseteq Espn
      BY <1>1 DEF LeaguesAt, DatabaseOK, Head
    <3> QED BY <1>1, <3>1, <3>2, <3>3, <3>4 DEF RowOK
  <2>4. TeamsOK(db.rev, {new})
    <3> HIDE DEF new
    <3> QED BY <1>1, <2>2, <2>3 DEF TeamsOK, ProviderColumn
  <2>5. TeamsOK(db.rev, teams)
    <3> HIDE DEF new
    <3> QED BY <1>1, <2>4 DEF TeamsOK, DatabaseOK
  <2>6. {t.league : t \in teams} = {t.league : t \in db.teams} \cup {seed}
    <3> HIDE DEF new
    <3> QED BY <2>2
  <2> HIDE DEF teams
  <2>7. DatabaseOK(db')
    <3>1. {t.league : t \in teams} \cup db.aliases \subseteq Ids(db)
      BY <1>1, <1>3, <2>6 DEF DatabaseOK, Referenced
    <3>2. RowsOK(db.rev, db.leagues) /\ (db.rev < 7 => db.aliases = {})
      BY <1>1 DEF DatabaseOK
    <3> QED BY <1>1, <2>1, <2>5, <3>1, <3>2, Touched DEF Ids
  <2>8. TeamLeagues(db) \subseteq TeamLeagues(db')
    BY <2>1, <2>6 DEF TeamLeagues
  <2> QED BY <1>1, <2>7, <2>8 DEF MigrationInv, SeedOK
<1> QED BY <1>2, <1>3

(* What an operator adds is a stray, which no revision up to 7 minds.      *)
LEMMA AddByHandStep ==
    ASSUME MigrationInv, NEW stray \in Strays, AddByHand(stray)
    PROVE  MigrationInv' /\ TeamLeagues(db') = TeamLeagues(db)
<1>1. DatabaseOK(db) /\ seed' = seed /\ last' = last /\ db.rev \in 1..6
  BY DEF MigrationInv, AddByHand
<1> DEFINE new == [id |-> stray.slug, slug |-> stray.slug, sport |-> stray.sport, sportId |-> Null]
           rows == db.leagues \cup {new}
<1>2. stray.slug \in StraySlugs /\ stray.slug \notin Slugs(db)
  BY DEF StraySlugs, AddByHand
<1>3. /\ new = [id |-> new.id, slug |-> new.slug, sport |-> new.sport, sportId |-> new.sportId]
      /\ new.id = stray.slug /\ new.slug = stray.slug /\ new.sportId = Null
  OBVIOUS
<1>4. db' = [rev |-> db.rev, leagues |-> rows, teams |-> db.teams, aliases |-> db.aliases]
  BY <1>1 DEF AddByHand, DatabaseOK
<1> HIDE DEF new
<1>5. RowOK(db.rev, new)
  BY <1>1, <1>2, <1>3 DEF RowOK
<1>6. RowsOK(db.rev, rows)
  <2>1. RowsOK(db.rev, db.leagues)
    BY <1>1 DEF DatabaseOK
  <2>2. \A j, k \in rows : j.slug = k.slug => j = k
    BY <1>2, <1>3, <2>1 DEF RowsOK, Slugs
  <2> QED BY <1>1, <1>5, <2>1, <2>2 DEF RowsOK
<1>7. Ids(db) \subseteq {l.id : l \in rows}
  BY DEF Ids
<1> HIDE DEF rows
<1>8. DatabaseOK(db')
  <2>1. {t.league : t \in db.teams} \cup db.aliases \subseteq Ids(db)
    BY <1>1 DEF DatabaseOK, Referenced
  <2>2. TeamsOK(db.rev, db.teams) /\ (db.rev < 7 => db.aliases = {})
    BY <1>1 DEF DatabaseOK
  <2> QED BY <1>1, <1>4, <1>6, <1>7, <2>1, <2>2, Touched
<1>9. TeamLeagues(db') = TeamLeagues(db)
  BY <1>4 DEF TeamLeagues
<1> QED BY <1>1, <1>8, <1>9 DEF MigrationInv, SeedOK

(* A row to be corrected is a stray, and 0007 has not run.                 *)
LEMMA CorrectByHandStep ==
    ASSUME MigrationInv, NEW l \in db.leagues, CorrectByHand(l)
    PROVE  MigrationInv' /\ TeamLeagues(db') = TeamLeagues(db)
<1>1. DatabaseOK(db) /\ seed' = seed /\ last' = last /\ l.sport \notin Sports
  BY DEF MigrationInv, CorrectByHand
<1>2. RowsOK(db.rev, db.leagues) /\ RowOK(db.rev, l)
  BY <1>1 DEF DatabaseOK, RowsOK
<1>3. PICK sport \in Sports :
        db' = [db EXCEPT !.leagues = (@ \ {l}) \cup {[l EXCEPT !.sport = sport]}]
  BY DEF CorrectByHand
<1> DEFINE new == [l EXCEPT !.sport = sport]
           rows == (db.leagues \ {l}) \cup {new}
<1>4. new = [id |-> l.id, slug |-> l.slug, sport |-> sport, sportId |-> l.sportId]
  BY <1>2 DEF RowOK
<1>5. db' = [rev |-> db.rev, leagues |-> rows, teams |-> db.teams, aliases |-> db.aliases]
  BY <1>1, <1>3 DEF DatabaseOK
<1> HIDE DEF new
<1>6. /\ new = [id |-> new.id, slug |-> new.slug, sport |-> new.sport, sportId |-> new.sportId]
      /\ new.id = l.id /\ new.slug = l.slug /\ new.sport = sport /\ new.sportId = l.sportId
  BY <1>4
<1>7. RowOK(db.rev, new)
  BY <1>1, <1>2, <1>6 DEF RowOK
<1>8. RowsOK(db.rev, rows) /\ Ids(db) \subseteq {k.id : k \in rows}
  <2>1. \A j, k \in rows : j.slug = k.slug => j = k
    BY <1>2, <1>6 DEF RowsOK
  <2>2. \A k \in db.leagues : \E j \in rows : j.slug = k.slug /\ j.id = k.id
    BY <1>6
  <2>3. \A j \in rows : \E k \in db.leagues : j.slug = k.slug
    BY <1>6
  <2>4. \A j \in rows : RowOK(db.rev, j)
    BY <1>2, <1>7 DEF RowsOK
  <2> HIDE DEF rows
  <2>5. LeaguesAt(db.rev) \subseteq {k.slug : k \in rows}
    BY <1>2, <2>2 DEF RowsOK
  <2>6. db.rev = 8 => \A j \in rows : j.slug # "milb-single-a"
    BY <1>2, <2>3 DEF RowsOK
  <2> QED BY <2>1, <2>2, <2>4, <2>5, <2>6 DEF RowsOK, Ids
<1> HIDE DEF rows
<1>9. DatabaseOK(db')
  <2>1. {t.league : t \in db.teams} \cup db.aliases \subseteq Ids(db)
    BY <1>1 DEF DatabaseOK, Referenced
  <2>2. TeamsOK(db.rev, db.teams) /\ (db.rev < 7 => db.aliases = {})
    BY <1>1 DEF DatabaseOK
  <2> QED BY <1>1, <1>5, <1>8, <2>1, <2>2, Touched
<1>10. TeamLeagues(db') = TeamLeagues(db)
  BY <1>5 DEF TeamLeagues
<1> QED BY <1>1, <1>9, <1>10 DEF MigrationInv, SeedOK

LEMMA SeedEndsStep ==
    ASSUME MigrationInv, SeedEnds
    PROVE  MigrationInv' /\ db' = db /\ last' = last
BY DEF MigrationInv, SeedEnds, SeedOK

-----------------------------------------------------------------------------
(* The empty database is that of revision 0.                               *)
LEMMA InitMigration == Init => MigrationInv
<1> SUFFICES ASSUME Init PROVE MigrationInv
  OBVIOUS
<1>1. DatabaseOK(Empty)
  BY LeaguesOfRevisions DEF Empty, DatabaseOK, RowsOK, TeamsOK, Referenced, Head
<1>2. last = [from |-> last.from, to |-> last.to, done |-> last.done]
      /\ last.from = 0 /\ last.to = 0 /\ last.done = TRUE
  BY DEF Init
<1> QED BY <1>1, <1>2 DEF Init, MigrationInv, SeedOK, Head

LEMMA StepKeepsMigration == MigrationInv /\ [Next]_vars => MigrationInv'
<1> SUFFICES ASSUME MigrationInv, [Next]_vars PROVE MigrationInv'
  OBVIOUS
<1>1. CASE \E target \in 0..Head : Upgrade(target) \/ Downgrade(target)
  BY <1>1, UpgradeStep, DowngradeStep
<1>2. CASE \E slug \in Seedable : SeedLeague(slug)
  BY <1>2, SeedLeagueStep
<1>3. CASE SeedTeam
  BY <1>3, SeedTeamStep
<1>4. CASE SeedEnds
  BY <1>4, SeedEndsStep
<1>5. CASE \E stray \in Strays : AddByHand(stray)
  BY <1>5, AddByHandStep
<1>6. CASE \E l \in db.leagues : CorrectByHand(l)
  BY <1>6, CorrectByHandStep
<1>7. CASE UNCHANGED vars
  BY <1>7 DEF vars, MigrationInv, SeedOK
<1> QED BY <1>1, <1>2, <1>3, <1>4, <1>5, <1>6, <1>7 DEF Next

(* The inductive invariant: what every table holds at every revision.      *)
THEOREM InvariantHolds == Spec => []MigrationInv
BY InitMigration, StepKeepsMigration, PTL DEF Spec

(* Every variable stays in its type, and the columns are there from their  *)
(* revision on.                                                            *)
THEOREM TypesHold == Spec => []TypeOK
<1>1. MigrationInv => TypeOK
  <2> SUFFICES ASSUME MigrationInv PROVE TypeOK
    OBVIOUS
  <2>1. \A l \in db.leagues : RowOK(db.rev, l)
    BY DEF MigrationInv, DatabaseOK, RowsOK
  <2>2. \A t \in db.teams : t.provider = IF db.rev >= 4 THEN Provider(t.league) ELSE Null
    BY DEF MigrationInv, DatabaseOK, TeamsOK
  <2>3. \A l \in db.leagues : IF db.rev >= 7 THEN l.sportId \in Sports ELSE l.sportId = Null
    BY <2>1 DEF RowOK
  <2>4. \A t \in db.teams :
           IF db.rev >= 4 THEN t.provider \in {"espn", "mlb"} ELSE t.provider = Null
    BY <2>2 DEF Provider
  <2> QED BY <2>3, <2>4 DEF TypeOK, MigrationInv, DatabaseOK
<1> QED BY <1>1, InvariantHolds, PTL

(* Whatever the order of upgrades, downgrades, seed runs and repairs, the  *)
(* leagues that the code of a revision seeds have their rows.              *)
THEOREM LeaguesHaveRows == Spec => []KnownLeaguesHaveRows
<1>1. MigrationInv => KnownLeaguesHaveRows
  BY DEF MigrationInv, DatabaseOK, RowsOK, KnownLeaguesHaveRows, Slugs
<1> QED BY <1>1, InvariantHolds, PTL

(* The provider that 0004 gives the teams and the sport that 0007 gives    *)
(* the leagues are the right ones, after a downgrade too; both listings    *)
(* show every league, under one sport.                                     *)
THEOREM BackfillsHold == Spec => []BackfillsAreRight
<1>1. MigrationInv => ProviderIsRight
  BY DEF MigrationInv, DatabaseOK, TeamsOK, ProviderIsRight
<1>2. MigrationInv => ListingsAgree
  <2> SUFFICES ASSUME MigrationInv, db.rev >= 7 PROVE ListingsAgree
    BY DEF ListingsAgree
  <2>1. \A l \in db.leagues : l.sportId = l.sport /\ l.sport \in Sports
    BY DEF MigrationInv, DatabaseOK, RowsOK, RowOK
  <2>2. \A l \in db.leagues : l.slug \in SportsListing[l.sport]
    BY <2>1 DEF SportsListing
  <2>3. \A l \in db.leagues : [slug |-> l.slug, sport |-> l.sport] \in LeaguesListing
    BY <2>1 DEF LeaguesListing
  <2>4. ASSUME NEW e \in LeaguesListing PROVE e.slug \in SportsListing[e.sport]
    <3>1. PICK l \in db.leagues : e = [slug |-> l.slug, sport |-> l.sportId]
      BY DEF LeaguesListing
    <3>2. e.slug = l.slug /\ e.sport = l.sport
      BY <2>1, <3>1
    <3> QED BY <2>2, <3>2
  <2> QED BY <2>2, <2>3, <2>4 DEF ListingsAgree
<1> QED BY <1>1, <1>2, InvariantHolds, PTL DEF BackfillsAreRight

(* An upgrade fails only over a row that somebody inserted by hand, a      *)
(* downgrade only over a league in use: of all the revisions of a command  *)
(* none is in the way of another, in either direction.                     *)
THEOREM RefusalsAreExplained == Spec => RefusalsHaveAReason
<1>1. MigrationInv /\ [Next]_vars => [RefusedForAReason]_last
  <2> SUFFICES ASSUME MigrationInv, [Next]_vars, last' # last PROVE RefusedForAReason
    OBVIOUS
  <2>1. PICK target \in 0..Head : Upgrade(target) \/ Downgrade(target)
    BY DEF Next, vars, SeedLeague, SeedTeam, SeedEnds, AddByHand, CorrectByHand
  <2>2. db.rev \in 0..Head
    BY DEF MigrationInv, DatabaseOK
  <2>3. CASE Upgrade(target)
    <3>1. last'.from < last'.to /\ (~last'.done => Strange(db))
      BY <2>2, <2>3, UpgradeStep DEF Head
    <3>2. Strange(db) => \E l \in db.leagues : HandMade(l)
      BY DEF Strange, HandMade, StraySlugs, MigrationInv, DatabaseOK, RowsOK, RowOK
    <3> QED BY <3>1, <3>2 DEF RefusedForAReason
  <2>4. CASE Downgrade(target)
    <3>1. ~(last'.from < last'.to) /\ (~last'.done => InUse(db))
      BY <2>2, <2>4, DowngradeStep DEF Head
    <3> QED BY <3>1 DEF RefusedForAReason, InUse
  <2> QED BY <2>1, <2>3, <2>4
<1> QED BY <1>1, InvariantHolds, PTL DEF Spec, RefusalsHaveAReason

(* Short of a downgrade to base no step loses a seeded team, and none      *)
(* leaves a team or an alias of no league.                                 *)
THEOREM TeamsSurvive == Spec => SeededTeamsSurvive
<1> DEFINE Survive == db'.rev > 0 =>
              /\ {t.league : t \in db.teams} \subseteq {t.league : t \in db'.teams}
              /\ Referenced(db') \subseteq Ids(db')
<1>1. MigrationInv /\ [Next]_vars => [Survive]_db
  <2> SUFFICES ASSUME MigrationInv, [Next]_vars, db' # db, db'.rev > 0
               PROVE  /\ TeamLeagues(db) \subseteq TeamLeagues(db')
                      /\ Referenced(db') \subseteq Ids(db')
    BY DEF TeamLeagues
  <2>1. Referenced(db') \subseteq Ids(db')
    BY StepKeepsMigration DEF MigrationInv, DatabaseOK
  <2>2. TeamLeagues(db) \subseteq TeamLeagues(db')
    <3>1. ~UNCHANGED vars /\ ~SeedEnds
      BY DEF vars, SeedEnds
    <3> QED BY <3>1, UpgradeStep, DowngradeStep, SeedLeagueStep, SeedTeamStep,
               AddByHandStep, CorrectByHandStep DEF Next
  <2> QED BY <2>1, <2>2
<1> QED BY <1>1, InvariantHolds, PTL DEF Spec, SeededTeamsSurvive
=============================================================================
