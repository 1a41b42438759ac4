--------------------------- MODULE SeedRunProofs ---------------------------
(***************************************************************************)
(* Theorems about SeedRun, for any number of overlapping runs over any     *)
(* leagues, teams and aliases, of runs that fail anywhere, and of renders  *)
(* beside them; then about ProviderFetch, the calls that the runs make to  *)
(* the providers.                                                          *)
(***************************************************************************)
EXTENDS SeedRun, ProviderFetch, FiniteSetTheorems, WellFoundedInduction, TLAPS

Runs == [at : Places, league : Nat \ {0}, fetched : 1..MaxVersion \cup {None},
         todo : SUBSET Listed, shield : Shields \cup {None}, team : Listed \cup {None}]

IsRunning(x) == x.at \notin {"idle"} \cup Ended

(* What a run x of s has in hand at each place.                            *)
RunIsPlaced(s, x) ==
    /\ x.at = "idle" => x.league = 1
    /\ x.at \in {"league", "upsert", "logo"} => x.fetched # None
    /\ x.at = "logo" => x.team # None
    /\ IsRunning(x) \/ x.at = "done" =>
          \A i \in DOMAIN LeaguesOf[s] : LeaguesOf[s][i] \in Leagues
    /\ IsRunning(x) /\ x.at \notin {"scan", "flush"} =>
          x.league \in DOMAIN LeaguesOf[s]
Placed == \A s \in Seeds : RunIsPlaced(s, seed[s])

TypeInv == TypeOK /\ Placed

(* The type of everything but the runs.                                    *)
WorldOK ==
    /\ offered \in 1..MaxVersion
    /\ advertised \subseteq LeagueRows
    /\ row \in [Listed -> 1..MaxVersion \cup {None}]
    /\ owner \in [Aliases -> Listed \cup {None}]
    /\ logoKey \in [LogoKeys -> {"cold", "warm", "expired"}]
    /\ render \in [Renders -> [team : Listed, version : 1..MaxVersion] \cup {None, Stored}]
    /\ image \in [Listed -> [version : 1..MaxVersion, by : Renders] \cup {None}]
    /\ late \subseteq Renders

-----------------------------------------------------------------------------
(* The steps of one run, and those of the world, one disjunct for each.    *)
LEMMA StepCases ==
    ASSUME [Next]_vars
    PROVE  \/ \E s \in Seeds : SeedStep(s) \/ SeedFails(s)
           \/ \E r \in Renders : ReadRow(r)
           \/ \E r \in Renders : StoreImage(r)
           \/ ProviderChanges
           \/ \E key \in LogoKeys : LogoExpires(key)
           \/ \E team \in Listed : ImageExpires(team)
           \/ UNCHANGED vars
BY DEF Next, Rest

(* A league a run is at is one of KNOWN_LEAGUES, and its teams are listed. *)
LEMMA LeagueIsKnown ==
    ASSUME Placed, NEW s \in Seeds, Running(s), seed[s].at \notin {"scan", "flush"}
    PROVE  League(s) \in Leagues /\ Teams[League(s)] \subseteq Listed
BY DEF Placed, RunIsPlaced, IsRunning, Running, League, Listed

(* The type invariant, run by run and for what the runs share.             *)
LEMMA TypeParts == TypeOK <=> seed \in [Seeds -> Runs] /\ WorldOK
BY DEF TypeOK, WorldOK, Runs

(* A run goes from one placed state to another; the others stay.           *)
Advances(s) ==
    /\ seed'[s] \in Runs /\ RunIsPlaced(s, seed'[s])
    /\ seed' = [seed EXCEPT ![s] = seed'[s]]

(* So types hold if the run that moved is placed, and the rest typed.      *)
LEMMA RunMoves ==
    ASSUME TypeInv, NEW s \in Seeds, Advances(s), WorldOK'
    PROVE  TypeInv'
<1>1. seed \in [Seeds -> Runs] /\ \A t \in Seeds : RunIsPlaced(t, seed[t])
  BY TypeParts DEF TypeInv, Placed
<1>2. seed' \in [Seeds -> Runs] /\ \A t \in Seeds : RunIsPlaced(t, seed'[t])
  BY <1>1 DEF Advances
<1>3. TypeOK'
  BY <1>2 DEF TypeOK, WorldOK, Runs
<1> QED BY <1>2, <1>3 DEF TypeInv, Placed, RunIsPlaced

-----------------------------------------------------------------------------
LEMMA TypeInit == Init => TypeInv
BY SeedAssumption
DEF Init, TypeInv, TypeOK, Placed, RunIsPlaced, IsRunning, Places, Ended

LEMMA TypeStep == TypeInv /\ [Next]_vars => TypeInv'
<1> SUFFICES ASSUME TypeInv, [Next]_vars PROVE TypeInv'
  OBVIOUS
<1>0. TypeOK /\ Placed
  BY DEF TypeInv
<1> USE DEF registry
<1>1. ASSUME NEW s \in Seeds, SeedStep(s) \/ SeedFails(s) PROVE TypeInv'
  <2> DEFINE x == seed[s]
  <2>0. x \in Runs /\ RunIsPlaced(s, x) /\ seed \in [Seeds -> Runs] /\ WorldOK
    BY <1>0, TypeParts DEF Placed
  <2>a. x.at \in {"shield", "update", "default", "dark", "teams", "league", "upsert", "logo"} =>
           League(s) \in Leagues /\ Teams[League(s)] \subseteq Listed
    BY <1>0, LeagueIsKnown DEF Running, Ended
  <2>b. /\ Len(LeaguesOf[s]) \in Nat /\ DOMAIN LeaguesOf[s] = 1..Len(LeaguesOf[s])
        /\ LeaguesOf[s] = <<>> <=> Len(LeaguesOf[s]) = 0
    BY SeedAssumption
  <2> USE SeedAssumption DEF At, Goto
  <2>1. CASE Start(s)
    <3> DEFINE p == IF \E i \in DOMAIN LeaguesOf[s] : LeaguesOf[s][i] \notin Leagues
                    THEN "failed"
                    ELSE IF LeaguesOf[s] = <<>> THEN "scan" ELSE "shield"
    <3>1. Advances(s)
      <4>1. x.at = "idle" /\ seed' = [seed EXCEPT ![s].at = p]
        BY <2>1 DEF Start
      <4>2. /\ p \in {"failed", "scan", "shield"}
            /\ p # "failed" => \A i \in DOMAIN LeaguesOf[s] : LeaguesOf[s][i] \in Leagues
            /\ p = "shield" => 1 \in DOMAIN LeaguesOf[s]
        BY <2>b
      <4> HIDE DEF p
      <4>3. seed'[s] = [x EXCEPT !.at = p] /\ seed' = [seed EXCEPT ![s] = seed'[s]]
        BY <2>0, <4>1
      <4> QED BY <2>0, <4>1, <4>2, <4>3 DEF Advances, Runs, RunIsPlaced, IsRunning, Places, Ended
    <3>2. WorldOK'
      BY <2>0, <2>1, <2>b DEF Start, WorldOK, Runs, RunIsPlaced
    <3> QED BY <3>1, <3>2, RunMoves
  <2>2. CASE FetchShield(s)
    <3>1. Advances(s)
      <4>1. PICK shield \in Shields :
               seed' = [seed EXCEPT ![s].at = "update", ![s].shield = shield]
        BY <2>2 DEF FetchShield, EspnShields, MlbShields
      <4>2. seed'[s] = [x EXCEPT !.at = "update", !.shield = shield] /\ seed' = [seed EXCEPT ![s] = seed'[s]]
        BY <2>0, <4>1
      <4> QED BY <2>0, <2>2, <4>1, <4>2 DEF FetchShield, Advances, Runs, RunIsPlaced, IsRunning, Places, Ended
    <3>2. WorldOK'
      BY <2>0, <2>2 DEF FetchShield, EspnShields, MlbShields, WorldOK, Runs, RunIsPlaced
    <3> QED BY <3>1, <3>2, RunMoves
  <2>3. CASE UpdateLeague(s)
    <3>1. Advances(s)
      BY <2>0, <2>3, <2>a DEF UpdateLeague, Advances, Runs, RunIsPlaced, IsRunning, Places, Ended
    <3>2. WorldOK'
      BY <2>0, <2>3, <2>a DEF UpdateLeague, WorldOK, Runs, RunIsPlaced
    <3> QED BY <3>1, <3>2, RunMoves
  <2>4. CASE WarmDefault(s)
    <3>1. Advances(s)
      BY <2>0, <2>4, <2>a DEF WarmDefault, Advances, Runs, RunIsPlaced, IsRunning, Places, Ended
    <3>2. WorldOK'
      BY <2>0, <2>4, <2>a DEF WarmDefault, Warm, LogoKeys, WorldOK, Runs, RunIsPlaced
    <3> QED BY <3>1, <3>2, RunMoves
  <2>5. CASE WarmDark(s)
    <3>1. Advances(s)
      BY <2>0, <2>5, <2>a DEF WarmDark, Advances, Runs, RunIsPlaced, IsRunning, Places, Ended
    <3>2. WorldOK'
      <4>1. League(s) \in Leagues /\ <<League(s), "dark">> \in LogoKeys
        BY <2>5, <2>a DEF WarmDark, LogoKeys
      <4>2. logoKey' \in [LogoKeys -> {"cold", "warm", "expired"}]
        BY <2>0, <2>5, <4>1 DEF WarmDark, Warm, WorldOK
      <4> QED BY <2>0, <2>5, <4>2 DEF WarmDark, WorldOK
    <3> QED BY <3>1, <3>2, RunMoves
  <2>6. CASE FetchTeams(s)
    <3>1. Advances(s)
      <4>1. /\ seed' = [seed EXCEPT ![s].at = "league", ![s].fetched = offered,
                                     ![s].todo = Teams[League(s)]]
            /\ x.at = "teams" /\ offered \in 1..MaxVersion /\ offered # None
            /\ Teams[League(s)] \subseteq Listed
        BY <2>0, <2>6, <2>a DEF FetchTeams, WorldOK
      <4>2. seed'[s] = [x EXCEPT !.at = "league", !.fetched = offered,
                                     !.todo = Teams[League(s)]] /\ seed' = [seed EXCEPT ![s] = seed'[s]]
        BY <2>0, <4>1
      <4> QED BY <2>0, <2>6, <4>1, <4>2 DEF FetchTeams, Advances, Runs, RunIsPlaced, IsRunning, Places, Ended
    <3>2. WorldOK'
      BY <2>0, <2>6, <2>a DEF FetchTeams, WorldOK, Runs, RunIsPlaced
    <3> QED BY <3>1, <3>2, RunMoves
  <2>7. CASE SelectLeague(s)
    <3>1. Advances(s)
      BY <2>0, <2>7 DEF SelectLeague, Advances, Runs, RunIsPlaced, IsRunning, Places, Ended
    <3>2. WorldOK'
      BY <2>0, <2>7 DEF SelectLeague, WorldOK, Runs, RunIsPlaced
    <3> QED BY <3>1, <3>2, RunMoves
  <2>8. CASE UpsertTeam(s)
    <3>1. Advances(s)
      <4>1. PICK team \in x.todo :
               seed' = [seed EXCEPT ![s].at = "logo", ![s].todo = @ \ {team},
                                    ![s].team = team]
        BY <2>8 DEF UpsertTeam
      <4>2. seed'[s] = [x EXCEPT !.at = "logo", !.todo = @ \ {team},
                                 !.team = team] /\ seed' = [seed EXCEPT ![s] = seed'[s]]
        BY <2>0, <4>1
      <4>3. /\ x.at = "upsert" /\ team \in Listed /\ team # None
            /\ x.todo \ {team} \in SUBSET Listed
        BY <2>0, <2>8, <4>1 DEF UpsertTeam, Runs
      <4>4. seed'[s] \in Runs
        BY <2>0, <4>2, <4>3 DEF Runs, Places
      <4>5. RunIsPlaced(s, seed'[s])
        BY <2>0, <4>2, <4>3 DEF Runs, RunIsPlaced, IsRunning, Ended
      <4> QED BY <4>2, <4>4, <4>5 DEF Advances
    <3>2. WorldOK'
      BY <2>0, <2>8 DEF UpsertTeam, WorldOK, Runs, RunIsPlaced
    <3> QED BY <3>1, <3>2, RunMoves
  <2>9. CASE WarmTeam(s)
    <3>1. Advances(s)
      BY <2>0, <2>9 DEF WarmTeam, Advances, Runs, RunIsPlaced, IsRunning, Places, Ended
    <3>2. WorldOK'
      BY <2>0, <2>9 DEF WarmTeam, Warm, LogoKeys, WorldOK, Runs, RunIsPlaced
    <3> QED BY <3>1, <3>2, RunMoves
  <2>10. CASE NextLeague(s)
    <3>1. Advances(s)
      <4>1. CASE x.league < Len(LeaguesOf[s])
        <5>1. seed' = [seed EXCEPT ![s] = [x EXCEPT !.at = "shield", !.fetched = None,
                                                    !.league = x.league + 1]]
          BY <2>10, <4>1 DEF NextLeague
        <5>2. /\ seed'[s] = [x EXCEPT !.at = "shield", !.fetched = None,
                                      !.league = x.league + 1]
              /\ seed' = [seed EXCEPT ![s] = seed'[s]]
          BY <2>0, <5>1
        <5>3. /\ x.at = "upsert" /\ x.league \in Nat \ {0}
              /\ x.league + 1 \in Nat \ {0} /\ x.league + 1 \in DOMAIN LeaguesOf[s]
          BY <2>0, <2>10, <2>b, <4>1 DEF NextLeague, Runs
        <5>4. seed'[s] \in Runs
          <6> DEFINE n == x.league + 1
          <6>1. n \in Nat \ {0} /\ "shield" \in Places
            BY <5>3 DEF Places
          <6>2. seed'[s] = [x EXCEPT !.at = "shield", !.fetched = None, !.league = n]
            BY <5>2
          <6> HIDE DEF n
          <6> QED BY <2>0, <6>1, <6>2 DEF Runs
        <5>5. RunIsPlaced(s, seed'[s])
          BY <2>0, <5>2, <5>3 DEF Runs, RunIsPlaced, IsRunning, Ended
        <5> QED BY <5>2, <5>4, <5>5 DEF Advances
      <4>2. CASE ~(x.league < Len(LeaguesOf[s]))
        <5>1. seed' = [seed EXCEPT ![s] = [x EXCEPT !.at = "scan", !.fetched = None]]
          BY <2>10, <4>2 DEF NextLeague
        <5>2. seed'[s] = [x EXCEPT !.at = "scan", !.fetched = None] /\ x.at = "upsert"
          BY <2>0, <2>10, <5>1 DEF NextLeague
        <5> QED BY <2>0, <5>1, <5>2 DEF Advances, Runs, RunIsPlaced, IsRunning, Places, Ended
      <4> QED BY <4>1, <4>2
    <3>2. WorldOK'
      BY <2>0, <2>10, <2>b DEF NextLeague, WorldOK, Runs, RunIsPlaced
    <3> QED BY <3>1, <3>2, RunMoves
  <2>11. CASE StartScan(s)
    <3>1. Advances(s)
      BY <2>0, <2>11 DEF StartScan, Advances, Runs, RunIsPlaced, IsRunning, Places, Ended
    <3>2. WorldOK'
      BY <2>0, <2>11 DEF StartScan, WorldOK, Runs, RunIsPlaced
    <3> QED BY <3>1, <3>2, RunMoves
  <2>12. CASE Flush(s)
    <3>1. Advances(s)
      <4>1. PICK team \in x.todo : seed' = [seed EXCEPT ![s].todo = @ \ {team}]
        BY <2>12 DEF Flush
      <4>2. seed'[s] = [x EXCEPT !.todo = @ \ {team}] /\ seed' = [seed EXCEPT ![s] = seed'[s]]
        BY <2>0, <4>1
      <4> QED BY <2>0, <2>12, <4>1, <4>2 DEF Flush, Advances, Runs, RunIsPlaced, IsRunning, Places, Ended
    <3>2. WorldOK'
      BY <2>0, <2>12 DEF Flush, InFlight, WorldOK, Runs, RunIsPlaced
    <3> QED BY <3>1, <3>2, RunMoves
  <2>13. CASE FlushDone(s)
    <3>1. Advances(s)
      BY <2>0, <2>13 DEF FlushDone, End, Advances, Runs, RunIsPlaced, IsRunning, Places, Ended
    <3>2. WorldOK'
      BY <2>0, <2>13 DEF FlushDone, End, WorldOK, Runs, RunIsPlaced
    <3> QED BY <3>1, <3>2, RunMoves
  <2>14. CASE SeedFails(s)
    <3>1. Advances(s)
      BY <2>0, <2>14 DEF SeedFails, End, Advances, Runs, RunIsPlaced, IsRunning, Places, Ended
    <3>2. WorldOK'
      BY <2>0, <2>14 DEF SeedFails, End, WorldOK, Runs, RunIsPlaced
    <3> QED BY <3>1, <3>2, RunMoves
  <2> QED BY <1>1, <2>1, <2>2, <2>3, <2>4, <2>5, <2>6, <2>7, <2>8, <2>9, <2>10,
             <2>11, <2>12, <2>13, <2>14 DEF SeedStep
<1> USE DEF TypeInv, TypeOK, Placed, RunIsPlaced
<1>2. ASSUME NEW r \in Renders, ReadRow(r) PROVE TypeInv'
  BY <1>2, SeedAssumption DEF ReadRow
<1>3. ASSUME NEW r \in Renders, StoreImage(r) PROVE TypeInv'
  BY <1>3, SeedAssumption DEF StoreImage, InFlight
<1>4. CASE ProviderChanges
  BY <1>4, SeedAssumption DEF ProviderChanges
<1>5. ASSUME NEW key \in LogoKeys, LogoExpires(key) PROVE TypeInv'
  BY <1>5 DEF LogoExpires
<1>6. ASSUME NEW team \in Listed, ImageExpires(team) PROVE TypeInv'
  BY <1>6 DEF ImageExpires
<1>7. CASE UNCHANGED vars
  BY <1>7 DEF vars
<1> QED BY <1>1, <1>2, <1>3, <1>4, <1>5, <1>6, <1>7, StepCases

(* Type correctness: every reachable state is one of its type, and a run   *)
(* is always at a league it was asked for and the registry knows.          *)
THEOREM TypesHold == Spec => []TypeInv
BY TypeInit, TypeStep, PTL DEF Spec

-----------------------------------------------------------------------------
(* A row is stored with its aliases, and an alias is never taken back, so  *)
(* that a run that stores the same row finds each alias claimed.           *)
RowsAreNamed ==
    \A team \in Listed : row[team] # None =>
        \A a \in AliasesOf[team] : owner[a] # None

NamedInv == TypeInv /\ RowsAreNamed

-----------------------------------------------------------------------------
(* A run x that is still to delete the image of a team.                    *)
IsPending(x, team) == IsRunning(x) /\ (x.at = "flush" => team \in x.todo)
IsCause(x, team) == x.at = "failed" \/ IsPending(x, team)
Cause(team) == \E s \in Seeds : IsCause(seed[s], team)

(* What is old, stored or about to be, escaped a flush or has one to come. *)
StoredInv == \A team \in Listed : Stale(team) => image[team].by \in late \/ Cause(team)
ReadInv == \A r \in InFlight : render[r].version # row[render[r].team] =>
               r \in late \/ Cause(render[r].team)
StaleInv == TypeInv /\ StoredInv /\ ReadInv

-----------------------------------------------------------------------------
(* What a run x of s has warmed so far, keys being the logo keys.          *)
LeagueIsWarm(l, keys) ==
    /\ keys[<<l, "default">>] # "cold"
    /\ \A team \in Teams[l] : keys[team] # "cold"
HasCovered(x, i) ==
    \/ x.at \in {"scan", "flush", "done"}
    \/ IsRunning(x) /\ i < x.league
RunIsWarm(s, x, keys) ==
    /\ \A i \in DOMAIN LeaguesOf[s] : HasCovered(x, i) => LeagueIsWarm(LeaguesOf[s][i], keys)
    /\ x.at \in {"dark", "teams", "league", "upsert", "logo"} =>
          keys[<<LeaguesOf[s][x.league], "default">>] # "cold"
    /\ x.at \in {"league", "upsert", "logo"} =>
          \A team \in Teams[LeaguesOf[s][x.league]] :
              \/ keys[team] # "cold" \/ team \in x.todo
              \/ x.at = "logo" /\ team = x.team

(* An advertised dark logo is in Redis, or the run x that advertised it is *)
(* about to store it, or has failed.                                       *)
WillWarmDark(s, x, l) ==
    \/ x.at = "failed"
    \/ x.at \in {"default", "dark"} /\ LeaguesOf[s][x.league] = l /\ x.shield.advertised
DarkIsWarm ==
    \A l \in advertised \cap Leagues :
        \/ logoKey[<<l, "dark">>] # "cold"
        \/ \E s \in Seeds : WillWarmDark(s, seed[s], l)

WarmInv == TypeInv /\ (\A s \in Seeds : RunIsWarm(s, seed[s], logoKey)) /\ DarkIsWarm

-----------------------------------------------------------------------------
(* A run that moves leaves the other runs where they are.                  *)
LEMMA OthersStay ==
    ASSUME TypeInv, NEW s \in Seeds, SeedStep(s) \/ SeedFails(s)
    PROVE  \A t \in Seeds \ {s} : seed'[t] = seed[t]
<1>1. seed \in [Seeds -> Runs]
  BY TypeParts DEF TypeInv
<1> QED BY <1>1 DEF SeedStep, SeedFails, Start, FetchShield, UpdateLeague, WarmDefault,
       WarmDark, FetchTeams, SelectLeague, UpsertTeam, WarmTeam, NextLeague, StartScan,
       Flush, FlushDone, Goto, End

(* Only a run's transaction changes the registry.                          *)
LEMMA RegistrySteps ==
    ASSUME [Next]_vars
    PROVE  UNCHANGED registry \/ \E s \in Seeds : UpsertTeam(s)
<1>1. ASSUME NEW s \in Seeds, SeedStep(s) \/ SeedFails(s)
      PROVE  UNCHANGED registry \/ UpsertTeam(s)
  BY <1>1 DEF SeedStep, SeedFails, Start, FetchShield, UpdateLeague, WarmDefault,
       WarmDark, FetchTeams, SelectLeague, WarmTeam, NextLeague, StartScan,
       Flush, FlushDone, registry
<1> QED BY <1>1, StepCases
        DEF ReadRow, StoreImage, ProviderChanges, LogoExpires, ImageExpires, vars, registry

(* What the transaction of one team does to the registry.                  *)
LEMMA UpsertEffect ==
    ASSUME TypeInv, NEW s \in Seeds, UpsertTeam(s)
    PROVE  \E team \in Listed :
              /\ row' = [row EXCEPT ![team] = seed[s].fetched]
              /\ seed[s].fetched \in 1..MaxVersion
              /\ owner' = [a \in Aliases |-> IF Claims(team, a) THEN team ELSE owner[a]]
<1>1. seed[s] \in Runs /\ RunIsPlaced(s, seed[s])
  BY TypeParts DEF TypeInv, Placed
<1> QED BY <1>1 DEF UpsertTeam, At, RunIsPlaced, Runs

LEMMA NamedStep == NamedInv /\ [Next]_vars => NamedInv'
<1> SUFFICES ASSUME NamedInv, [Next]_vars PROVE RowsAreNamed'
  BY TypeStep DEF NamedInv
<1>0. /\ TypeInv /\ row \in [Listed -> 1..MaxVersion \cup {None}]
      /\ owner \in [Aliases -> Listed \cup {None}]
  BY DEF NamedInv, TypeInv, TypeOK
<1>1. CASE UNCHANGED registry
  BY <1>1 DEF NamedInv, RowsAreNamed, registry
<1>2. ASSUME NEW s \in Seeds, UpsertTeam(s) PROVE RowsAreNamed'
  <2>1. PICK team \in Listed :
           /\ row' = [row EXCEPT ![team] = seed[s].fetched]
           /\ owner' = [a \in Aliases |-> IF Claims(team, a) THEN team ELSE owner[a]]
    BY <1>0, <1>2, UpsertEffect
  <2>2. ASSUME NEW a \in Aliases, owner[a] # None \/ a \in AliasesOf[team]
        PROVE  owner'[a] # None
    BY <1>0, <2>1, <2>2, SeedAssumption DEF Claims
  <2> QED BY <1>0, <2>1, <2>2, SeedAssumption DEF NamedInv, RowsAreNamed
<1> QED BY <1>1, <1>2, RegistrySteps

(* Re-seeding is idempotent, whatever teams collide on whatever aliases.   *)
THEOREM ReseedingIsIdempotent == Spec => ReseedIsIdempotent
<1>1. Init => NamedInv
  BY TypeInit DEF NamedInv, RowsAreNamed, Init
<1>2. NamedInv /\ [Next]_vars => [row' = row => owner' = owner]_registry
  <2> SUFFICES ASSUME NamedInv, NEW s \in Seeds, UpsertTeam(s), row' = row
               PROVE  owner' = owner
    BY RegistrySteps
  <2>0. /\ TypeInv /\ row \in [Listed -> 1..MaxVersion \cup {None}]
        /\ owner \in [Aliases -> Listed \cup {None}]
    BY DEF NamedInv, TypeInv, TypeOK
  <2>1. PICK team \in Listed :
           /\ row' = [row EXCEPT ![team] = seed[s].fetched]
           /\ seed[s].fetched \in 1..MaxVersion
           /\ owner' = [a \in Aliases |-> IF Claims(team, a) THEN team ELSE owner[a]]
    BY <2>0, UpsertEffect
  <2>2. row[team] # None
    BY <2>0, <2>1, SeedAssumption
  <2>3. \A a \in Aliases : ~Claims(team, a)
    BY <2>2 DEF NamedInv, RowsAreNamed, Claims
  <2> QED BY <2>0, <2>1, <2>3
<1> QED BY <1>1, <1>2, NamedStep, PTL DEF Spec, ReseedIsIdempotent

-----------------------------------------------------------------------------
(* A run stays a cause of a team's stale image until it deletes the image. *)
LEMMA CausesStay ==
    ASSUME TypeInv, NEW s \in Seeds, SeedStep(s) \/ SeedFails(s), ~Flush(s),
           NEW team \in Listed, Cause(team)
    PROVE  Cause(team)'
<1>1. seed \in [Seeds -> Runs]
  BY TypeParts DEF TypeInv
<1>2. SUFFICES ASSUME IsCause(seed[s], team) PROVE IsCause(seed'[s], team)
  <2>1. PICK t \in Seeds : IsCause(seed[t], team)
    BY DEF Cause
  <2> QED BY <1>2, <2>1, OthersStay DEF Cause
<1>3. seed[s].at # "failed"
  BY DEF SeedStep, SeedFails, Start, FetchShield, UpdateLeague, WarmDefault,
       WarmDark, FetchTeams, SelectLeague, UpsertTeam, WarmTeam, NextLeague, StartScan,
       FlushDone, At, Running, Ended
<1>4. ASSUME FetchShield(s) \/ UpdateLeague(s) \/ WarmDefault(s) \/ WarmDark(s)
             \/ FetchTeams(s) \/ UpsertTeam(s) \/ WarmTeam(s) \/ Start(s) \/ SelectLeague(s)
      PROVE  seed'[s].at \notin {"idle", "done", "flush"}
  <2>a. ASSUME NEW p \in {"failed", "scan", "shield", "default", "dark", "upsert"}, Goto(s, p)
        PROVE  seed'[s].at \notin {"idle", "done", "flush"}
    BY <1>1, <2>a DEF Goto, Runs
  <2>1. CASE Start(s) \/ UpdateLeague(s) \/ WarmDefault(s) \/ SelectLeague(s)
    BY <2>a, <2>1 DEF Start, UpdateLeague, WarmDefault, SelectLeague
  <2>2. CASE FetchShield(s)
    BY <1>1, <2>2 DEF FetchShield, Runs
  <2>3. CASE WarmDark(s)
    BY <1>1, <2>3 DEF WarmDark, Runs
  <2>4. CASE FetchTeams(s) \/ WarmTeam(s)
    BY <1>1, <2>4 DEF FetchTeams, WarmTeam, Runs
  <2>5. CASE UpsertTeam(s)
    BY <1>1, <2>5 DEF UpsertTeam, Runs
  <2> QED BY <1>4, <2>1, <2>2, <2>3, <2>4, <2>5
<1>5. ASSUME NextLeague(s) PROVE seed'[s].at \notin {"idle", "done", "flush"}
  BY <1>1, <1>5 DEF NextLeague, Runs
<1>6. ASSUME StartScan(s) PROVE seed'[s].at = "flush" /\ seed'[s].todo = Listed
  BY <1>1, <1>6 DEF StartScan, Runs
<1>7. ~FlushDone(s)
  BY <1>2, <1>3 DEF FlushDone, At, IsCause, IsPending
<1>8. ASSUME SeedFails(s) PROVE seed'[s].at = "failed"
  BY <1>1, <1>8 DEF SeedFails, End
<1> QED BY <1>4, <1>5, <1>6, <1>7, <1>8 DEF SeedStep, IsCause, IsPending, IsRunning, Ended

(* Only a flush and the world touch the images and the renders.            *)
LEMMA RunsKeepImages ==
    ASSUME NEW s \in Seeds, SeedStep(s) \/ SeedFails(s), ~Flush(s)
    PROVE  UNCHANGED <<image, render, late>>
BY DEF SeedStep, SeedFails, Start, FetchShield, UpdateLeague, WarmDefault,
       WarmDark, FetchTeams, SelectLeague, UpsertTeam, WarmTeam, NextLeague, StartScan,
       FlushDone

LEMMA StaleStep == StaleInv /\ [Next]_vars => StaleInv'
<1> SUFFICES ASSUME StaleInv, [Next]_vars PROVE StoredInv' /\ ReadInv'
  BY TypeStep DEF StaleInv
<1>0. /\ TypeInv /\ StoredInv /\ ReadInv
      /\ seed \in [Seeds -> Runs] /\ WorldOK
  BY TypeParts DEF StaleInv, TypeInv
<1>1. ASSUME NEW s \in Seeds, SeedStep(s) \/ SeedFails(s), ~Flush(s)
      PROVE  StoredInv' /\ ReadInv'
  <2>1. \A team \in Listed : Cause(team) => Cause(team)'
    BY <1>0, <1>1, CausesStay
  <2>2. UNCHANGED <<image, render, late>>
    BY <1>1, RunsKeepImages
  <2>3. CASE UpsertTeam(s)
    <3>1. seed'[s].at = "logo"
      BY <1>0, <2>3 DEF UpsertTeam, Runs
    <3>2. \A team \in Listed : Cause(team)'
      BY <3>1 DEF Cause, IsCause, IsPending, IsRunning, Ended
    <3>3. \A r \in InFlight' : render'[r].team \in Listed
      BY <1>0, <2>2 DEF InFlight, WorldOK
    <3> QED BY <3>2, <3>3 DEF StoredInv, ReadInv
  <2>4. CASE UNCHANGED registry
    <3>1. \A team \in Listed : Stale(team)' <=> Stale(team)
      BY <2>2, <2>4 DEF Stale, registry
    <3>2. InFlight' = InFlight /\ \A r \in InFlight : render[r].team \in Listed
      BY <1>0, <2>2 DEF InFlight, WorldOK
    <3>3. StoredInv'
      BY <1>0, <2>1, <2>2, <3>1 DEF StoredInv
    <3>4. ReadInv'
      BY <1>0, <2>1, <2>2, <2>4, <3>2 DEF ReadInv, registry
    <3> QED BY <3>3, <3>4
  <2>5. UpsertTeam(s) \/ UNCHANGED registry
    BY <1>1 DEF SeedStep, SeedFails, Start, FetchShield, UpdateLeague, WarmDefault,
         WarmDark, FetchTeams, SelectLeague, WarmTeam, NextLeague, StartScan,
         FlushDone, registry
  <2> QED BY <2>3, <2>4, <2>5
<1>2. ASSUME NEW s \in Seeds, Flush(s) PROVE StoredInv' /\ ReadInv'
  <2>1. PICK gone \in seed[s].todo :
           /\ image' = [image EXCEPT ![gone] = None]
           /\ seed' = [seed EXCEPT ![s].todo = @ \ {gone}]
    BY <1>2 DEF Flush
  <2>2. /\ seed[s].at = "flush" /\ late' = late \cup InFlight
        /\ row' = row /\ render' = render
    BY <1>2 DEF Flush, At, registry
  <2>3. ASSUME NEW team \in Listed, team # gone, Cause(team) PROVE Cause(team)'
    <3>1. PICK t \in Seeds : IsCause(seed[t], team)
      BY <2>3 DEF Cause
    <3>2. CASE t = s
      <4>1. seed'[s].at = "flush" /\ team \in seed'[s].todo
        BY <1>0, <2>1, <2>2, <2>3, <3>1, <3>2 DEF IsCause, IsPending, Runs
      <4> QED BY <4>1 DEF Cause, IsCause, IsPending, IsRunning, Ended
    <3>3. CASE t # s
      <4>1. seed'[t] = seed[t]
        BY <1>0, <2>1, <3>3
      <4> QED BY <3>1, <4>1 DEF Cause
    <3> QED BY <3>2, <3>3
  <2>4. StoredInv'
    <3> SUFFICES ASSUME NEW team \in Listed, Stale(team)'
                 PROVE  image'[team].by \in late' \/ Cause(team)'
      BY DEF StoredInv
    <3>1. team # gone /\ image'[team] = image[team]
      BY <1>0, <2>1 DEF Stale, WorldOK
    <3> QED BY <1>0, <2>2, <2>3, <3>1 DEF StoredInv, Stale
  <2>5. ReadInv'
    BY <2>2 DEF ReadInv, InFlight
  <2> QED BY <2>4, <2>5
<1>3. ASSUME UNCHANGED <<seed, row, late>> PROVE \A team \in Listed : Cause(team)' <=> Cause(team)
  BY <1>3 DEF Cause
<1>4. ASSUME NEW r \in Renders, ReadRow(r) PROVE StoredInv' /\ ReadInv'
  <2>1. PICK team \in Listed :
           /\ render' = [render EXCEPT ![r] = [team |-> team, version |-> row[team]]]
           /\ UNCHANGED <<seed, row, image, late>>
    BY <1>4 DEF ReadRow, registry
  <2>2. StoredInv'
    BY <1>0, <1>3, <2>1 DEF StoredInv, Stale
  <2>3. \A q \in InFlight' : \/ q \in InFlight /\ render'[q] = render[q]
                             \/ render'[q].version = row[render'[q].team]
    BY <1>0, <2>1 DEF InFlight, WorldOK
  <2>4. \A q \in InFlight : render[q].team \in Listed
    BY <1>0 DEF InFlight, WorldOK
  <2> QED BY <1>0, <1>3, <2>1, <2>2, <2>3, <2>4 DEF ReadInv
<1>5. ASSUME NEW r \in Renders, StoreImage(r) PROVE StoredInv' /\ ReadInv'
  <2> DEFINE team == render[r].team
  <2>1. /\ r \in InFlight /\ UNCHANGED <<seed, row, late>>
        /\ image' = [image EXCEPT ![team] = [version |-> render[r].version, by |-> r]]
        /\ render' = [render EXCEPT ![r] = Stored]
    BY <1>5 DEF StoreImage, registry
  <2>2. \A q \in InFlight : render[q].team \in Listed
    BY <1>0 DEF InFlight, WorldOK
  <2>3. \A t \in Listed \ {team} : image'[t] = image[t]
    BY <1>0, <2>1 DEF WorldOK
  <2>4. image'[team] = [version |-> render[r].version, by |-> r]
    BY <1>0, <2>1, <2>2 DEF WorldOK
  <2>5. StoredInv'
    <3> SUFFICES ASSUME NEW t \in Listed, Stale(t)'
                 PROVE  image'[t].by \in late' \/ Cause(t)'
      BY DEF StoredInv
    <3>1. CASE t = team
      BY <1>0, <1>3, <2>1, <2>4, <3>1 DEF ReadInv, Stale
    <3>2. CASE t # team
      BY <1>0, <1>3, <2>1, <2>3, <3>2 DEF StoredInv, Stale
    <3> QED BY <3>1, <3>2
  <2>6. \A q \in InFlight' : q \in InFlight /\ render'[q] = render[q]
    BY <1>0, <2>1 DEF InFlight, WorldOK
  <2>7. ReadInv'
    BY <1>0, <1>3, <2>1, <2>2, <2>6 DEF ReadInv
  <2> QED BY <2>5, <2>7
<1>6. ASSUME NEW team \in Listed, ImageExpires(team) PROVE StoredInv' /\ ReadInv'
  <2>1. /\ image' = [image EXCEPT ![team] = None]
        /\ UNCHANGED <<seed, row, late, render>>
    BY <1>6 DEF ImageExpires, registry
  <2>2. \A t \in Listed : Stale(t)' => Stale(t) /\ image'[t] = image[t]
    BY <1>0, <2>1 DEF Stale, WorldOK
  <2>3. InFlight' = InFlight /\ \A q \in InFlight : render[q].team \in Listed
    BY <1>0, <2>1 DEF InFlight, WorldOK
  <2> QED BY <1>0, <1>3, <2>1, <2>2, <2>3 DEF StoredInv, ReadInv
<1>7. ASSUME UNCHANGED <<seed, registry, image, render, late>> PROVE StoredInv' /\ ReadInv'
  <2>1. InFlight' = InFlight /\ \A q \in InFlight : render[q].team \in Listed
    BY <1>0, <1>7 DEF InFlight, WorldOK
  <2> QED BY <1>0, <1>3, <1>7, <2>1 DEF StoredInv, ReadInv, Stale, registry
<1> QED BY <1>1, <1>2, <1>4, <1>5, <1>6, <1>7, StepCases
        DEF ProviderChanges, LogoExpires, vars

(* Between runs an image of old data has one of two causes, however runs   *)
(* and renders overlap.                                                    *)
THEOREM StaleImagesHaveACause == Spec => []StaleImageHasACause
<1>1. Init => StaleInv
  BY TypeInit DEF StaleInv, StoredInv, ReadInv, Stale, InFlight, Init
<1>2. StaleInv => StaleImageHasACause
  BY DEF StaleInv, StoredInv, StaleImageHasACause, Quiet, Cause, IsCause, IsPending,
         IsRunning, Running, At
<1> QED BY <1>1, <1>2, StaleStep, PTL DEF Spec

-----------------------------------------------------------------------------
(* A logo key that was warmed is never cold again.                         *)
LEMMA KeysStayWarm ==
    ASSUME TypeInv, [Next]_vars
    PROVE  \A key \in LogoKeys : logoKey[key] # "cold" => logoKey'[key] # "cold"
<1>1. logoKey \in [LogoKeys -> {"cold", "warm", "expired"}]
  BY DEF TypeInv, TypeOK
<1>2. ASSUME NEW key, Warm(key)
      PROVE  \A k \in LogoKeys : logoKey[k] # "cold" => logoKey'[k] # "cold"
  BY <1>1, <1>2 DEF Warm
<1>3. ASSUME NEW key \in LogoKeys, LogoExpires(key)
      PROVE  \A k \in LogoKeys : logoKey[k] # "cold" => logoKey'[k] # "cold"
  BY <1>1, <1>3 DEF LogoExpires
<1>4. ASSUME NEW s \in Seeds, SeedStep(s) \/ SeedFails(s)
      PROVE  UNCHANGED logoKey \/ \E key : Warm(key)
  BY <1>4 DEF SeedStep, SeedFails, Start, FetchShield, UpdateLeague, WarmDefault,
       WarmDark, FetchTeams, SelectLeague, UpsertTeam, WarmTeam, NextLeague, StartScan,
       Flush, FlushDone
<1>5. \/ UNCHANGED logoKey \/ \E key : Warm(key)
      \/ \E key \in LogoKeys : LogoExpires(key)
  BY <1>4, StepCases DEF ReadRow, StoreImage, ProviderChanges, ImageExpires, vars
<1> QED BY <1>2, <1>3, <1>5

(* What a run has warmed stays warm while the run stays where it is.       *)
LEMMA WarmRunsStayWarm ==
    ASSUME TypeInv, [Next]_vars, NEW s \in Seeds, RunIsWarm(s, seed[s], logoKey)
    PROVE  RunIsWarm(s, seed[s], logoKey')
<1> DEFINE x == seed[s]
<1>1. x \in Runs /\ RunIsPlaced(s, x)
  BY TypeParts DEF TypeInv, Placed
<1>2. ASSUME NEW l \in Leagues
      PROVE  /\ <<l, "default">> \in LogoKeys
             /\ \A team \in Teams[l] : team \in LogoKeys
  BY DEF LogoKeys, Listed
<1>3. \A i \in DOMAIN LeaguesOf[s] : HasCovered(x, i) => LeaguesOf[s][i] \in Leagues
  BY <1>1 DEF HasCovered, RunIsPlaced, IsRunning, Ended
<1>4. x.at \in {"dark", "teams", "league", "upsert", "logo"} => LeaguesOf[s][x.league] \in Leagues
  BY <1>1 DEF RunIsPlaced, IsRunning, Ended
<1> HIDE DEF x
<1>5. \A i \in DOMAIN LeaguesOf[s] :
         HasCovered(x, i) => LeagueIsWarm(LeaguesOf[s][i], logoKey')
  BY <1>2, <1>3, KeysStayWarm DEF RunIsWarm, LeagueIsWarm, x
<1>6. x.at \in {"dark", "teams", "league", "upsert", "logo"} =>
         logoKey'[<<LeaguesOf[s][x.league], "default">>] # "cold"
  BY <1>2, <1>4, KeysStayWarm DEF RunIsWarm, x
<1>7. x.at \in {"league", "upsert", "logo"} =>
         \A team \in Teams[LeaguesOf[s][x.league]] :
            \/ logoKey'[team] # "cold" \/ team \in x.todo
            \/ x.at = "logo" /\ team = x.team
  BY <1>2, <1>4, KeysStayWarm DEF RunIsWarm, x
<1> QED BY <1>5, <1>6, <1>7 DEF RunIsWarm, x

(* A run that moves has warmed what its new place says.                    *)
LEMMA RunsWarmAsTheyGo ==
    ASSUME TypeInv, [Next]_vars, NEW s \in Seeds, SeedStep(s) \/ SeedFails(s),
           RunIsWarm(s, seed[s], logoKey)
    PROVE  RunIsWarm(s, seed'[s], logoKey')
<1> DEFINE x == seed[s]
           y == seed'[s]
<1>0. /\ x \in Runs /\ RunIsPlaced(s, x) /\ seed \in [Seeds -> Runs]
      /\ RunIsWarm(s, x, logoKey')
      /\ logoKey \in [LogoKeys -> {"cold", "warm", "expired"}]
  BY TypeParts, WarmRunsStayWarm DEF TypeInv, TypeOK, Placed
<1>a. x.at \in {"shield", "update", "default", "dark", "teams", "league", "upsert", "logo"} =>
         League(s) \in Leagues /\ Teams[League(s)] \subseteq Listed
  BY LeagueIsKnown DEF TypeInv, Running, Ended
<1>b. /\ Len(LeaguesOf[s]) \in Nat /\ DOMAIN LeaguesOf[s] = 1..Len(LeaguesOf[s])
      /\ LeaguesOf[s] = <<>> <=> Len(LeaguesOf[s]) = 0
  BY SeedAssumption
<1>c. ASSUME y.league = x.league, IsRunning(x),
             x.at \notin {"scan", "flush"}, y.at \notin {"scan", "flush", "done"}
      PROVE  \A i \in DOMAIN LeaguesOf[s] :
                HasCovered(y, i) => LeagueIsWarm(LeaguesOf[s][i], logoKey')
  BY <1>0, <1>c DEF HasCovered, RunIsWarm, IsRunning
<1>1. CASE Start(s)
  <2>1. PICK p \in {"failed", "scan", "shield"} :
           y = [x EXCEPT !.at = p] /\ (p = "scan" => LeaguesOf[s] = <<>>)
    BY <1>0, <1>1 DEF Start, Goto
  <2>2. (y.at \in {"failed", "shield"} /\ y.league = 1) \/ DOMAIN LeaguesOf[s] = {}
    BY <1>0, <1>1, <1>b, <2>1 DEF Start, At, Runs, RunIsPlaced
  <2>3. y.at \in {"failed", "shield", "scan"}
    BY <1>0, <2>1 DEF Runs
  <2> QED BY <1>b, <2>2, <2>3 DEF RunIsWarm, HasCovered, IsRunning, Ended
<1>2. CASE FetchShield(s) \/ UpdateLeague(s)
  <2>1. /\ x.at \in {"shield", "update"} /\ y.at \in {"update", "default"}
        /\ y.league = x.league
    BY <1>0, <1>2 DEF FetchShield, UpdateLeague, Goto, At, Runs
  <2> QED BY <1>c, <2>1 DEF RunIsWarm, IsRunning, Ended
<1>3. CASE WarmDefault(s)
  <2>1. x.at = "default" /\ y.at = "dark" /\ y.league = x.league
    BY <1>0, <1>3 DEF WarmDefault, Goto, At, Runs
  <2>2. <<League(s), "default">> \in LogoKeys
    BY <1>a, <2>1 DEF LogoKeys
  <2>3. logoKey'[<<LeaguesOf[s][x.league], "default">>] = "warm"
    BY <1>0, <1>3, <2>2 DEF WarmDefault, Warm, League
  <2> QED BY <1>c, <2>1, <2>3 DEF RunIsWarm, IsRunning, Ended
<1>4. CASE WarmDark(s)
  <2>1. x.at = "dark" /\ y.at = "teams" /\ y.league = x.league
    BY <1>0, <1>4 DEF WarmDark, At, Runs
  <2> QED BY <1>0, <1>c, <2>1 DEF RunIsWarm, IsRunning, Ended
<1>5. CASE FetchTeams(s)
  <2>1. /\ x.at = "teams" /\ y.at = "league" /\ y.league = x.league
        /\ y.todo = Teams[LeaguesOf[s][x.league]]
    BY <1>0, <1>5 DEF FetchTeams, At, Runs, League
  <2> QED BY <1>0, <1>c, <2>1 DEF RunIsWarm, IsRunning, Ended
<1>6. CASE SelectLeague(s)
  <2>1. /\ x.at = "league" /\ y.at \in {"upsert", "failed"} /\ y.league = x.league
        /\ y.todo = x.todo
    BY <1>0, <1>6 DEF SelectLeague, Goto, At, Runs
  <2> QED BY <1>0, <1>c, <2>1 DEF RunIsWarm, IsRunning, Ended
<1>7. CASE UpsertTeam(s)
  <2>1. PICK team \in x.todo :
           /\ x.at = "upsert" /\ y.at = "logo" /\ y.league = x.league
           /\ y.todo = x.todo \ {team} /\ y.team = team
    BY <1>0, <1>7 DEF UpsertTeam, At, Runs
  <2> QED BY <1>0, <1>c, <2>1 DEF RunIsWarm, IsRunning, Ended
<1>8. CASE WarmTeam(s)
  <2>1. /\ x.at = "logo" /\ y.at = "upsert" /\ y.league = x.league
        /\ y.todo = x.todo
    BY <1>0, <1>8 DEF WarmTeam, At, Runs
  <2>2. x.team \in LogoKeys /\ logoKey'[x.team] = "warm"
    BY <1>0, <1>8, <2>1 DEF WarmTeam, Warm, LogoKeys, Runs, RunIsPlaced
  <2> QED BY <1>0, <1>c, <2>1, <2>2 DEF RunIsWarm, IsRunning, Ended
<1>9. CASE NextLeague(s)
  <2>1. x.at = "upsert" /\ x.todo = {} /\ x.league \in DOMAIN LeaguesOf[s]
    BY <1>0, <1>9 DEF NextLeague, At, RunIsPlaced, IsRunning, Ended
  <2>2. LeagueIsWarm(LeaguesOf[s][x.league], logoKey')
    BY <1>0, <2>1 DEF RunIsWarm, LeagueIsWarm
  <2>3. \A i \in DOMAIN LeaguesOf[s] : i <= x.league => LeagueIsWarm(LeaguesOf[s][i], logoKey')
    <3> SUFFICES ASSUME NEW i \in DOMAIN LeaguesOf[s], i <= x.league
                 PROVE  LeagueIsWarm(LeaguesOf[s][i], logoKey')
      OBVIOUS
    <3>1. i = x.league \/ i < x.league
      BY <1>b, <2>1
    <3> QED BY <1>0, <2>1, <2>2, <3>1 DEF RunIsWarm, HasCovered, IsRunning, Ended
  <2>4. \/ y.at = "shield" /\ y.league = x.league + 1
        \/ y.at = "scan" /\ x.league = Len(LeaguesOf[s])
    <3>1. CASE x.league < Len(LeaguesOf[s])
      <4>1. seed' = [seed EXCEPT ![s] = [x EXCEPT !.at = "shield", !.fetched = None,
                                                  !.league = x.league + 1]]
        BY <1>9, <3>1 DEF NextLeague
      <4> QED BY <1>0, <4>1 DEF Runs
    <3>2. CASE ~(x.league < Len(LeaguesOf[s]))
      <4>1. seed' = [seed EXCEPT ![s] = [x EXCEPT !.at = "scan", !.fetched = None]]
        BY <1>9, <3>2 DEF NextLeague
      <4> QED BY <1>0, <1>b, <2>1, <3>2, <4>1 DEF Runs
    <3> QED BY <3>1, <3>2
  <2>5. \A i \in DOMAIN LeaguesOf[s] : HasCovered(y, i) => i <= x.league
    BY <1>b, <2>1, <2>4 DEF HasCovered
  <2> QED BY <2>3, <2>4, <2>5 DEF RunIsWarm
<1>10. CASE StartScan(s) \/ Flush(s) \/ FlushDone(s)
  <2>1. /\ x.at \in {"scan", "flush"} /\ y.at \in {"flush", "done"}
    BY <1>0, <1>10 DEF StartScan, Flush, FlushDone, End, At, Runs
  <2> QED BY <1>0, <2>1 DEF RunIsWarm, HasCovered
<1>11. CASE SeedFails(s)
  <2>1. y.at = "failed"
    BY <1>0, <1>11 DEF SeedFails, End
  <2> QED BY <2>1 DEF RunIsWarm, HasCovered, IsRunning, Ended
<1> QED BY <1>1, <1>2, <1>3, <1>4, <1>5, <1>6, <1>7, <1>8, <1>9, <1>10, <1>11 DEF SeedStep

(* Every step keeps the advertised dark logos warm.                        *)
LEMMA DarkStep ==
    ASSUME TypeInv, DarkIsWarm, [Next]_vars
    PROVE  DarkIsWarm'
<1>0. seed \in [Seeds -> Runs]
  BY TypeParts DEF TypeInv
<1>1. ASSUME NEW l \in Leagues,
             logoKey[<<l, "dark">>] # "cold" \/ logoKey'[<<l, "dark">>] # "cold"
      PROVE  logoKey'[<<l, "dark">>] # "cold"
  BY <1>1, KeysStayWarm DEF LogoKeys
<1>2. ASSUME NEW s \in Seeds, SeedStep(s) \/ SeedFails(s) PROVE DarkIsWarm'
  <2> SUFFICES ASSUME NEW l \in advertised' \cap Leagues, logoKey'[<<l, "dark">>] = "cold"
               PROVE  \E t \in Seeds : WillWarmDark(t, seed'[t], l)
    BY DEF DarkIsWarm
  <2>1. \A t \in Seeds \ {s} : seed'[t] = seed[t]
    BY <1>2, OthersStay
  <2>2. SUFFICES ASSUME l \in advertised => WillWarmDark(s, seed[s], l)
                 PROVE  WillWarmDark(s, seed'[s], l)
    BY <1>1, <2>1 DEF DarkIsWarm
  <2>3. ASSUME ~UpdateLeague(s) PROVE l \in advertised
    BY <1>2, <2>3 DEF SeedStep, SeedFails, Start, FetchShield, WarmDefault,
         WarmDark, FetchTeams, SelectLeague, UpsertTeam, WarmTeam, NextLeague, StartScan,
         Flush, FlushDone
  <2>4. CASE UpdateLeague(s)
    <3>1. /\ seed[s].at = "update" /\ seed'[s].at = "default"
          /\ seed'[s].league = seed[s].league /\ seed'[s].shield = seed[s].shield
      BY <1>0, <2>4 DEF UpdateLeague, Goto, At, Runs
    <3>2. l \notin advertised
      BY <2>2, <3>1 DEF WillWarmDark
    <3>3. l = League(s) /\ seed[s].shield.advertised
      BY <2>4, <3>2 DEF UpdateLeague
    <3> QED BY <3>1, <3>3 DEF WillWarmDark, League
  <2>5. CASE WarmDefault(s)
    <3>1. /\ seed[s].at = "default" /\ seed'[s].at = "dark"
          /\ seed'[s].league = seed[s].league /\ seed'[s].shield = seed[s].shield
      BY <1>0, <2>5 DEF WarmDefault, Goto, At, Runs
    <3> QED BY <2>2, <2>3, <2>5, <3>1 DEF WillWarmDark, UpdateLeague, WarmDefault, At
  <2>6. CASE WarmDark(s)
    <3>1. seed[s].at = "dark" /\ ~UpdateLeague(s)
      BY <2>6 DEF WarmDark, UpdateLeague, At
    <3>2. League(s) = l /\ seed[s].shield.advertised
      BY <2>2, <2>3, <3>1 DEF WillWarmDark, League
    <3>3. Warm(<<l, "dark">>)
      BY <2>6, <3>2 DEF WarmDark
    <3>4. logoKey'[<<l, "dark">>] = "warm"
      BY <3>3 DEF Warm, TypeInv, TypeOK, LogoKeys
    <3> QED BY <3>4
  <2>7. CASE SeedFails(s)
    BY <1>0, <2>7 DEF SeedFails, End, WillWarmDark
  <2>8. ASSUME seed[s].at \notin {"update", "default", "dark", "failed"} PROVE FALSE
    BY <2>2, <2>3, <2>8 DEF WillWarmDark, UpdateLeague, At
  <2> QED BY <1>2, <2>4, <2>5, <2>6, <2>7, <2>8
          DEF SeedStep, Start, FetchShield, FetchTeams, SelectLeague, UpsertTeam, WarmTeam,
              NextLeague, StartScan, Flush, FlushDone, At
<1>3. ASSUME UNCHANGED <<seed, advertised>> PROVE DarkIsWarm'
  BY <1>1, <1>3 DEF DarkIsWarm
<1> QED BY <1>2, <1>3, StepCases
        DEF ReadRow, StoreImage, ProviderChanges, LogoExpires, ImageExpires, vars

LEMMA WarmStep == WarmInv /\ [Next]_vars => WarmInv'
<1> SUFFICES ASSUME WarmInv, [Next]_vars
             PROVE  (\A s \in Seeds : RunIsWarm(s, seed[s], logoKey))'
  BY TypeStep, DarkStep DEF WarmInv
<1>0. TypeInv /\ \A s \in Seeds : RunIsWarm(s, seed[s], logoKey)
  BY DEF WarmInv
<1>1. ASSUME NEW s \in Seeds, SeedStep(s) \/ SeedFails(s), NEW t \in Seeds
      PROVE  RunIsWarm(t, seed'[t], logoKey')
  BY <1>0, <1>1, RunsWarmAsTheyGo, WarmRunsStayWarm, OthersStay
<1>2. ASSUME UNCHANGED seed, NEW t \in Seeds PROVE RunIsWarm(t, seed'[t], logoKey')
  BY <1>0, <1>2, WarmRunsStayWarm
<1> QED BY <1>1, <1>2, StepCases
        DEF ReadRow, StoreImage, ProviderChanges, LogoExpires, ImageExpires, vars

(* Once every run started is done, every default logo of its leagues and   *)
(* teams, and every dark logo Postgres advertises, is in Redis or expired. *)
THEOREM SeededLogosHold == Spec => []SeededLogosAreWarm
<1>1. Init => WarmInv
  BY TypeInit DEF WarmInv, RunIsWarm, HasCovered, IsRunning, Ended, DarkIsWarm, Init
<1>2. WarmInv => SeededLogosAreWarm
  <2> SUFFICES ASSUME WarmInv, \A s \in Seeds : seed[s].at \in {"idle", "done"},
                      NEW s \in Seeds, At(s, "done"), NEW i \in DOMAIN LeaguesOf[s]
               PROVE  LET league == LeaguesOf[s][i]
                      IN  /\ \A team \in Teams[league] : logoKey[team] # "cold"
                          /\ logoKey[<<league, "default">>] # "cold"
                          /\ league \in advertised => logoKey[<<league, "dark">>] # "cold"
    BY DEF SeededLogosAreWarm
  <2>1. LeagueIsWarm(LeaguesOf[s][i], logoKey)
    BY DEF WarmInv, RunIsWarm, HasCovered, At
  <2>2. LeaguesOf[s][i] \in Leagues
    BY DEF WarmInv, TypeInv, Placed, RunIsPlaced, At
  <2>3. \A t \in Seeds : ~WillWarmDark(t, seed[t], LeaguesOf[s][i])
    BY DEF WillWarmDark
  <2> QED BY <2>1, <2>2, <2>3 DEF WarmInv, DarkIsWarm, LeagueIsWarm
<1> QED BY <1>1, <1>2, WarmStep, PTL DEF Spec

-----------------------------------------------------------------------------
(* The provider's side: what a call that the seed makes returns, for any   *)
(* leagues, levels, teams, listings and any size of the semaphore.         *)

(* A download has failed less than three times until it is given up.       *)
TaskOK(t) ==
    /\ t = [at |-> t.at, bad |-> t.bad, cause |-> t.cause, of |-> t.of]
    /\ t.at \in TaskPlaces /\ t.bad \in 0..3
    /\ IF t.at = "done"
       THEN IF t.cause = "status" THEN t.bad = 3 ELSE t.cause \in {"bytes", "other"} /\ t.bad < 3
       ELSE t.cause = Nothing /\ t.bad < 3

(* The semaphore and the downloads in flight make up its size.             *)
DownloadInv ==
    /\ task = [i \in DOMAIN task |-> task[i]]
    /\ \A i \in DOMAIN task : TaskOK(task[i])
    /\ phase = "list" => DOMAIN task = {}
    /\ IsFiniteSet(Getting)
    /\ permits \in Nat /\ permits + Cardinality(Getting) = SemSize

InFlightNow(t) == IF t.at = "getting" THEN 1 ELSE 0

(* A step of a download replaces its record and settles its permit.        *)
DownloadMoves(i, t) ==
    /\ TaskOK(t) /\ t.of = task[i].of /\ (t.at = "getting" => task[i].at # "getting")
    /\ task' = [task EXCEPT ![i] = t]
    /\ permits' = (permits + InFlightNow(task[i])) - InFlightNow(t)
    /\ permits' \in Nat
    /\ call' = call /\ phase' = phase /\ level' = level /\ logos' = logos
    /\ entries' = entries /\ warned' = warned /\ teams' = teams /\ answer' = answer

LEMMA StepMoves ==
    ASSUME DownloadInv, NEW i \in DOMAIN task, DownloadStep(i)
    PROVE  \E t : DownloadMoves(i, t)
<1> DEFINE old == task[i]
           Moved(at, bad, cause) == [at |-> at, bad |-> bad, cause |-> cause, of |-> old.of]
           Set(at, bad, cause) == task' = [task EXCEPT ![i] = Moved(at, bad, cause)]
           Others == /\ call' = call /\ phase' = phase /\ level' = level /\ logos' = logos
                     /\ entries' = entries /\ warned' = warned /\ teams' = teams
                     /\ answer' = answer
<1>0. TaskOK(old) /\ permits \in Nat /\ old = task[i] /\ Nothing \notin {"bytes", "status", "other"}
  BY ProviderAssumption DEF DownloadInv
<1> HIDE DEF old
<1>1. old = [at |-> old.at, bad |-> old.bad, cause |-> old.cause, of |-> old.of]
  BY <1>0 DEF TaskOK
<1>2. ASSUME NEW at, NEW bad, NEW cause
      PROVE  /\ [old EXCEPT !.at = at] = Moved(at, old.bad, old.cause)
             /\ [old EXCEPT !.at = at, !.cause = cause] = Moved(at, old.bad, cause)
             /\ [old EXCEPT !.at = at, !.bad = bad] = Moved(at, bad, old.cause)
  <2>1. [old EXCEPT !.at = at] = Moved(at, old.bad, old.cause)
    BY <1>1, Z3
  <2>2. [Moved(at, old.bad, old.cause) EXCEPT !.bad = bad] = Moved(at, bad, old.cause)
    BY Z3
  <2>3. [Moved(at, old.bad, old.cause) EXCEPT !.cause = cause] = Moved(at, old.bad, cause)
    BY Z3
  <2> HIDE DEF Moved
  <2>4. [[old EXCEPT !.at = at] EXCEPT !.cause = cause] = Moved(at, old.bad, cause)
    BY <2>1, <2>3, Zenon
  <2>5. [[old EXCEPT !.at = at] EXCEPT !.bad = bad] = Moved(at, bad, old.cause)
    BY <2>1, <2>2, Zenon
  <2> QED BY <2>1, <2>4, <2>5
<1>3. ASSUME NEW at, NEW bad, NEW cause, Set(at, bad, cause), Others,
             at \in TaskPlaces, bad \in 0..3,
             \/ at # "done" /\ cause = Nothing /\ bad < 3
             \/ at = "done" /\ cause \in {"bytes", "other"} /\ bad < 3
             \/ at = "done" /\ cause = "status" /\ bad = 3,
             at = "getting" => old.at # "getting",
             permits' = (permits + InFlightNow(old)) - (IF at = "getting" THEN 1 ELSE 0),
             permits' \in Nat
      PROVE  \E t : DownloadMoves(i, t)
  <2> DEFINE t == Moved(at, bad, cause)
  <2>1. /\ t.at = at /\ t.bad = bad /\ t.cause = cause /\ t.of = old.of
        /\ t = [at |-> t.at, bad |-> t.bad, cause |-> t.cause, of |-> t.of]
    OBVIOUS
  <2>2. task' = [task EXCEPT ![i] = t]
    BY <1>3
  <2> HIDE DEF t
  <2>3. TaskOK(t)
    BY <1>3, <2>1 DEF TaskOK
  <2>4. permits' = (permits + InFlightNow(old)) - InFlightNow(t)
    BY <1>3, <2>1 DEF InFlightNow
  <2> QED BY <1>0, <1>3, <2>1, <2>2, <2>3, <2>4 DEF DownloadMoves
<1> DEFINE Unchanged == UNCHANGED <<call, phase, level, listing, warned, teams, answer>>
<1>4. ASSUME Unchanged PROVE Others
  BY <1>4 DEF listing
<1>5. old.bad \in 0..3 /\ (old.at # "done" => old.cause = Nothing /\ old.bad < 3)
  BY <1>0 DEF TaskOK
<1>a. CASE Acquire(i)
  <2>1. /\ old.at = "ready" /\ permits > 0 /\ permits' = permits - 1
        /\ task' = [task EXCEPT ![i] = [old EXCEPT !.at = "getting"]] /\ Unchanged
    BY <1>0, <1>a DEF Acquire
  <2>2. Set("getting", old.bad, old.cause)
    BY <1>2, <2>1
  <2> HIDE DEF Set, Others, Unchanged
  <2>3. permits' = (permits + InFlightNow(old)) - 1 /\ permits' \in Nat
    BY <1>0, <2>1 DEF InFlightNow
  <2> QED BY <1>3, <1>4, <1>5, <2>1, <2>2, <2>3 DEF TaskPlaces
<1>b. CASE GetReturns(i)
  <2>0. old.at = "getting" /\ permits' = permits + 1 /\ Unchanged
    BY <1>0, <1>b DEF GetReturns, Getting
  <2>1. CASE IsEspnShield
    <3>1. task' = [task EXCEPT ![i] = [old EXCEPT !.at = "done", !.cause = "bytes"]]
      BY <1>0, <1>b, <2>1 DEF GetReturns
    <3>2. Set("done", old.bad, "bytes")
      BY <1>2, <3>1
    <3> HIDE DEF Set, Others, Unchanged
    <3> QED BY <1>0, <1>3, <1>4, <1>5, <2>0, <3>2 DEF TaskPlaces, InFlightNow
  <2>2. CASE ~IsEspnShield
    <3>1. task' = [task EXCEPT ![i] = [old EXCEPT !.at = "raster"]]
      BY <1>0, <1>b, <2>2 DEF GetReturns
    <3>2. Set("raster", old.bad, old.cause)
      BY <1>2, <3>1
    <3> HIDE DEF Set, Others, Unchanged
    <3> QED BY <1>0, <1>3, <1>4, <1>5, <2>0, <3>2 DEF TaskPlaces, InFlightNow
  <2> QED BY <2>1, <2>2
<1>c. CASE GetErrorStatus(i)
  <2>0. old.at = "getting" /\ permits' = permits + 1 /\ Unchanged
    BY <1>0, <1>c DEF GetErrorStatus, Getting
  <2>1. CASE old.bad + 1 < 3
    <3>1. task' = [task EXCEPT ![i] = [old EXCEPT !.at = "backoff", !.bad = old.bad + 1]]
      BY <1>0, <1>c, <2>1 DEF GetErrorStatus, MaxAttempts
    <3>2. Set("backoff", old.bad + 1, old.cause)
      BY <1>2, <3>1
    <3> HIDE DEF Set, Others, Unchanged
    <3> DEFINE bad == old.bad + 1
    <3>3. bad \in 0..3 /\ bad < 3 /\ Set("backoff", bad, old.cause)
      BY <1>5, <2>1, <3>2
    <3> HIDE DEF bad
    <3> QED BY <1>0, <1>3, <1>4, <1>5, <2>0, <3>3 DEF TaskPlaces, InFlightNow
  <2>2. CASE ~(old.bad + 1 < 3)
    <3> DEFINE bad == old.bad + 1
    <3>1. task' = [task EXCEPT ![i] = [old EXCEPT !.at = "done", !.bad = bad, !.cause = "status"]]
      BY <1>0, <1>c, <2>2 DEF GetErrorStatus, MaxAttempts
    <3>3. bad = 3
      BY <1>5, <2>0, <2>2
    <3> HIDE DEF bad
    <3>2. Set("done", bad, "status")
      <4>1. [old EXCEPT !.at = "done", !.bad = bad] = Moved("done", bad, old.cause)
        BY <1>2
      <4>2. [Moved("done", bad, old.cause) EXCEPT !.cause = "status"] = Moved("done", bad, "status")
        BY Z3
      <4> HIDE DEF Moved
      <4>3. [[old EXCEPT !.at = "done", !.bad = bad] EXCEPT !.cause = "status"]
               = Moved("done", bad, "status")
        BY <4>1, <4>2, Zenon
      <4> QED BY <3>1, <4>3, Zenon
    <3> HIDE DEF Set, Others, Unchanged
    <3>4. permits' = (permits + InFlightNow(old)) - 0 /\ permits' \in Nat /\ bad \in 0..3
      BY <1>0, <2>0, <3>3 DEF InFlightNow
    <3>5. Others /\ "done" \in TaskPlaces
      BY <1>4, <2>0 DEF TaskPlaces
    <3> HIDE DEF Moved
    <3> QED BY <1>3, <3>2, <3>3, <3>4, <3>5
  <2> QED BY <2>1, <2>2
<1>d. CASE GetFails(i)
  <2>1. /\ old.at = "getting" /\ permits' = permits + 1 /\ Unchanged
        /\ task' = [task EXCEPT ![i] = [old EXCEPT !.at = "done", !.cause = "other"]]
    BY <1>0, <1>d DEF GetFails, Getting
  <2>2. Set("done", old.bad, "other")
    BY <1>2, <2>1
  <2> HIDE DEF Set, Others, Unchanged
  <2> QED BY <1>0, <1>3, <1>4, <1>5, <2>1, <2>2 DEF TaskPlaces, InFlightNow
<1>e. CASE BackOffEnds(i)
  <2>1. /\ old.at = "backoff" /\ permits' = permits /\ Unchanged
        /\ task' = [task EXCEPT ![i] = [old EXCEPT !.at = "ready"]]
    BY <1>0, <1>e DEF BackOffEnds
  <2>2. Set("ready", old.bad, old.cause)
    BY <1>2, <2>1
  <2> HIDE DEF Set, Others, Unchanged
  <2> QED BY <1>0, <1>3, <1>4, <1>5, <2>1, <2>2 DEF TaskPlaces, InFlightNow
<1>f. CASE Rasterise(i)
  <2>1. PICK cause \in {"bytes", "other"} :
           task' = [task EXCEPT ![i] = [old EXCEPT !.at = "done", !.cause = cause]]
    BY <1>0, <1>f DEF Rasterise
  <2>2. old.at = "raster" /\ permits' = permits /\ Unchanged
    BY <1>0, <1>f DEF Rasterise
  <2>3. Set("done", old.bad, cause)
    BY <1>2, <2>1
  <2> HIDE DEF Set, Others, Unchanged
  <2> QED BY <1>0, <1>3, <1>4, <1>5, <2>2, <2>3 DEF TaskPlaces, InFlightNow
<1> QED BY <1>a, <1>b, <1>c, <1>d, <1>e, <1>f DEF DownloadStep

(* So that permit is back, or another is gone.                             *)
LEMMA MoveKeepsPermits ==
    ASSUME DownloadInv, SemSize \in Nat, NEW i \in DOMAIN task, NEW t, DownloadMoves(i, t)
    PROVE  DownloadInv'
<1>1. /\ DOMAIN task' = DOMAIN task /\ task' = [j \in DOMAIN task' |-> task'[j]]
      /\ \A j \in DOMAIN task : task'[j] = IF j = i THEN t ELSE task[j]
  BY DEF DownloadMoves, DownloadInv
<1>2. \A j \in DOMAIN task' : TaskOK(task'[j])
  BY <1>1 DEF DownloadInv, DownloadMoves
<1> DEFINE G == Getting
           H == Getting'
<1>3. /\ G = {j \in DOMAIN task : task[j].at = "getting"}
      /\ H = {j \in DOMAIN task' : task'[j].at = "getting"}
  BY DEF Getting
<1>4. IsFiniteSet(G) /\ permits + Cardinality(G) = SemSize
  BY DEF DownloadInv
<1>5. IsFiniteSet(H) /\ permits' + Cardinality(H) = SemSize
  <2>1. CASE task[i].at = "getting"
    <3>1. i \in G /\ H = G \ {i} /\ permits' = permits + 1
      BY <1>1, <1>3, <2>1 DEF DownloadMoves, InFlightNow, DownloadInv
    <3> HIDE DEF G, H
    <3>2. IsFiniteSet(H) /\ Cardinality(H) = Cardinality(G) - 1 /\ Cardinality(G) \in Nat
      BY <1>4, <3>1, FS_RemoveElement, FS_CardinalityType
    <3> QED BY <1>4, <3>1, <3>2 DEF DownloadInv
  <2>2. CASE task[i].at # "getting" /\ t.at = "getting"
    <3>1. i \notin G /\ H = G \cup {i} /\ permits' = permits - 1
      BY <1>1, <1>3, <2>2 DEF DownloadMoves, InFlightNow, DownloadInv
    <3> HIDE DEF G, H
    <3>2. IsFiniteSet(H) /\ Cardinality(H) = Cardinality(G) + 1 /\ Cardinality(G) \in Nat
      BY <1>4, <3>1, FS_AddElement, FS_CardinalityType
    <3> QED BY <1>4, <3>1, <3>2 DEF DownloadInv
  <2>3. CASE task[i].at # "getting" /\ t.at # "getting"
    <3>1. H = G /\ permits' = permits
      BY <1>1, <1>3, <2>3 DEF DownloadMoves, InFlightNow, DownloadInv
    <3> QED BY <1>4, <3>1
  <2> QED BY <2>1, <2>2, <2>3
<1> HIDE DEF G, H
<1>6. phase' = "list" => DOMAIN task' = {}
  BY <1>1 DEF DownloadInv, DownloadMoves
<1> QED BY <1>1, <1>2, <1>5, <1>6 DEF DownloadInv, DownloadMoves, H

(* Every step of a provider's call keeps the permits.                      *)
LEMMA DownloadInit == CallInit => DownloadInv
<1> SUFFICES ASSUME CallInit PROVE DownloadInv
  OBVIOUS
<1>1. task = <<>> /\ permits = SemSize /\ SemSize \in Nat
  BY ProviderAssumption DEF CallInit
<1>2. Getting = {} /\ DOMAIN task = {}
  BY <1>1 DEF Getting
<1>3. IsFiniteSet({}) /\ Cardinality({}) = 0
  BY FS_EmptySet
<1> QED BY <1>1, <1>2, <1>3 DEF DownloadInv

(* Fresh downloads hold no permit.                                         *)
LEMMA FreshDownloads ==
    ASSUME NEW wanted, Nothing \notin {"bytes", "status", "other"}
    PROVE  LET fresh == Downloads(wanted)
           IN  /\ DOMAIN fresh = DOMAIN wanted
               /\ fresh = [i \in DOMAIN fresh |-> fresh[i]]
               /\ \A i \in DOMAIN fresh : TaskOK(fresh[i]) /\ fresh[i].at = "ready"
                                          /\ fresh[i].of = wanted[i]
<1> DEFINE fresh == Downloads(wanted)
           Row(i) == [at |-> "ready", bad |-> 0, cause |-> Nothing, of |-> wanted[i]]
<1>1. fresh = [i \in DOMAIN wanted |-> Row(i)]
  BY DEF Downloads
<1>2. \A i : /\ Row(i) = [at |-> Row(i).at, bad |-> Row(i).bad, cause |-> Row(i).cause,
                          of |-> Row(i).of]
             /\ Row(i).at = "ready" /\ Row(i).bad = 0 /\ Row(i).cause = Nothing
             /\ Row(i).of = wanted[i]
  OBVIOUS
<1> HIDE DEF fresh, Row
<1>3. \A i : TaskOK(Row(i))
  BY <1>2 DEF TaskOK, TaskPlaces
<1> QED BY <1>1, <1>2, <1>3 DEF fresh

(* With no GET in flight every permit is back.                             *)
LEMMA NoneGetting ==
    ASSUME \A i \in DOMAIN task : task[i].at # "getting", DownloadInv
    PROVE  permits = SemSize
<1>1. Getting = {}
  BY DEF Getting
<1> QED BY <1>1, FS_EmptySet DEF DownloadInv

LEMMA DownloadStepKeeps ==
    ASSUME DownloadInv, [CallNext]_callVars
    PROVE  DownloadInv'
<1>0. SemSize \in Nat /\ Nothing \notin {"bytes", "status", "other"}
  BY ProviderAssumption
<1>1. ASSUME phase = "list", NEW wanted, task' = Downloads(wanted),
             permits' \in {permits, SemSize}, phase' = "download"
      PROVE  DownloadInv'
  <2>1. permits' = SemSize
    BY <1>1, NoneGetting DEF DownloadInv
  <2> DEFINE fresh == Downloads(wanted)
  <2>2. /\ fresh = [i \in DOMAIN fresh |-> fresh[i]]
        /\ \A i \in DOMAIN fresh : TaskOK(fresh[i]) /\ fresh[i].at = "ready"
    BY <1>0, FreshDownloads
  <2>3. task' = fresh
    BY <1>1
  <2> HIDE DEF fresh
  <2>4. Getting' = {}
    BY <2>2, <2>3 DEF Getting
  <2> QED BY <1>0, <1>1, <2>1, <2>2, <2>3, <2>4, FS_EmptySet DEF DownloadInv
<1>2. CASE /\ UNCHANGED <<task, permits>>
           /\ phase' # "list"
  <2>1. Getting' = Getting
    BY <1>2 DEF Getting
  <2> QED BY <1>2, <2>1 DEF DownloadInv
<1>3. CASE ListRaises
  BY <1>2, <1>3 DEF ListRaises
<1>4. CASE EspnTeams
  BY <1>2, <1>4 DEF EspnTeams
<1>5. CASE ListEspnShield
  BY <1>1, <1>5 DEF ListEspnShield
<1>6. CASE ListMlbShield
  BY <1>1, <1>6 DEF ListMlbShield
<1>7. CASE ListMlbTeams
  BY <1>1, <1>7 DEF ListMlbTeams
<1>8. CASE \E i \in DOMAIN task : DownloadStep(i)
  BY <1>0, <1>8, StepMoves, MoveKeepsPermits
<1>9. CASE LevelDone
  <2>1. \A i \in DOMAIN task : task[i].at # "getting"
    BY <1>9 DEF LevelDone, AllDone
  <2>2. task' = <<>> /\ permits' = permits
    BY <1>9 DEF LevelDone
  <2>3. permits' = SemSize
    BY <2>1, <2>2, NoneGetting
  <2>4. Getting' = {} /\ DOMAIN task' = {}
    BY <2>2 DEF Getting
  <2> QED BY <1>0, <2>2, <2>3, <2>4, FS_EmptySet DEF DownloadInv
<1>10. CASE ShieldDone
  BY <1>2, <1>10 DEF ShieldDone
<1>11. CASE UNCHANGED callVars
  <2>1. task' = task /\ permits' = permits /\ phase' = phase
    BY <1>11 DEF callVars
  <2>2. Getting' = Getting
    BY <2>1 DEF Getting
  <2> QED BY <2>1, <2>2 DEF DownloadInv
<1> QED BY <1>3, <1>4, <1>5, <1>6, <1>7, <1>8, <1>9, <1>10, <1>11
        DEF CallNext, CallRests

(* Every failed or repeated GET gives its permit back, and a download is   *)
(* given up after three error statuses or one failure of another kind.     *)
THEOREM ProviderAttemptsAddUp == CallSpec => []AttemptsAddUp
<1>1. DownloadInv => AttemptsAddUp
  <2> SUFFICES ASSUME DownloadInv PROVE AttemptsAddUp
    OBVIOUS
  <2>1. PermitsAreReturned
    BY DEF DownloadInv, PermitsAreReturned
  <2>2. GivenUpForAReason
    BY ProviderAssumption DEF DownloadInv, TaskOK, GivenUpForAReason, MaxAttempts
  <2> QED BY <2>1, <2>2 DEF AttemptsAddUp
<1>2. CallInit => DownloadInv
  BY DownloadInit
<1>3. DownloadInv /\ [CallNext]_callVars => DownloadInv'
  BY DownloadStepKeeps
<1> QED BY <1>1, <1>2, <1>3, PTL DEF CallSpec

-----------------------------------------------------------------------------
(* What Only keeps of a sequence.                                          *)

(* Induction: of a set of naturals that is not empty one is the smallest.  *)
LEMMA SmallestOf ==
    ASSUME NEW T, T \subseteq Nat, T # {}
    PROVE  \E m \in T : \A n \in T : m <= n
<1> DEFINE less == OpToRel(<, Nat)
<1>1. PICK x \in T : \A y \in T : ~(<<y, x>> \in less)
  <2>1. IsWellFoundedOn(less, Nat)
    BY NatLessThanWellFounded
  <2> HIDE DEF less
  <2> QED BY <2>1, WFMin
<1>2. \A y \in T : x <= y
  <2> SUFFICES ASSUME NEW y \in T, y < x PROVE FALSE
    OBVIOUS
  <2>1. <<y, x>> \in less
    BY DEF OpToRel
  <2> QED BY <1>1, <2>1
<1> QED BY <1>2

(* those is what Only keeps of the first elements of s, up to the m-th.    *)
Sifts(those, s, set, m) ==
    those = [n \in 0..m |->
               IF n = 0 THEN <<>>
               ELSE IF s[n] \in set THEN Append(those[n - 1], s[n])
               ELSE those[n - 1]]

(* There is such a function, so that the recursion in Only is sound.       *)
LEMMA SiftExists ==
    ASSUME NEW s, NEW set, NEW length \in Nat
    PROVE  \E f : Sifts(f, s, set, length)
<1> DEFINE Step(e, n) == IF s[n] \in set THEN Append(e, s[n]) ELSE e
           Is(f, m) == f = [n \in 0..m |-> IF n = 0 THEN <<>> ELSE Step(f[n - 1], n)]
           T == {m \in Nat : ~ \E f : Is(f, m)}
<1>1. T = {}
  <2> SUFFICES ASSUME T # {} PROVE FALSE
    OBVIOUS
  <2>1. PICK m \in T : \A k \in T : m <= k
    BY SmallestOf
  <2>2. CASE m = 0
    <3>1. Is([n \in 0..0 |-> <<>>], 0)
      OBVIOUS
    <3> QED BY <2>1, <2>2, <3>1
  <2>3. CASE m # 0
    <3>1. m - 1 \in Nat /\ m - 1 \notin T
      <4>1. m \in Nat /\ m - 1 \in Nat /\ ~(m <= m - 1)
        BY <2>3
      <4> HIDE DEF T
      <4> QED BY <2>1, <4>1
    <3>2. PICK g : Is(g, m - 1)
      BY <3>1
    <3> DEFINE f == [n \in 0..m |-> IF n = m THEN Step(g[n - 1], n) ELSE g[n]]
    <3> HIDE DEF Step
    <3>3. \A n \in 0..m : f[n] = IF n = 0 THEN <<>> ELSE Step(f[n - 1], n)
      <4> SUFFICES ASSUME NEW n \in 0..m
                   PROVE  f[n] = IF n = 0 THEN <<>> ELSE Step(f[n - 1], n)
        OBVIOUS
      <4>1. CASE n = m
        BY <2>3, <3>1, <4>1
      <4>2. CASE n # m
        BY <2>3, <3>1, <3>2, <4>2
      <4> QED BY <4>1, <4>2
    <3>4. Is(f, m)
      BY <3>3
    <3> QED BY <2>1, <3>4
  <2> QED BY <2>2, <2>3
<1>2. \E f : Is(f, length)
  BY <1>1
<1> QED BY <1>2 DEF Sifts

Injective(s) == \A i, j \in DOMAIN s : s[i] = s[j] => i = j

LEMMA OnlyIs ==
    ASSUME NEW T, NEW s \in Seq(T), NEW set
    PROVE  LET those == Only(s, set)
           IN  /\ those \in Seq(T)
               /\ \A i \in DOMAIN those : those[i] \in set
               /\ Injective(s) => Injective(those)
<1>0. Len(s) \in Nat /\ DOMAIN s = 1..Len(s) /\ \A i \in 1..Len(s) : s[i] \in T
  OBVIOUS
<1> DEFINE P(f) == Sifts(f, s, set, Len(s))
<1>1. \E f : P(f)
  BY <1>0, SiftExists
<1>2. Only(s, set) = (CHOOSE f : P(f))[Len(s)]
  BY DEF Only, Sifts
<1>3. PICK f : P(f) /\ Only(s, set) = f[Len(s)]
  BY <1>1, <1>2
<1>4. \A n \in 0..Len(s) :
         f[n] = IF n = 0 THEN <<>>
                ELSE IF s[n] \in set THEN Append(f[n - 1], s[n])
                ELSE f[n - 1]
  BY <1>3 DEF Sifts
<1> DEFINE Good(e, n) == /\ e \in Seq(T)
                         /\ \A i \in DOMAIN e : e[i] \in set /\ \E j \in 1..n : e[i] = s[j]
                         /\ Injective(s) => Injective(e)
           B == {n \in 0..Len(s) : ~Good(f[n], n)}
<1>5. B = {}
  <2> SUFFICES ASSUME B # {} PROVE FALSE
    OBVIOUS
  <2>1. PICK m \in B : \A k \in B : m <= k
    <3>1. B \subseteq Nat
      BY <1>0
    <3> HIDE DEF B
    <3> QED BY <3>1, SmallestOf
  <2>2. m \in 0..Len(s) /\ m \in Nat /\ ~Good(f[m], m)
    BY <1>0, <2>1
  <2>3. CASE m = 0
    <3>1. f[m] = <<>>
      BY <1>4, <2>2, <2>3
    <3>2. Good(<<>>, 0)
      BY DEF Injective
    <3> HIDE DEF Good
    <3> QED BY <2>2, <2>3, <3>1, <3>2
  <2>4. CASE m # 0
    <3> DEFINE e == f[m - 1]
               x == s[m]
    <3>1. m \in 1..Len(s) /\ m - 1 \in 0..Len(s) /\ ~(m <= m - 1)
      BY <2>2, <2>4
    <3>2. Good(e, m - 1)
      <4>1. m - 1 \notin B
        <5> HIDE DEF B
        <5> QED BY <2>1, <3>1
      <4> QED BY <3>1, <4>1
    <3>3. f[m] = IF x \in set THEN Append(e, x) ELSE e
      BY <1>4, <2>2, <2>4
    <3>4. x \in T /\ x = s[m]
      BY <1>0, <3>1
    <3> HIDE DEF e, x
    <3>5. CASE x \notin set
      <4>1. f[m] = e
        BY <3>3, <3>5
      <4>2. \A j \in 1..(m - 1) : j \in 1..m
        BY <2>2
      <4> QED BY <2>2, <3>2, <4>1, <4>2
    <3>6. CASE x \in set
      <4> DEFINE a == Append(e, x)
      <4>1. /\ a \in Seq(T) /\ DOMAIN a = 1..(Len(e) + 1) /\ a[Len(e) + 1] = x
            /\ Len(e) \in Nat /\ DOMAIN e = 1..Len(e) /\ \A i \in 1..Len(e) : a[i] = e[i]
        BY <3>2, <3>4
      <4>2. f[m] = a
        BY <3>3, <3>6
      <4> HIDE DEF a
      <4>3. ASSUME NEW i \in DOMAIN a
            PROVE  a[i] \in set /\ \E j \in 1..m : a[i] = s[j]
        <5>1. CASE i = Len(e) + 1
          BY <2>2, <3>1, <3>4, <3>6, <4>1, <5>1
        <5>2. CASE i # Len(e) + 1
          <6>1. i \in DOMAIN e /\ a[i] = e[i]
            BY <4>1, <5>2
          <6>2. \A j \in 1..(m - 1) : j \in 1..m
            BY <2>2
          <6> QED BY <3>2, <6>1, <6>2
        <5> QED BY <5>1, <5>2
      <4>4. ASSUME Injective(s) PROVE Injective(a)
        <5>1. ASSUME NEW i \in 1..Len(e) PROVE e[i] # x
          <6>1. PICK j \in 1..(m - 1) : e[i] = s[j]
            BY <3>2, <4>1
          <6>2. j \in DOMAIN s /\ m \in DOMAIN s /\ j # m
            BY <1>0, <2>2, <3>1
          <6> QED BY <3>4, <4>4, <6>1, <6>2 DEF Injective
        <5>2. Injective(e)
          BY <3>2, <4>4
        <5> SUFFICES ASSUME NEW i \in DOMAIN a, NEW j \in DOMAIN a, a[i] = a[j], i # j
                     PROVE  FALSE
          BY DEF Injective
        <5>3. CASE i \in 1..Len(e) /\ j \in 1..Len(e)
          BY <4>1, <5>2, <5>3 DEF Injective
        <5>4. CASE i = Len(e) + 1
          <6>1. j \in 1..Len(e)
            BY <4>1, <5>4
          <6> QED BY <4>1, <5>1, <5>4, <6>1
        <5>5. CASE j = Len(e) + 1
          <6>1. i \in 1..Len(e)
            BY <4>1, <5>5
          <6> QED BY <4>1, <5>1, <5>5, <6>1
        <5> QED BY <4>1, <5>3, <5>4, <5>5
      <4>5. Good(a, m)
        BY <4>1, <4>3, <4>4
      <4> HIDE DEF Good
      <4> QED BY <2>2, <4>2, <4>5
    <3> QED BY <3>5, <3>6
  <2> QED BY <2>3, <2>4
<1>6. Good(f[Len(s)], Len(s))
  <2>1. Len(s) \in 0..Len(s)
    BY <1>0
  <2> QED BY <1>5, <2>1
<1> QED BY <1>3, <1>6

-----------------------------------------------------------------------------
(* The shields that FetchShield lets a provider return.                    *)
ShieldsOf(asked) == IF asked = "mlbShield" THEN MlbShields ELSE EspnShields

(* A dark logo is downloaded only if it is listed, and a call returns one  *)
(* of its provider's shields.                                              *)
ShieldInv ==
    /\ phase = "download" /\ IsEspnShield =>
          \A i \in DOMAIN task :
              \/ task[i].of = Default
              \/ task[i].of = Dark
                 /\ Dark \in DOMAIN LogoVariants(logos)
    /\ answer # Nothing =>
          /\ phase = "returned"
          /\ IF call = "mlbShield" THEN answer \in MlbShields ELSE answer \in EspnShields

(* The keys of the two wanted logos.                                       *)
LEMMA DarkIsNotDefault ==
    /\ Default = {"default"} /\ Dark = {"dark"}
    /\ Default # Dark
<1>1. {"full", "default"} \ {"full"} = {"default"} /\ ~({"full", "default"} \subseteq {"full"})
  OBVIOUS
<1>2. {"full", "dark"} \ {"full"} = {"dark"} /\ ~({"full", "dark"} \subseteq {"full"})
  OBVIOUS
<1>3. "dark" \in {"dark"} /\ "dark" \notin {"default"}
  OBVIOUS
<1> QED BY <1>1, <1>2, <1>3 DEF Default, Dark, DerivedKey

(* A dark logo is fetched only if ESPN lists one.                          *)
LEMMA WantedIs ==
    ASSUME NEW variants
    PROVE  LET wanted == WantedOf(variants)
           IN  \A i \in DOMAIN wanted :
                   \/ wanted[i] = Default
                   \/ wanted[i] = Dark /\ Dark \in DOMAIN variants
<1> DEFINE both == <<Default, Dark>>
           T == {Default, Dark}
           those == Only(both, DOMAIN variants)
<1>1. those \in Seq(T) /\ \A i \in DOMAIN those : those[i] \in DOMAIN variants
  <2>1. both \in Seq(T)
    OBVIOUS
  <2> HIDE DEF both, T
  <2> QED BY <2>1, OnlyIs
<1>2. \A i \in DOMAIN those : those[i] = Default \/ those[i] = Dark
  <2> HIDE DEF those
  <2> QED BY <1>1
<1>3. \A i \in DOMAIN <<Default>> : <<Default>>[i] = Default
  OBVIOUS
<1>4. DOMAIN <<>> = {}
  OBVIOUS
<1>5. \/ WantedOf(variants) = those
      \/ WantedOf(variants) = <<Default>>
      \/ WantedOf(variants) = <<>>
  BY DEF WantedOf
<1> HIDE DEF those
<1> QED BY <1>1, <1>2, <1>3, <1>4, <1>5

(* Every step keeps the shields as they are reckoned with.                 *)
LEMMA ShieldStep ==
    ASSUME DownloadInv, ShieldInv, [CallNext]_callVars
    PROVE  ShieldInv'
<1>0. Nothing \notin {"bytes", "status", "other"}
  BY ProviderAssumption
<1>1. CASE phase' # "download" /\ UNCHANGED <<call, answer>> /\ (phase = "returned" => phase' = "returned")
  BY <1>1 DEF ShieldInv
<1>2. CASE ListRaises
  BY <1>1, <1>2 DEF ListRaises
<1>3. CASE EspnTeams
  BY <1>1, <1>3 DEF EspnTeams
<1>4. CASE ListEspnShield
  <2> DEFINE variants == LogoVariants(logos')
             wanted == WantedOf(variants)
  <2>1. phase = "list" /\ call' = call /\ answer' = answer
        /\ task' = Downloads(wanted)
    BY <1>4 DEF ListEspnShield
  <2>2. DOMAIN task' = DOMAIN wanted /\ \A i \in DOMAIN task' : task'[i].of = wanted[i]
    BY <1>0, <2>1, FreshDownloads
  <2>3. \A i \in DOMAIN wanted :
           \/ wanted[i] = Default
           \/ wanted[i] = Dark /\ Dark \in DOMAIN variants
    BY WantedIs
  <2>4. variants = LogoVariants(logos)'
    BY DEF LogoVariants
  <2> HIDE DEF wanted, variants
  <2> QED BY <2>1, <2>2, <2>3, <2>4 DEF ShieldInv
<1>5. CASE ListMlbShield
  BY <1>5 DEF ListMlbShield, ShieldInv, IsEspnShield
<1>6. CASE ListMlbTeams
  <2>1. ~IsEspnShield /\ call' = call /\ answer' = answer /\ phase = "list"
    BY <1>6, ProviderAssumption DEF ListMlbTeams, IsMlbTeams, IsEspnShield
  <2> QED BY <2>1 DEF ShieldInv, IsEspnShield
<1>7. CASE \E i \in DOMAIN task : DownloadStep(i)
  <2>0. PICK i \in DOMAIN task : DownloadStep(i)
    BY <1>7
  <2>1. PICK t : DownloadMoves(i, t)
    BY <2>0, StepMoves
  <2>2. /\ DOMAIN task' = DOMAIN task
        /\ \A j \in DOMAIN task : task'[j].of = task[j].of
    BY <2>1 DEF DownloadMoves
  <2> QED BY <2>1, <2>2 DEF DownloadMoves, ShieldInv, IsEspnShield
<1>8. CASE LevelDone
  BY <1>1, <1>8 DEF LevelDone, ShieldInv
<1>9. CASE ShieldDone
  <2>0. /\ phase = "download" /\ phase' = "returned" /\ call' = call
        /\ IsShield /\ answer' = Shield
    BY <1>9 DEF ShieldDone
  <2>1. CASE call = "mlbShield"
    <3> DEFINE default == Got(Default)
               dark == default /\ Got(Dark)
    <3>1. answer' = [default |-> default, dark |-> dark, advertised |-> default]
      BY <2>0, <2>1 DEF Shield
    <3>2. default \in BOOLEAN /\ dark \in BOOLEAN /\ (dark => default)
      BY DEF Got
    <3> HIDE DEF default, dark
    <3>3. answer' \in MlbShields
      BY <3>1, <3>2 DEF MlbShields, Shields
    <3> QED BY <2>0, <2>1, <3>3 DEF ShieldInv
  <2>2. CASE call # "mlbShield"
    <3>1. IsEspnShield
      BY <2>0, <2>2 DEF IsShield
    <3>2. Got(Dark) => Dark \in DOMAIN LogoVariants(logos)
      BY <2>0, <3>1, DarkIsNotDefault DEF Got, ShieldInv
    <3> DEFINE variants == LogoVariants(logos)
               default == Got(Default)
               dark == Got(Dark)
               listed == \/ Dark \in DOMAIN variants
                         \/ call = "ncaaShield" /\ ~HasUsableLeagueLogo(variants)
    <3>3. answer' = [default |-> default, dark |-> dark, advertised |-> listed]
      BY <2>0, <2>2 DEF Shield
    <3>4. default \in BOOLEAN /\ dark \in BOOLEAN /\ listed \in BOOLEAN /\ (dark => listed)
      BY <3>2 DEF Got
    <3> HIDE DEF default, dark, listed
    <3>5. answer' \in EspnShields
      BY <3>3, <3>4 DEF EspnShields, Shields
    <3> QED BY <2>0, <2>2, <3>5 DEF ShieldInv
  <2> QED BY <2>1, <2>2
<1>10. CASE UNCHANGED callVars
  BY <1>10 DEF callVars, listing, ShieldInv, IsEspnShield,
               LogoVariants
<1> QED BY <1>2, <1>3, <1>4, <1>5, <1>6, <1>7, <1>8, <1>9, <1>10
        DEF CallNext, CallRests

LEMMA ShieldInvariant == CallSpec => [](DownloadInv /\ ShieldInv)
<1>1. CallInit => DownloadInv /\ ShieldInv
  BY DownloadInit DEF CallInit, ShieldInv
<1>2. DownloadInv /\ ShieldInv /\ [CallNext]_callVars => (DownloadInv /\ ShieldInv)'
  BY DownloadStepKeeps, ShieldStep
<1> QED BY <1>1, <1>2, PTL DEF CallSpec

(* A dark logo that was fetched is advertised, and MLB's shield is         *)
(* advertised if and only if its default logo was fetched.                 *)
THEOREM ProviderShields == CallSpec => []ShieldAsSeedExpects
<1>1. ShieldInv => ShieldAsSeedExpects
  BY DEF ShieldInv, EspnShields, MlbShields, ShieldAsSeedExpects
<1> QED BY <1>1, ShieldInvariant, PTL

(* The two models fit: what a call of ProviderFetch returns is what        *)
(* FetchShield of SeedRun reckons with.                                    *)
THEOREM SeedReckonsWithEveryShield ==
    CallSpec => [](answer # Nothing => answer \in ShieldsOf(call))
<1>1. ShieldInv => (answer # Nothing => answer \in ShieldsOf(call))
  BY DEF ShieldInv, ShieldsOf
<1> QED BY <1>1, ShieldInvariant, PTL

-----------------------------------------------------------------------------
(* The logo that the seed stores and the one that the loader fetches.      *)

(* The first URL of a list is the one with none before it.                 *)
FirstIs(urls, n, i) ==
    /\ n \in Nat /\ DOMAIN urls = 1..n
    /\ i \in 1..n /\ urls[i] # NoUrl
    /\ \A j \in 1..n : j < i => urls[j] = NoUrl

LEMMA FirstUrlAt ==
    ASSUME NEW urls, NEW n, NEW i, FirstIs(urls, n, i)
    PROVE  FirstUrl(urls) = urls[i]
<1> DEFINE IsFirst(k) == urls[k] # NoUrl /\ \A j \in 1..(k - 1) : urls[j] = NoUrl
<1>0. /\ n \in Nat /\ DOMAIN urls = 1..n /\ i \in 1..n /\ urls[i] # NoUrl
      /\ \A j \in 1..n : j < i => urls[j] = NoUrl
  BY DEF FirstIs
<1>1. \A k \in DOMAIN urls : IsFirst(k) => k = i
  <2> SUFFICES ASSUME NEW k \in 1..n, IsFirst(k), k # i PROVE FALSE
    BY <1>0
  <2>1. CASE k < i
    BY <1>0, <2>1
  <2>2. CASE i < k
    <3>1. i \in 1..(k - 1)
      BY <1>0, <2>2
    <3> QED BY <1>0, <3>1
  <2> QED BY <1>0, <2>1, <2>2
<1>2. i \in DOMAIN urls /\ IsFirst(i)
  BY <1>0
<1>3. (CHOOSE k \in DOMAIN urls : IsFirst(k)) = i
  <2> HIDE DEF IsFirst
  <2> QED BY <1>1, <1>2
<1> QED BY <1>0, <1>2, <1>3 DEF FirstUrl

(* What the seed's choice comes to: the first URL of three.                *)
LEMMA FirstOfThree ==
    ASSUME NEW a, NEW b, NEW c
    PROVE  /\ a # NoUrl => FirstUrl(<<a, b, c>>) = a
           /\ a = NoUrl /\ b # NoUrl => FirstUrl(<<a, b, c>>) = b
<1> DEFINE urls == <<a, b, c>>
<1>1. DOMAIN urls = 1..3 /\ urls[1] = a /\ urls[2] = b
  OBVIOUS
<1> HIDE DEF urls
<1>2. a # NoUrl => FirstIs(urls, 3, 1)
  BY <1>1 DEF FirstIs
<1>3. a = NoUrl /\ b # NoUrl => FirstIs(urls, 3, 2)
  BY <1>1 DEF FirstIs
<1>4. /\ a # NoUrl => FirstUrl(urls) = a
      /\ a = NoUrl /\ b # NoUrl => FirstUrl(urls) = b
  BY <1>1, <1>2, <1>3, FirstUrlAt
<1> QED BY <1>4 DEF urls

(* What the loader's choice comes to: the default key is tried twice.      *)
LEMMA FirstOfFour ==
    ASSUME NEW a, NEW b, NEW d
    PROVE  /\ a # NoUrl => FirstUrl(<<a, b, a, d>>) = a
           /\ a = NoUrl /\ b # NoUrl => FirstUrl(<<a, b, a, d>>) = b
           /\ a = NoUrl /\ b = NoUrl => FirstUrl(<<a, b, a, d>>) = d
<1> DEFINE urls == <<a, b, a, d>>
<1>1. DOMAIN urls = 1..4 /\ urls[1] = a /\ urls[2] = b /\ urls[3] = a /\ urls[4] = d
  OBVIOUS
<1> HIDE DEF urls
<1>2. a # NoUrl => FirstIs(urls, 4, 1)
  BY <1>1 DEF FirstIs
<1>3. a = NoUrl /\ b # NoUrl => FirstIs(urls, 4, 2)
  BY <1>1 DEF FirstIs
<1>4. a = NoUrl /\ b = NoUrl /\ d # NoUrl => FirstIs(urls, 4, 4)
  BY <1>1 DEF FirstIs
<1>5. a = NoUrl /\ b = NoUrl /\ d = NoUrl => FirstUrl(urls) = d
  BY <1>1 DEF FirstUrl
<1>6. /\ a # NoUrl => FirstUrl(urls) = a
      /\ a = NoUrl /\ b # NoUrl => FirstUrl(urls) = b
      /\ a = NoUrl /\ b = NoUrl => FirstUrl(urls) = d
  BY <1>1, <1>2, <1>3, <1>4, <1>5, FirstUrlAt
<1> QED BY <1>6 DEF urls

Logos == Seq([rel : SUBSET STRING, href : STRING \ {NoUrl}])

(* Every logo listed has a URL.                                            *)
LEMMA LogosHaveUrls ==
    \A s \in Logos : DOMAIN s \subseteq Nat /\ \A i \in DOMAIN s : s[i].href # NoUrl
<1> DEFINE R == [rel : SUBSET STRING, href : STRING \ {NoUrl}]
<1>1. \A r \in R : r.href # NoUrl
  OBVIOUS
<1> HIDE DEF R
<1>2. ASSUME NEW s \in Seq(R)
      PROVE  DOMAIN s \subseteq Nat /\ \A i \in DOMAIN s : s[i] \in R
  OBVIOUS
<1> QED BY <1>1, <1>2 DEF Logos, R

(* Where no two logos could be taken, the one taken is it.                 *)
LEMMA FirstOfOne ==
    ASSUME NEW s, NEW i, NEW S, S = {i}, i \in Nat
    PROVE  FirstHref(s, S) = s[i].href
<1>1. (CHOOSE k \in {i} : \A j \in {i} : k <= j) = i
  OBVIOUS
<1> QED BY <1>1 DEF FirstHref

(* LogoVariants maps the key of a logo of which there is no other to it.   *)
LEMMA VariantOf ==
    ASSUME NEW s \in Logos, NEW i \in DOMAIN s,
           \A j \in DOMAIN s : DerivedKey(s[j].rel) = DerivedKey(s[i].rel) => j = i
    PROVE  /\ DerivedKey(s[i].rel) \in DOMAIN LogoVariants(s)
           /\ LogoVariants(s)[DerivedKey(s[i].rel)] = s[i].href
<1> DEFINE Key(k) == DerivedKey(s[k].rel)
           key == Key(i)
           Last(k) == Key(k) = key /\ \A j \in DOMAIN s : Key(j) = key => j <= k
<1>0. i \in Nat
  BY LogosHaveUrls
<1>1. Last(i) /\ \A k \in DOMAIN s : Last(k) => k = i
  BY <1>0
<1> HIDE DEF Last
<1>2. (CHOOSE k \in DOMAIN s : Last(k)) = i
  BY <1>1
<1>3. key \in {Key(k) : k \in DOMAIN s}
  OBVIOUS
<1> USE DEF Last
<1> QED BY <1>2, <1>3 DEF LogoVariants

(* What both choose, case by case: the primary logo if there is one, else  *)
(* the dark one if there is one, else what the seed stored.                *)
LEMMA ChoicesAgree ==
    ASSUME NEW s \in Logos, Unambiguous(s)
    PROVE  LET stored == SelectLogoUrl(s)
           IN  LoaderUrl(LogoVariants(s), stored, Default) = stored
<1> DEFINE Key(i) == DerivedKey(s[i].rel)
           variants == LogoVariants(s)
           Variant(key) == IF key \in DOMAIN variants THEN variants[key] ELSE NoUrl
           stored == SelectLogoUrl(s)
           first == Variant(Default)
           second == Variant(Dark)
           Loaded == LoaderUrl(variants, stored, Default)
           P == {i \in DOMAIN s : IsPrimary(s[i].rel)}
           D == {i \in DOMAIN s : IsDark(s[i].rel)}
<1>0. DOMAIN s \subseteq Nat /\ \A i \in DOMAIN s : s[i].href # NoUrl
  BY LogosHaveUrls
<1>1. Loaded = FirstUrl(<<first, second, first, stored>>)
  BY DEF LoaderUrl
<1>2. stored = FirstUrl(<<FirstHref(s, P), FirstHref(s, D),
                                   FirstAny(s)>>)
  BY DEF SelectLogoUrl, FirstPrimary, FirstDark
<1>3. \A i, j \in DOMAIN s : Key(i) = Key(j) => i = j
  BY DEF Unambiguous
<1>4. \A i, j \in D : i = j
  BY DEF Unambiguous
<1>5. \A i \in DOMAIN s : i \in P <=> Key(i) = Default
  BY DEF Unambiguous
<1>6. \A i \in DOMAIN s : Key(i) = Dark => i \in D
  <2> SUFFICES ASSUME NEW i \in DOMAIN s, Key(i) = {"dark"} PROVE IsDark(s[i].rel)
    BY DarkIsNotDefault
  <2>1. "default" \notin {"dark"} /\ "scoreboard" \notin {"dark"} /\ "scoreboard" # "full"
    OBVIOUS
  <2> QED BY <2>1 DEF DerivedKey, IsDark
<1>7. \A i \in DOMAIN s : Key(i) \in DOMAIN variants /\ variants[Key(i)] = s[i].href
  BY <1>3, VariantOf
<1>8. DOMAIN variants = {Key(i) : i \in DOMAIN s}
  BY DEF LogoVariants
<1>9. CASE P # {}
  <2>1. PICK p \in P : TRUE
    BY <1>9
  <2>2. P = {p} /\ p \in Nat /\ p \in DOMAIN s
    BY <1>0, <1>3, <1>5, <2>1
  <2>3. FirstHref(s, P) = s[p].href
    BY <2>2, FirstOfOne
  <2>4. stored = s[p].href
    <3> HIDE DEF P, D, stored
    <3> QED BY <1>0, <1>2, <2>2, <2>3, FirstOfThree
  <2>5. first = s[p].href
    BY <1>5, <1>7, <2>1, <2>2
  <2> HIDE DEF Loaded, first, second, stored, P, D
  <2> QED BY <1>0, <1>1, <2>2, <2>4, <2>5, FirstOfFour DEF Loaded, stored
<1>10. CASE P = {}
  <2>1. FirstHref(s, P) = NoUrl
    BY <1>10 DEF FirstHref
  <2>2. first = NoUrl
    BY <1>5, <1>8, <1>10
  <2>3. second = NoUrl \/ second = stored
    <3>1. CASE Dark \notin DOMAIN variants
      BY <3>1
    <3>2. CASE Dark \in DOMAIN variants
      <4>1. PICK d \in DOMAIN s : Key(d) = Dark
        BY <1>8, <3>2
      <4>2. D = {d} /\ d \in Nat
        BY <1>0, <1>4, <1>6, <4>1
      <4>3. FirstHref(s, D) = s[d].href
        BY <4>2, FirstOfOne
      <4>4. stored = s[d].href
        <5> HIDE DEF P, D, stored
        <5> QED BY <1>0, <1>2, <2>1, <4>1, <4>3, FirstOfThree
      <4>5. second = s[d].href
        BY <1>7, <4>1
      <4> QED BY <4>4, <4>5
    <3> QED BY <3>1, <3>2
  <2> HIDE DEF Loaded, first, second, stored, P, D
  <2> QED BY <1>1, <2>2, <2>3, FirstOfFour DEF Loaded, stored
<1> QED BY <1>9, <1>10

(* No step makes a list up.                                                *)
LEMMA LogosAreListed == CallSpec => [](logos \in Logos)
<1>0. LogoLists \subseteq Logos
  BY ProviderAssumption DEF Logos
<1>1. CallInit => logos \in Logos
  BY DEF CallInit, Logos
<1>2. logos \in Logos /\ [CallNext]_callVars => (logos \in Logos)'
  <2> SUFFICES ASSUME logos \in Logos, [CallNext]_callVars PROVE (logos \in Logos)'
    OBVIOUS
  <2>1. CASE EspnTeams \/ ListEspnShield
    BY <1>0, <2>1 DEF EspnTeams, ListEspnShield
  <2>2. CASE ListRaises \/ ListMlbShield \/ ListMlbTeams
    BY <2>2 DEF ListRaises, ListMlbShield, ListMlbTeams,
                listing
  <2>3. CASE \E i \in DOMAIN task : DownloadStep(i)
    BY <2>3 DEF DownloadStep, Acquire, GetReturns,
                GetErrorStatus, GetFails, BackOffEnds,
                Rasterise, listing
  <2>4. CASE LevelDone \/ ShieldDone
    BY <2>4 DEF LevelDone, ShieldDone, listing
  <2>5. CASE UNCHANGED callVars
    BY <2>5 DEF callVars, listing
  <2> QED BY <2>1, <2>2, <2>3, <2>4, <2>5 DEF CallNext, CallRests
<1> QED BY <1>1, <1>2, PTL DEF CallSpec

(* A default logo that has expired is fetched from the URL the seed stored,*)
(* whatever an unambiguous ESPN list holds and however long it is.         *)
THEOREM ProviderLogosComeAgain == CallSpec => []LoaderFetchesTheSame
<1>1. logos \in Logos => LoaderFetchesTheSame
  BY ChoicesAgree DEF LoaderFetchesTheSame
<1> QED BY <1>1, LogosAreListed, PTL

-----------------------------------------------------------------------------
(* The teams of a league of MiLB.                                          *)
SomeTeams == UNION {ListedAt[l] : l \in DOMAIN ListedAt}
TeamRows == [colour : SomeTeams \cup {Nothing}, id : SomeTeams, level : Nat,
             slug : {SlugOf[t] : t \in SomeTeams}]

(* A level's downloads are those of the teams it keeps, in their order;    *)
(* none is kept twice, and every one that takes another's slug is warned   *)
(* of.                                                                     *)
LevelInv ==
    LET kept == Kept(entries)
    IN  /\ kept \in Seq(ListedAt[Level] \ Untagged)
        /\ Injective(kept)
        /\ DOMAIN task = DOMAIN kept
        /\ \A i \in DOMAIN kept : task[i].of = kept[i]
        /\ Collisions(kept) \subseteq warned

(* What the rows of some teams are to each other and to the warnings.      *)
OwnRows(rows, warnings) ==
    /\ \A i \in DOMAIN rows :
          /\ rows[i].colour \in {rows[i].id, Nothing}
          /\ rows[i].slug = SlugOf[rows[i].id]
          /\ rows[i].id \notin Untagged
    /\ \A i, j \in DOMAIN rows :
          /\ rows[i].id = rows[j].id => i = j \/ rows[i].level # rows[j].level
          /\ i < j /\ rows[i].slug = rows[j].slug /\ rows[i].level = rows[j].level =>
                \E pair \in warnings : pair[2] = rows[j].id

(* Levels that are done precede the one at hand.                           *)
TeamsInv ==
    /\ teams \in Seq(TeamRows)
    /\ OwnRows(teams, warned)
    /\ level \in Nat
    /\ IsMlbTeams =>
          /\ level \in 1..Len(LevelsOf[call])
          /\ phase \in {"list", "download"} => \A i \in DOMAIN teams : teams[i].level < level
          /\ phase = "download" => LevelInv

(* The level at hand is one whose teams are known to be finitely many.     *)
LEMMA LevelIs ==
    ASSUME IsMlbTeams, level \in 1..Len(LevelsOf[call])
    PROVE  /\ Level \in DOMAIN ListedAt
           /\ IsFiniteSet(ListedAt[Level])
           /\ Level # Rookie => ListedAt[Level] \cap Untagged = {}
<1>1. LevelsOf[call] \in Seq(DOMAIN ListedAt)
  BY ProviderAssumption DEF IsMlbTeams
<1> DEFINE levels == LevelsOf[call]
           L == DOMAIN ListedAt
<1> HIDE DEF levels, L
<1>2. levels \in Seq(L) /\ level \in 1..Len(levels) => levels[level] \in L
  OBVIOUS
<1>3. Level \in DOMAIN ListedAt
  BY <1>1, <1>2 DEF Level, levels, L
<1> QED BY <1>3, ProviderAssumption

(* Of two kept teams with one slug the later is warned of: the last one    *)
(* before it with that slug collides with it.                              *)
LEMMA LaterIsWarned ==
    ASSUME NEW T, NEW kept \in Seq(T), NEW k \in DOMAIN kept, NEW l \in DOMAIN kept, k < l,
           SlugOf[kept[k]] = SlugOf[kept[l]]
    PROVE  \E pair \in Collisions(kept) : pair[2] = kept[l]
<1>0. k \in Nat /\ l \in Nat /\ Len(kept) \in Nat /\ DOMAIN kept = 1..Len(kept)
  OBVIOUS
<1> DEFINE Same(d) == SlugOf[kept[l - d]] = SlugOf[kept[l]]
           gaps == {d \in 1..(l - 1) : Same(d)}
<1>1. l - (l - k) = k /\ l - k \in 1..(l - 1)
  BY <1>0
<1>2. l - k \in gaps
  BY <1>1
<1>3. gaps \subseteq Nat /\ gaps # {}
  BY <1>0, <1>2
<1>4. PICK d \in gaps : \A e \in gaps : d <= e
  <2> HIDE DEF gaps
  <2> QED BY <1>3, SmallestOf
<1> DEFINE p == l - d
<1>5. d \in 1..(l - 1) /\ Same(d) /\ p \in DOMAIN kept /\ p < l /\ p \in Nat
  BY <1>0, <1>4
<1>6. ASSUME NEW m \in (p + 1)..(l - 1) PROVE SlugOf[kept[m]] # SlugOf[kept[p]]
  <2> DEFINE e == l - m
  <2>1. e \in 1..(l - 1) /\ ~(d <= e) /\ l - e = m
    BY <1>0, <1>5
  <2>2. e \notin gaps
    <3> HIDE DEF gaps, e
    <3> QED BY <1>4, <2>1
  <2>3. ~Same(e)
    <3> HIDE DEF e
    <3> QED BY <2>1, <2>2
  <2> QED BY <1>5, <2>1, <2>3
<1>7. SlugOf[kept[p]] = SlugOf[kept[l]]
  BY <1>5
<1> HIDE DEF p
<1>8. Collides(kept, p, l)
  BY <1>5, <1>6, <1>7 DEF Collides
<1> DEFINE places == {q \in (DOMAIN kept) \X (DOMAIN kept) : Collides(kept, q[1], q[2])}
           place == <<p, l>>
<1>9. place \in places /\ place[1] = p /\ place[2] = l
  BY <1>5, <1>8
<1> DEFINE pair == <<kept[p], kept[l]>>
<1>10. pair \in {<<kept[q[1]], kept[q[2]]>> : q \in places}
  <2>1. pair = <<kept[place[1]], kept[place[2]]>>
    BY <1>9
  <2> HIDE DEF pair, places, place
  <2> QED BY <1>9, <2>1
<1>11. Collisions(kept) = {<<kept[q[1]], kept[q[2]]>> : q \in places}
  BY DEF Collisions
<1>12. pair[2] = kept[l]
  OBVIOUS
<1> HIDE DEF pair, places
<1> QED BY <1>10, <1>11, <1>12

(* What a level lists, whatever the order, has downloads of its own.       *)
LEMMA ListingIsOwn ==
    ASSUME TeamsInv, ListMlbTeams
    PROVE  LevelInv'
<1> DEFINE here == ListedAt[Level]
<1>0. /\ phase = "list" /\ IsMlbTeams /\ call' = call /\ level' = level
      /\ Level' = Level /\ level \in 1..Len(LevelsOf[call])
      /\ Nothing \notin {"bytes", "status", "other"}
  BY ProviderAssumption DEF ListMlbTeams, TeamsInv, Level
<1>1. PICK listed \in Listings(here) :
         /\ entries' = Only(listed, Active)
         /\ task' = Downloads(Kept(entries'))
         /\ warned' = warned \cup Collisions(Kept(entries'))
  BY DEF ListMlbTeams
<1>2. listed \in Seq(here) /\ Injective(listed)
  <2>1. IsFiniteSet(here) /\ Cardinality(here) \in Nat
    BY <1>0, LevelIs, FS_CardinalityType
  <2> HIDE DEF here
  <2>2. PICK n \in 0..Cardinality(here) : listed \in [1..n -> here]
    BY <1>1 DEF Listings
  <2>3. n \in Nat
    BY <2>1, <2>2
  <2> QED BY <1>1, <2>2, <2>3 DEF Listings, Injective
<1> HIDE DEF here
<1>3. entries' \in Seq(here) /\ Injective(entries')
  BY <1>1, <1>2, OnlyIs
<1> DEFINE kept == Kept(entries')
<1>4. kept \in Seq(here \ Untagged) /\ Injective(kept)
  <2>1. CASE Level = Rookie
    <3>1. kept = Only(entries', here \ Untagged)
      BY <2>1 DEF Kept, here
    <3> HIDE DEF kept
    <3>2. kept \in Seq(here) /\ Injective(kept) /\ \A i \in DOMAIN kept : kept[i] \in here \ Untagged
      BY <1>3, <3>1, OnlyIs
    <3> QED BY <3>2
  <2>2. CASE Level # Rookie
    <3>1. kept = entries'
      BY <2>2 DEF Kept
    <3>2. here \ Untagged = here
      BY <1>0, <2>2, LevelIs DEF here
    <3> QED BY <1>3, <3>1, <3>2
  <2> QED BY <2>1, <2>2
<1>5. Kept(entries)' = kept
  BY <1>0 DEF Kept
<1>6. Collisions(Kept(entries))' = Collisions(kept)
  BY <1>5 DEF Collisions, Collides
<1>7. task' = Downloads(kept) /\ warned' = warned \cup Collisions(kept)
  BY <1>1
<1> HIDE DEF kept
<1>8. DOMAIN task' = DOMAIN kept /\ \A i \in DOMAIN kept : task'[i].of = kept[i]
  BY <1>0, <1>7, FreshDownloads
<1>9. (ListedAt[Level] \ Untagged)' = here \ Untagged
  BY <1>0 DEF here
<1> QED BY <1>4, <1>5, <1>6, <1>7, <1>8, <1>9 DEF LevelInv, Injective

(* The level of every row is a number.                                     *)
LEMMA LevelsAreNumbers ==
    \A rows \in Seq(TeamRows) : \A i \in DOMAIN rows : rows[i].level \in Nat
<1>1. \A r \in TeamRows : r.level \in Nat
  BY DEF TeamRows
<1>2. ASSUME NEW rows \in Seq(TeamRows), NEW i \in DOMAIN rows PROVE rows[i] \in TeamRows
  OBVIOUS
<1> QED BY <1>1, <1>2

(* The elements of a concatenation.                                        *)
LEMMA JoinIs ==
    ASSUME NEW T, NEW s \in Seq(T), NEW t \in Seq(T)
    PROVE  /\ s \o t \in Seq(T) /\ DOMAIN (s \o t) = 1..(Len(s) + Len(t))
           /\ \A i \in 1..Len(s) : (s \o t)[i] = s[i]
           /\ \A i \in 1..(Len(s) + Len(t)) :
                 Len(s) < i => i - Len(s) \in 1..Len(t) /\ (s \o t)[i] = t[i - Len(s)]
OBVIOUS

(* The teams of a level follow those of the levels before it.              *)
LEMMA LevelDoneKeeps ==
    ASSUME DownloadInv, TeamsInv, LevelDone
    PROVE  /\ teams' \in Seq(TeamRows) /\ OwnRows(teams', warned)
           /\ \A i \in DOMAIN teams' : teams'[i].level <= level
<1> DEFINE here == ListedAt[Level] \ Untagged
           kept == Kept(entries)
           Row(i) == [colour |-> Colour(i), id |-> kept[i], level |-> level,
                      slug |-> SlugOf[kept[i]]]
           new == Zipped
           n == Len(teams)
           m == Len(kept)
           all == teams \o new
<1>0. /\ phase = "download" /\ IsMlbTeams /\ teams' = all /\ level \in Nat
      /\ level \in 1..Len(LevelsOf[call]) /\ LevelInv
      /\ \A i \in DOMAIN teams : teams[i].level < level
      /\ teams \in Seq(TeamRows) /\ OwnRows(teams, warned)
      /\ \A i \in DOMAIN task : TaskOK(task[i]) /\ task[i].at = "done"
  BY DEF LevelDone, AllDone, TeamsInv, DownloadInv
<1>1. /\ kept \in Seq(here) /\ Injective(kept) /\ DOMAIN task = DOMAIN kept
      /\ \A i \in DOMAIN kept : task[i].of = kept[i]
      /\ Collisions(kept) \subseteq warned
  BY <1>0 DEF LevelInv
<1>2. here \subseteq SomeTeams \ Untagged
  BY <1>0, LevelIs DEF SomeTeams
<1> HIDE DEF here, kept
<1>3. m \in Nat /\ DOMAIN kept = 1..m /\ \A i \in 1..m : kept[i] \in SomeTeams \ Untagged
  BY <1>1, <1>2
<1>4. \A i \in 1..m : Colour(i) \in {kept[i], Nothing}
  BY <1>1, <1>3 DEF Colour
<1>5. new = [i \in 1..m |-> Row(i)]
  BY <1>1, <1>3 DEF Zipped, kept
<1> HIDE DEF new
<1>6. \A i \in 1..m : /\ Row(i).id = kept[i] /\ Row(i).level = level
                      /\ Row(i).slug = SlugOf[kept[i]] /\ Row(i).colour = Colour(i)
                      /\ Row(i) \in TeamRows
  BY <1>0, <1>3, <1>4 DEF TeamRows
<1> HIDE DEF Row
<1>7. new \in Seq(TeamRows) /\ Len(new) = m /\ \A i \in 1..m : new[i] = Row(i)
  <2>1. new \in [1..m -> TeamRows]
    BY <1>5, <1>6
  <2> QED BY <1>3, <1>5, <2>1
<1>8. /\ all \in Seq(TeamRows) /\ n \in Nat /\ DOMAIN teams = 1..n
      /\ DOMAIN all = 1..(n + m)
      /\ \A i \in 1..n : all[i] = teams[i]
      /\ \A i \in 1..(n + m) : n < i => i - n \in 1..m /\ all[i] = new[i - n]
  <2>1. teams \in Seq(TeamRows) /\ new \in Seq(TeamRows) /\ Len(new) = m
    BY <1>0, <1>7
  <2>2. n \in Nat /\ DOMAIN teams = 1..n
    BY <2>1
  <2> HIDE DEF m
  <2>3. /\ all \in Seq(TeamRows) /\ DOMAIN all = 1..(Len(teams) + Len(new))
        /\ \A i \in 1..Len(teams) : all[i] = teams[i]
        /\ \A i \in 1..(Len(teams) + Len(new)) :
              Len(teams) < i => i - Len(teams) \in 1..Len(new) /\ all[i] = new[i - Len(teams)]
    BY <2>1, JoinIs, Zenon
  <2> HIDE DEF all
  <2> QED BY <2>1, <2>2, <2>3
<1> HIDE DEF all, n, m
<1> DEFINE Old(i) == i \in 1..n /\ all[i] = teams[i]
           Fresh(i, k) == k \in 1..m /\ i = n + k /\ all[i] = Row(k)
<1>9. \A i \in DOMAIN all : Old(i) \/ \E k : Fresh(i, k)
  <2> SUFFICES ASSUME NEW i \in DOMAIN all, ~Old(i) PROVE \E k : Fresh(i, k)
    OBVIOUS
  <2> DEFINE k == i - n
  <2>1. n < i /\ i = n + k
    BY <1>3, <1>8
  <2>2. k \in 1..m /\ all[i] = new[k]
    BY <1>8, <2>1
  <2> HIDE DEF k
  <2> QED BY <1>7, <2>1, <2>2
<1>10. \A i : Old(i) => /\ i \in DOMAIN teams /\ all[i].level < level
                        /\ all[i].colour \in {all[i].id, Nothing}
                        /\ all[i].slug = SlugOf[all[i].id] /\ all[i].id \notin Untagged
                        /\ all[i].level \in Nat
  BY <1>0, <1>8, LevelsAreNumbers DEF OwnRows
<1>11. \A i, k : Fresh(i, k) => /\ all[i].level = level /\ all[i].id = kept[k]
                                /\ all[i].colour \in {all[i].id, Nothing}
                                /\ all[i].slug = SlugOf[all[i].id] /\ all[i].id \notin Untagged
                                /\ k \in DOMAIN kept
  BY <1>3, <1>4, <1>6
<1>12. \A i \in DOMAIN all : /\ all[i].level <= level
                             /\ all[i].colour \in {all[i].id, Nothing}
                             /\ all[i].slug = SlugOf[all[i].id] /\ all[i].id \notin Untagged
  BY <1>0, <1>9, <1>10, <1>11
<1>13. ASSUME NEW i \in DOMAIN all, NEW j \in DOMAIN all
       PROVE  /\ all[i].id = all[j].id => i = j \/ all[i].level # all[j].level
              /\ i < j /\ all[i].slug = all[j].slug /\ all[i].level = all[j].level =>
                    \E pair \in warned : pair[2] = all[j].id
  <2>1. CASE Old(i) /\ Old(j)
    BY <1>0, <1>10, <2>1 DEF OwnRows
  <2>2. CASE Old(i) /\ \E k : Fresh(j, k)
    BY <1>0, <1>10, <1>11, <2>2
  <2>3. CASE Old(j) /\ \E k : Fresh(i, k)
    BY <1>0, <1>10, <1>11, <2>3
  <2>4. CASE (\E k : Fresh(i, k)) /\ (\E k : Fresh(j, k))
    <3>1. PICK k : Fresh(i, k)
      BY <2>4
    <3>2. PICK l : Fresh(j, l)
      BY <2>4
    <3>3. /\ k \in DOMAIN kept /\ l \in DOMAIN kept /\ all[i].id = kept[k] /\ all[j].id = kept[l]
          /\ all[i].slug = SlugOf[kept[k]] /\ all[j].slug = SlugOf[kept[l]]
      BY <1>11, <3>1, <3>2
    <3>4. (i < j => k < l) /\ (k = l => i = j)
      BY <1>3, <1>8, <3>1, <3>2
    <3>5. all[i].id = all[j].id => i = j
      BY <1>1, <3>3, <3>4 DEF Injective
    <3>6. ASSUME k < l, SlugOf[kept[k]] = SlugOf[kept[l]]
          PROVE  \E pair \in warned : pair[2] = kept[l]
      BY <1>1, <3>3, <3>6, LaterIsWarned
    <3> QED BY <3>3, <3>4, <3>5, <3>6
  <2> QED BY <1>9, <2>1, <2>2, <2>3, <2>4
<1>14. OwnRows(all, warned)
  BY <1>12, <1>13 DEF OwnRows
<1> QED BY <1>0, <1>8, <1>12, <1>14

(* Every step keeps the rows of the teams their own.                       *)
LEMMA TeamsStep ==
    ASSUME DownloadInv, TeamsInv, [CallNext]_callVars
    PROVE  TeamsInv'
<1>1. ASSUME teams' = teams, level' = level, call' = call, warned \subseteq warned',
             phase' # "download" \/ ~IsMlbTeams \/ LevelInv',
             phase' \in {"list", "download"} => phase \in {"list", "download"}
      PROVE  TeamsInv'
  <2>1. IsMlbTeams' = IsMlbTeams
    BY <1>1 DEF IsMlbTeams
  <2>2. OwnRows(teams', warned')
    BY <1>1 DEF TeamsInv, OwnRows
  <2> QED BY <1>1, <2>1, <2>2 DEF TeamsInv
<1>2. CASE ListRaises \/ EspnTeams
  BY <1>1, <1>2 DEF ListRaises, EspnTeams
<1>3. CASE ListEspnShield \/ ListMlbShield
  <2>1. ~IsMlbTeams /\ phase = "list"
    BY <1>3, ProviderAssumption DEF ListEspnShield, ListMlbShield, IsMlbTeams, IsEspnShield
  <2> QED BY <1>1, <1>3, <2>1 DEF ListEspnShield, ListMlbShield
<1>4. CASE ListMlbTeams
  BY <1>1, <1>4, ListingIsOwn DEF ListMlbTeams
<1>5. CASE \E i \in DOMAIN task : DownloadStep(i)
  <2>0. PICK i \in DOMAIN task : DownloadStep(i)
    BY <1>5
  <2>1. PICK t : DownloadMoves(i, t)
    BY <2>0, StepMoves
  <2>2. /\ DOMAIN task' = DOMAIN task
        /\ \A j \in DOMAIN task : task'[j].of = task[j].of
    BY <2>1 DEF DownloadMoves
  <2>3. /\ call' = call /\ level' = level /\ entries' = entries /\ warned' = warned
        /\ teams' = teams /\ phase' = phase
    BY <2>1 DEF DownloadMoves
  <2>4. /\ Kept(entries)' = Kept(entries) /\ Level' = Level
        /\ Collisions(Kept(entries))' = Collisions(Kept(entries))
    BY <2>3 DEF Kept, Level, Collisions, Collides
  <2>5. LevelInv => LevelInv'
    BY <2>2, <2>3, <2>4 DEF LevelInv, Injective
  <2> QED BY <1>1, <2>3, <2>5 DEF TeamsInv
<1>6. CASE LevelDone
  <2>1. /\ teams' \in Seq(TeamRows) /\ OwnRows(teams', warned)
        /\ \A i \in DOMAIN teams' : teams'[i].level <= level
    BY <1>6, LevelDoneKeeps
  <2>2. /\ call' = call /\ warned' = warned /\ level \in Nat /\ level \in 1..Len(LevelsOf[call])
        /\ \/ level < Len(LevelsOf[call]) /\ level' = level + 1 /\ phase' = "list"
           \/ level' = level /\ phase' = "returned"
    BY <1>6 DEF LevelDone, TeamsInv
  <2>3. LevelsOf[call] \in Seq(DOMAIN ListedAt)
    BY <1>6, ProviderAssumption DEF LevelDone, IsMlbTeams
  <2>4. Len(LevelsOf[call]) \in Nat
    BY <2>3
  <2>5. level' \in Nat /\ level' \in 1..Len(LevelsOf[call])
    BY <2>2, <2>4
  <2>6. phase' = "list" => \A i \in DOMAIN teams' : teams'[i].level < level'
    <3>1. \A i \in DOMAIN teams' : teams'[i].level \in Nat
      BY <2>1, LevelsAreNumbers
    <3> QED BY <2>1, <2>2, <3>1
  <2> QED BY <2>1, <2>2, <2>5, <2>6 DEF TeamsInv
<1>7. CASE ShieldDone
  BY <1>1, <1>7 DEF ShieldDone
<1>8. CASE UNCHANGED callVars
  <2>1. /\ call' = call /\ level' = level /\ entries' = entries /\ warned' = warned
        /\ teams' = teams /\ phase' = phase /\ task' = task
    BY <1>8 DEF callVars, listing
  <2>2. /\ Kept(entries)' = Kept(entries) /\ Level' = Level
        /\ Collisions(Kept(entries))' = Collisions(Kept(entries))
    BY <2>1 DEF Kept, Level, Collisions, Collides
  <2>3. LevelInv => LevelInv'
    BY <2>1, <2>2 DEF LevelInv, Injective
  <2> QED BY <1>1, <2>1, <2>3 DEF TeamsInv
<1> QED BY <1>2, <1>3, <1>4, <1>5, <1>6, <1>7, <1>8 DEF CallNext, CallRests

(* No team that a league of MiLB returns has another one's colours or      *)
(* slug, or comes twice, and one that takes another's place is warned of,  *)
(* in whatever order the downloads of a level end.                         *)
THEOREM ProviderTeamsAreTheirOwn == CallSpec => []TeamsAreTheirOwn
<1>1. CallInit => DownloadInv /\ TeamsInv
  <2> SUFFICES ASSUME CallInit PROVE DownloadInv /\ TeamsInv
    OBVIOUS
  <2>1. teams = <<>> /\ level = 1 /\ phase = "list"
    BY DEF CallInit
  <2>2. ASSUME IsMlbTeams PROVE 1 \in 1..Len(LevelsOf[call])
    <3>1. LevelsOf[call] # <<>> /\ LevelsOf[call] \in Seq(DOMAIN ListedAt)
      BY <2>2, ProviderAssumption DEF IsMlbTeams
    <3> QED BY <3>1
  <2>3. <<>> \in Seq(TeamRows) /\ DOMAIN <<>> = {}
    OBVIOUS
  <2> QED BY <2>1, <2>2, <2>3, DownloadInit DEF TeamsInv, OwnRows
<1>2. DownloadInv /\ TeamsInv /\ [CallNext]_callVars => (DownloadInv /\ TeamsInv)'
  BY DownloadStepKeeps, TeamsStep
<1>3. TeamsInv => TeamsAreTheirOwn
  BY DEF TeamsInv, OwnRows, TeamsAreTheirOwn, ColoursAreOwn,
         CollisionsAreWarned
<1> QED BY <1>1, <1>2, <1>3, PTL DEF CallSpec
=============================================================================
