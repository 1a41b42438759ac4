------------------------- MODULE TeamResolverProofs -------------------------
(***************************************************************************)
(* Theorems about TeamResolver, for any leagues, teams, aliases, scores    *)
(* and number of concurrent calls.                                         *)
(***************************************************************************)
EXTENDS TeamResolver, TLAPS

Underway(l) == at[l] \notin {"idle", "answered"}

(* A call that is under way names a known league and a proper input, so    *)
(* that its cache key is a key.                                            *)
CallsAreKeys ==
    \A l \in Lookups : Underway(l) => call[l] \in Keys

(* What a lookup holds at each place: no team before it has found one, a   *)
(* team when it fetches or stores one.                                     *)
HoldsAsPlaced ==
    \A l \in Lookups :
        /\ at[l] \in {"fetch", "writepos"} => found[l].team # None
        /\ at[l] \in {"getpos", "delpos", "getneg", "exact", "fuzzy", "writeneg"}
              => found[l].team = None

(* An alias refers to a row that is there: the foreign key, and the cascade*)
(* when a row is deleted.  Without it the version a query reads could be   *)
(* that of a deleted row, and the types alone would not be inductive.      *)
AliasLive ==
    \A key \in Keys : alias[key] # None => rows[alias[key]] > 0

TypeInv == TypeOK /\ CallsAreKeys /\ HoldsAsPlaced /\ AliasLive

-----------------------------------------------------------------------------
(* A call's Redis key is the pair of its league and its input.             *)
LEMMA KeyIsCall ==
    ASSUME NEW l \in Lookups, call[l] \in Keys
    PROVE  Key(l) = call[l]
BY DEF Key, RedisKey, Keys

(* The steps, one disjunct for each action.                                *)
LEMMA StepCases ==
    ASSUME [Next]_vars
    PROVE  \/ \E l \in Lookups : LookupStep(l)
           \/ \E l \in Lookups : CallFails(l)
           \/ \E l \in Lookups, c \in Calls : Ask(l, c[1], c[2])
           \/ \E t \in Teams : SeedTeam(t)
           \/ \E t \in Teams : DeleteTeam(t)
           \/ \E key \in Keys : PosExpires(key) \/ NegExpires(key)
           \/ UNCHANGED vars
BY DEF Next

(* The queries answer with a team of the tables, or with none.             *)
QueriesTyped ==
    \A key \in Keys :
        /\ Exact(key) \in Teams \cup {None}
        /\ Fuzzy(key) \subseteq Teams \cup {None}
        /\ Truth(key) \subseteq Teams \cup {None}

LEMMA QueriesAreTyped ==
    alias \in [Keys -> Teams \cup {None}] => QueriesTyped
<1> SUFFICES ASSUME alias \in [Keys -> Teams \cup {None}], NEW key \in Keys
             PROVE  /\ Exact(key) \in Teams \cup {None}
                    /\ Fuzzy(key) \subseteq Teams \cup {None}
                    /\ Truth(key) \subseteq Teams \cup {None}
  BY DEF QueriesTyped
<1>1. Exact(key) \in Teams \cup {None}
  BY DEF Exact
<1>2. ASSUME NEW n \in Norms PROVE alias[<<key[1], n>>] \in Teams \cup {None}
  BY DEF Keys
<1>3. Best(key) \subseteq Norms
  <2>1. Similar(key) \subseteq Norms
    BY DEF Similar
  <2> QED BY <2>1 DEF Best
<1>4. Fuzzy(key) \subseteq Teams \cup {None}
  BY <1>2, <1>3 DEF Fuzzy
<1> QED BY <1>1, <1>4 DEF Truth

(* A fuzzy answer is the team of an alias of the league that was named.    *)
LEMMA FuzzyIsAlias ==
    ASSUME NEW key \in Keys, NEW t \in Fuzzy(key), t # None
    PROVE  \E n \in Norms : <<key[1], n>> \in Keys /\ t = alias[<<key[1], n>>]
BY DEF Fuzzy, Best, Similar, Keys

-----------------------------------------------------------------------------
LEMMA TypeInit == Init => TypeInv
BY TeamAssumption
DEF Init, TypeInv, TypeOK, CallsAreKeys, HoldsAsPlaced, AliasLive,
    NoRow, Places, Underway

LEMMA TypeStep == TypeInv /\ [Next]_vars => TypeInv'
<1> SUFFICES ASSUME TypeInv, [Next]_vars PROVE TypeInv'
  OBVIOUS
<1>0. QueriesTyped
  BY QueriesAreTyped DEF TypeInv, TypeOK
<1> USE TeamAssumption
    DEF TypeInv, TypeOK, CallsAreKeys, HoldsAsPlaced, AliasLive, Underway, Places,
        NoRow, tableVars, redisVars
<1>1. ASSUME NEW l \in Lookups, LookupStep(l) PROVE TypeInv'
  <2>0. at[l] \notin {"idle", "answered"} => call[l] \in Keys /\ Key(l) = call[l]
    BY KeyIsCall
  <2> USE DEF Goto
  <2>1. CASE GetPosHit(l)
    <3>1. at[l] = "getpos" /\ at' = [at EXCEPT ![l] = "fetch"]
      BY <2>1 DEF GetPosHit
    <3>2. Key(l) = call[l] /\ call[l] \in Keys
      BY <2>0, <3>1
    <3>3. pos[call[l]] \in Teams
      BY <2>1, <3>2 DEF GetPosHit
    <3>4. /\ found' \in [Lookups -> [team : Teams \cup {None}, version : Nat]]
          /\ found'[l].team = pos[call[l]]
          /\ \A k \in Lookups \ {l} : found'[k] = found[k]
      BY <2>1, <3>2, <3>3 DEF GetPosHit
    <3> QED BY <2>1, <3>1, <3>2, <3>3, <3>4 DEF GetPosHit
  <2>2. CASE GetPosMiss(l) \/ GetNeg(l)
    BY <2>2 DEF GetPosMiss, GetNeg
  <2>3. CASE FetchById(l)
    BY <2>3 DEF FetchById, Exists, Row
  <2>4. CASE DeletePos(l)
    BY <2>0, <2>4 DEF DeletePos
  <2>5. CASE QueryExact(l)
    <3>1. at[l] = "exact" /\ call[l] \in Keys
      BY <2>0, <2>5 DEF QueryExact
    <3>2. CASE Exact(call[l]) = None
      BY <2>5, <3>1, <3>2 DEF QueryExact
    <3>3. CASE Exact(call[l]) # None
      <4>1. Exact(call[l]) \in Teams
        BY <1>0, <3>1, <3>3 DEF QueriesTyped
      <4> DEFINE t == Exact(call[l])
      <4>2. rows[t] \in Nat
        BY <3>1, <3>3, <4>1 DEF Exact
      <4> QED BY <2>5, <3>1, <3>3, <4>1, <4>2 DEF QueryExact, Row
    <3> QED BY <3>2, <3>3
  <2>6. CASE QueryFuzzy(l)
    <3>1. at[l] = "fuzzy" /\ call[l] \in Keys
      BY <2>0, <2>6 DEF QueryFuzzy
    <3>2. PICK t \in Fuzzy(call[l]) :
             /\ Goto(l, "fuzzy", IF t = None THEN "writeneg" ELSE "writepos")
             /\ found' = [found EXCEPT ![l] = IF t = None THEN NoRow ELSE Row(t)]
             /\ UNCHANGED <<tableVars, redisVars, call, began>>
      BY <2>6 DEF QueryFuzzy
    <3>3. CASE t = None
      BY <3>1, <3>2, <3>3
    <3>4. CASE t # None
      <4>1. t \in Teams /\ rows[t] \in Nat
        <5>1. PICK n \in Norms : <<call[l][1], n>> \in Keys /\ t = alias[<<call[l][1], n>>]
          BY <3>1, <3>4, FuzzyIsAlias
        <5>2. AliasLive /\ alias \in [Keys -> Teams \cup {None}] /\ rows \in [Teams -> {-1} \cup Nat]
          OBVIOUS
        <5> QED BY ONLY <5>1, <5>2, <3>4 DEF AliasLive
      <4> QED BY <3>1, <3>2, <3>4, <4>1 DEF Row
    <3> QED BY <3>3, <3>4
  <2>7. CASE WritePos(l) \/ WriteNeg(l)
    BY <2>0, <2>7 DEF WritePos, WriteNeg
  <2> QED BY <1>1, <2>1, <2>2, <2>3, <2>4, <2>5, <2>6, <2>7 DEF LookupStep
<1>2. ASSUME NEW l \in Lookups, CallFails(l) PROVE TypeInv'
  BY <1>2 DEF CallFails
<1>3. ASSUME NEW l \in Lookups, NEW c \in Calls, Ask(l, c[1], c[2]) PROVE TypeInv'
  <2>1. c = <<c[1], c[2]>> /\ c[1] \in Leagues /\ c[2] \in Norms \cup {Overlong}
    OBVIOUS
  <2>2. c[2] # Overlong => c \in Keys
    BY <2>1 DEF Keys
  <2> QED BY <1>3, <2>1, <2>2 DEF Ask
(* What the tables mean by a key after a change is typed like before it.   *)
<1>4. ASSUME NEW t \in Teams, SeedTeam(t) \/ DeleteTeam(t) PROVE TypeInv'
  <2>1. alias' \in [Keys -> Teams \cup {None}]
    BY <1>4 DEF SeedTeam, DeleteTeam
  <2>2. (alias \in [Keys -> Teams \cup {None}] => QueriesTyped)'
    BY QueriesAreTyped, PTL
  <2>3. \A key \in Keys : Truth(key)' \subseteq Teams \cup {None}
    BY <2>1, <2>2 DEF QueriesTyped
  <2>4. truths' = [key \in Keys |-> truths[key] \cup Truth(key)']
    BY <1>4 DEF SeedTeam, DeleteTeam
  <2>5. truths' \in [Keys -> SUBSET (Teams \cup {None})]
    BY <2>3, <2>4
  <2>6. rows' \in [Teams -> {-1} \cup Nat]
    <3>1. rows \in [Teams -> {-1} \cup Nat]
      OBVIOUS
    <3>2. CASE SeedTeam(t)
      <4>1. rows[t] + 1 \in Nat /\ rows' = [rows EXCEPT ![t] = rows[t] + 1]
        BY ONLY <3>1, <3>2 DEF SeedTeam
      <4> QED BY ONLY <3>1, <4>1
    <3>3. CASE DeleteTeam(t)
      BY ONLY <3>1, <3>3 DEF DeleteTeam
    <3> QED BY <1>4, <3>2, <3>3
  <2>7. AliasLive'
    BY <1>4, <2>1, <2>6 DEF SeedTeam, DeleteTeam, Exists
  <2>8. UNCHANGED <<redisVars, at, call, found, began>>
    BY <1>4 DEF SeedTeam, DeleteTeam
  <2> QED BY <2>1, <2>5, <2>6, <2>7, <2>8
<1>6. ASSUME NEW key \in Keys, PosExpires(key) \/ NegExpires(key) PROVE TypeInv'
  BY <1>6 DEF PosExpires, NegExpires
<1>7. CASE UNCHANGED vars
  BY <1>7 DEF vars
<1> QED BY <1>1, <1>2, <1>3, <1>4, <1>6, <1>7, StepCases

(* Type correctness: every reachable state of resolve is one of its type,  *)
(* and no alias refers to a row that is not there.                         *)
THEOREM TypesHold == Spec => []TypeInv
BY TypeInit, TypeStep, PTL DEF Spec

-----------------------------------------------------------------------------
(* Where a lookup's team comes from: it is the one it held, the one in the *)
(* cache under its key, or one its queries found; and what goes into the   *)
(* cache is what the lookup holds.                                         *)
Source(l) ==
    \/ found'[l].team \in {None, found[l].team}
    \/ /\ call[l] \in Keys
       /\ found'[l].team \in {pos[call[l]], Exact(call[l])} \cup Fuzzy(call[l])
Cached(l) ==
    \A key \in Keys :
        \/ pos'[key] \in {None, pos[key]}
        \/ key = call[l] /\ pos'[key] = found[l].team

LEMMA LookupChanges ==
    ASSUME TypeInv, NEW l \in Lookups, LookupStep(l) \/ CallFails(l)
    PROVE  /\ UNCHANGED <<tableVars, call, began>>
           /\ \A k \in Lookups \ {l} : at'[k] = at[k] /\ found'[k] = found[k]
           /\ Source(l) /\ Cached(l)
<1> USE DEF TypeInv, TypeOK, CallsAreKeys, tableVars, redisVars, Goto, Underway, NoRow
<1>0. Underway(l) => call[l] \in Keys /\ Key(l) = call[l]
  BY KeyIsCall
<1>1. CASE GetPosHit(l)
  BY <1>0, <1>1 DEF GetPosHit, Source, Cached
<1>2. CASE GetPosMiss(l) \/ GetNeg(l)
  BY <1>2 DEF GetPosMiss, GetNeg, Source, Cached
<1>3. CASE FetchById(l)
  BY <1>3 DEF FetchById, Row, Source, Cached
<1>4. CASE DeletePos(l)
  BY <1>0, <1>4 DEF DeletePos, Source, Cached
<1>5. CASE QueryExact(l)
  BY <1>0, <1>5 DEF QueryExact, Row, Source, Cached
<1>6. CASE QueryFuzzy(l)
  BY <1>0, <1>6 DEF QueryFuzzy, Row, Source, Cached
<1>7. CASE WritePos(l)
  BY <1>0, <1>7 DEF WritePos, Source, Cached
<1>8. CASE WriteNeg(l)
  BY <1>8 DEF WriteNeg, Source, Cached
<1>9. CASE CallFails(l)
  BY <1>9 DEF CallFails, Source, Cached
<1> QED BY <1>1, <1>2, <1>3, <1>4, <1>5, <1>6, <1>7, <1>8, <1>9 DEF LookupStep

(* A lookup that comes to hold a row for its answer has just read it.      *)
LEMMA RowsRead ==
    ASSUME TypeInv, NEW l \in Lookups, LookupStep(l) \/ CallFails(l),
           at'[l] \in {"writepos", "answered"}, found'[l].team # None
    PROVE  \/ found'[l] = found[l] /\ at[l] = "writepos"
           \/ \E t \in Teams : rows[t] > 0 /\ found'[l] = Row(t)
<1> USE DEF TypeInv, TypeOK, CallsAreKeys, HoldsAsPlaced, tableVars, redisVars, Goto,
        Underway, NoRow
<1>0. Underway(l) => call[l] \in Keys
  OBVIOUS
<1>1. CASE FetchById(l)
  BY <1>1 DEF FetchById, Row, Exists
<1>2. CASE QueryExact(l)
  BY <1>0, <1>2 DEF QueryExact, Row, Exact, AliasLive
<1>3. CASE QueryFuzzy(l)
  <2>1. at[l] = "fuzzy" /\ call[l] \in Keys
    BY <1>0, <1>3 DEF QueryFuzzy
  <2>2. PICK t \in Fuzzy(call[l]) :
           found' = [found EXCEPT ![l] = IF t = None THEN NoRow ELSE Row(t)]
    BY <1>3 DEF QueryFuzzy
  <2>3. t # None /\ found'[l] = Row(t)
    BY <2>2 DEF Row
  <2>4. PICK n \in Norms : <<call[l][1], n>> \in Keys /\ t = alias[<<call[l][1], n>>]
    BY <2>1, <2>3, FuzzyIsAlias
  <2> QED BY <2>3, <2>4 DEF AliasLive
<1>4. CASE WritePos(l)
  BY <1>4 DEF WritePos
<1>5. CASE \/ GetPosHit(l) \/ GetPosMiss(l) \/ DeletePos(l) \/ GetNeg(l)
           \/ WriteNeg(l) \/ CallFails(l)
  BY <1>5 DEF GetPosHit, GetPosMiss, DeletePos, GetNeg, WriteNeg, CallFails
<1> QED BY <1>1, <1>2, <1>3, <1>4, <1>5 DEF LookupStep

-----------------------------------------------------------------------------
(* Isolation: every place a team can be kept under a league, alias table,  *)
(* positive cache and the calls' own slots, keeps teams of that league.    *)
AliasLeague == \A key \in Keys : alias[key] # None => LeagueOf[alias[key]] = key[1]
PosLeague == \A key \in Keys : pos[key] # None => LeagueOf[pos[key]] = key[1]
FoundLeague ==
    \A l \in Lookups : found[l].team # None => LeagueOf[found[l].team] = call[l][1]
IsolationInv == AliasLeague /\ PosLeague /\ FoundLeague

(* Currency: versions only grow while a row is there, and what a lookup    *)
(* is about to answer was read after its call began.                       *)
RowsGrow ==
    \A l \in Lookups, t \in Teams :
        rows[t] = -1 \/ (began[l][t] >= 0 /\ began[l][t] <= rows[t])
HoldsCurrentRow ==
    \A l \in Lookups :
        at[l] \in {"writepos", "answered"} /\ found[l].team # None =>
            /\ began[l][found[l].team] >= 0
            /\ found[l].version >= began[l][found[l].team]
            /\ found[l].version > 0
CurrencyInv == RowsGrow /\ HoldsCurrentRow

(* Truth: truths remembers the tables' every answer, and what the caches   *)
(* and the calls hold is remembered there.                                 *)
TruthsRemember ==
    \A key \in Keys : None \in truths[key] /\ Truth(key) \subseteq truths[key]
PosWasTrue == \A key \in Keys : pos[key] \in truths[key]
FoundWasTrue ==
    \A l \in Lookups : call[l] \in Keys => found[l].team \in truths[call[l]]
TruthInv == TruthsRemember /\ PosWasTrue /\ FoundWasTrue

-----------------------------------------------------------------------------
LEMMA IsolationStep == TypeInv /\ IsolationInv /\ [Next]_vars => IsolationInv'
<1> SUFFICES ASSUME TypeInv, IsolationInv, [Next]_vars PROVE IsolationInv'
  OBVIOUS
<1> USE TeamAssumption
    DEF TypeInv, TypeOK, IsolationInv, AliasLeague, PosLeague, FoundLeague
<1>1. ASSUME NEW l \in Lookups, LookupStep(l) \/ CallFails(l) PROVE IsolationInv'
  <2>1. UNCHANGED <<rows, alias, call>> /\ Source(l) /\ Cached(l)
    BY <1>1, LookupChanges DEF tableVars
  <2>2. \A k \in Lookups \ {l} : found'[k] = found[k]
    BY <1>1, LookupChanges
  <2>3. ASSUME found'[l].team # None PROVE LeagueOf[found'[l].team] = call[l][1]
    <3>1. ASSUME call[l] \in Keys, found'[l].team \in Fuzzy(call[l])
          PROVE  LeagueOf[found'[l].team] = call[l][1]
      <4>1. PICK n \in Norms : /\ <<call[l][1], n>> \in Keys
                               /\ found'[l].team = alias[<<call[l][1], n>>]
        BY <2>3, <3>1, FuzzyIsAlias
      <4> QED BY <2>3, <4>1
    <3> QED BY <2>1, <2>3, <3>1 DEF Source, Exact
  <2>4. PosLeague'
    BY <2>1 DEF Cached, Keys
  <2> QED BY <2>1, <2>2, <2>3, <2>4
<1>2. ASSUME NEW l \in Lookups, NEW c \in Calls, Ask(l, c[1], c[2]) PROVE IsolationInv'
  BY <1>2 DEF Ask, NoRow, tableVars, redisVars
<1>3. ASSUME NEW t \in Teams, SeedTeam(t) \/ DeleteTeam(t) PROVE IsolationInv'
  <2>1. AliasLeague'
    BY <1>3 DEF SeedTeam, DeleteTeam, Keys
  <2> QED BY <1>3, <2>1 DEF SeedTeam, DeleteTeam, redisVars
<1>4. ASSUME NEW key \in Keys, PosExpires(key) \/ NegExpires(key) PROVE IsolationInv'
  BY <1>4 DEF PosExpires, NegExpires, tableVars
<1>5. CASE UNCHANGED vars
  BY <1>5 DEF vars, tableVars, redisVars
<1> QED BY <1>1, <1>2, <1>3, <1>4, <1>5, StepCases

(* "Cross-league isolation": an answer is a team of the league that was    *)
(* named, whether the tables or a cache gave it.                           *)
THEOREM LeaguesAreIsolated == Spec => []LeagueIsolation
<1>1. Init => IsolationInv
  BY DEF Init, IsolationInv, AliasLeague, PosLeague, FoundLeague, NoRow
<1>2. IsolationInv => LeagueIsolation
  BY DEF IsolationInv, FoundLeague, LeagueIsolation, Answered, Answer
<1> QED BY <1>1, <1>2, TypesHold, IsolationStep, PTL DEF Spec

-----------------------------------------------------------------------------
LEMMA CurrencyStep == TypeInv /\ CurrencyInv /\ [Next]_vars => CurrencyInv'
<1> SUFFICES ASSUME TypeInv, CurrencyInv, [Next]_vars PROVE CurrencyInv'
  OBVIOUS
<1> USE TeamAssumption DEF TypeInv, TypeOK, CurrencyInv, RowsGrow, HoldsCurrentRow
<1>1. ASSUME NEW l \in Lookups, LookupStep(l) \/ CallFails(l) PROVE CurrencyInv'
  <2>1. UNCHANGED <<rows, alias, call, began>>
    BY <1>1, LookupChanges DEF tableVars
  <2>2. \A k \in Lookups \ {l} : at'[k] = at[k] /\ found'[k] = found[k]
    BY <1>1, LookupChanges
  <2>3. SUFFICES ASSUME at'[l] \in {"writepos", "answered"}, found'[l].team # None
                 PROVE  /\ began[l][found'[l].team] >= 0
                        /\ found'[l].version >= began[l][found'[l].team]
                        /\ found'[l].version > 0
    BY <2>1, <2>2
  <2>4. \/ found'[l] = found[l] /\ at[l] = "writepos"
        \/ \E t \in Teams : rows[t] > 0 /\ found'[l] = Row(t)
    BY <1>1, <2>3, RowsRead
  <2>5. CASE \E t \in Teams : rows[t] > 0 /\ found'[l] = Row(t)
    <3>1. PICK t \in Teams : rows[t] > 0 /\ found'[l] = Row(t)
      BY <2>5
    <3>2. rows[t] \in Nat /\ began[l][t] >= 0 /\ began[l][t] <= rows[t]
      BY <3>1
    <3> QED BY <3>1, <3>2 DEF Row
  <2> QED BY <2>3, <2>4, <2>5
<1>2. ASSUME NEW l \in Lookups, NEW c \in Calls, Ask(l, c[1], c[2]) PROVE CurrencyInv'
  BY <1>2 DEF Ask, NoRow, tableVars, redisVars
<1>3. ASSUME NEW t \in Teams, SeedTeam(t) \/ DeleteTeam(t) PROVE CurrencyInv'
  <2>1. UNCHANGED <<at, found, began>>
    BY <1>3 DEF SeedTeam, DeleteTeam
  <2>2. CASE SeedTeam(t)
    <3>1. rows[t] \in Nat /\ rows' = [rows EXCEPT ![t] = rows[t] + 1]
      BY <2>2 DEF SeedTeam
    <3>2. RowsGrow'
      <4>1. rows \in [Teams -> {-1} \cup Nat] /\ began \in [Lookups -> [Teams -> {-1} \cup Nat]]
        OBVIOUS
      <4> QED BY ONLY <2>1, <3>1, <4>1, RowsGrow DEF RowsGrow
    <3> QED BY <2>1, <3>2
  <2>3. CASE DeleteTeam(t)
    BY <2>1, <2>3 DEF DeleteTeam
  <2> QED BY <1>3, <2>2, <2>3
<1>4. ASSUME NEW key \in Keys, PosExpires(key) \/ NegExpires(key) PROVE CurrencyInv'
  BY <1>4 DEF PosExpires, NegExpires, tableVars
<1>5. CASE UNCHANGED vars
  BY <1>5 DEF vars, tableVars, redisVars
<1> QED BY <1>1, <1>2, <1>3, <1>4, <1>5, StepCases

(* The id is cached for days, the row is not: an answer is never older     *)
(* than its row was when the call began, and never a row already deleted.  *)
THEOREM AnswersAreCurrent == Spec => []AnswerIsCurrent
<1>1. Init => CurrencyInv
  BY DEF Init, CurrencyInv, RowsGrow, HoldsCurrentRow, NoRow
<1>2. CurrencyInv => AnswerIsCurrent
  BY DEF CurrencyInv, HoldsCurrentRow, AnswerIsCurrent, Answered, Answer
<1> QED BY <1>1, <1>2, TypesHold, CurrencyStep, PTL DEF Spec

-----------------------------------------------------------------------------
(* No alias is as similar to an input as the input itself.  pg_trgm comes  *)
(* close to it, but not quite: "aaaa" and "aaaaa" have the same trigrams.  *)
SelfIsBest ==
    \A n \in Norms :
        /\ Score[<<n, n>>] > Threshold
        /\ \A m \in Norms \ {n} : Score[<<n, m>>] < Score[<<n, n>>]

(* An alias inserted between the exact and the fuzzy query is what the     *)
(* fuzzy query finds, so that its answer is one of the tables, too.        *)
LEMMA FuzzyIsTrue ==
    ASSUME SelfIsBest, TypeOK, NEW key \in Keys
    PROVE  Fuzzy(key) \subseteq Truth(key)
<1>1. CASE Exact(key) = None
  BY <1>1 DEF Truth
<1>2. CASE Exact(key) # None
  <2>1. key = <<key[1], key[2]>> /\ key[2] \in Norms
    BY DEF Keys
  <2>2. \A m \in Norms : Score[<<key[2], m>>] \in Nat
    BY <2>1, TeamAssumption
  <2>3. key[2] \in Similar(key)
    BY <1>2, <2>1 DEF Similar, SelfIsBest, Exact
  <2>4. Best(key) \subseteq {key[2]}
    <3> SUFFICES ASSUME NEW n \in Norms, n # key[2], n \in Best(key) PROVE FALSE
      BY DEF Best, Similar
    <3>1. Score[<<key[2], key[2]>>] <= Score[<<key[2], n>>]
      BY <2>3 DEF Best
    <3>2. Score[<<key[2], n>>] < Score[<<key[2], key[2]>>]
      BY <2>1 DEF SelfIsBest
    <3>3. Score[<<key[2], n>>] \in Nat /\ Score[<<key[2], key[2]>>] \in Nat
      BY <2>1, <2>2
    <3> QED BY <3>1, <3>2, <3>3
  <2>5. Best(key) = {key[2]}
    <3>1. \A m \in Similar(key) : Score[<<key[2], m>>] <= Score[<<key[2], key[2]>>]
      <4> SUFFICES ASSUME NEW m \in Norms PROVE Score[<<key[2], m>>] <= Score[<<key[2], key[2]>>]
        BY DEF Similar
      <4>1. Score[<<key[2], m>>] \in Nat /\ Score[<<key[2], key[2]>>] \in Nat
        BY <2>1, <2>2
      <4>2. CASE m = key[2]
        BY <4>1, <4>2
      <4>3. CASE m # key[2]
        BY <2>1, <4>1, <4>3 DEF SelfIsBest
      <4> QED BY <4>2, <4>3
    <3> QED BY <2>3, <2>4, <3>1 DEF Best
  <2>6. Fuzzy(key) = {Exact(key)}
    BY <2>1, <2>5 DEF Fuzzy, Exact
  <2> QED BY <1>2, <2>6 DEF Truth
<1> QED BY <1>1, <1>2

(* What the tables mean by a key depends on the aliases alone.             *)
LEMMA TruthFollowsAliases ==
    alias' = alias => \A key \in Keys : Truth(key)' = Truth(key)
BY DEF Truth, Exact, Fuzzy, Best, Similar

LEMMA TruthStep == SelfIsBest /\ TypeInv /\ TruthInv /\ [Next]_vars => TruthInv'
<1> SUFFICES ASSUME SelfIsBest, TypeInv, TruthInv, [Next]_vars PROVE TruthInv'
  OBVIOUS
<1>0. TruthsRemember /\ PosWasTrue /\ FoundWasTrue /\ TypeOK
  BY DEF TruthInv, TypeInv
<1>1. ASSUME UNCHANGED <<alias, truths>> PROVE TruthsRemember'
  BY <1>0, <1>1, TruthFollowsAliases DEF TruthsRemember
<1>2. ASSUME NEW l \in Lookups, LookupStep(l) \/ CallFails(l) PROVE TruthInv'
  <2>1. UNCHANGED <<alias, truths, call>> /\ Source(l) /\ Cached(l)
    BY <1>2, LookupChanges DEF tableVars
  <2>2. \A k \in Lookups \ {l} : found'[k] = found[k]
    BY <1>2, LookupChanges
  <2>3. ASSUME call[l] \in Keys PROVE found'[l].team \in truths[call[l]]
    <3>1. None \in truths[call[l]] /\ found[l].team \in truths[call[l]]
      BY <1>0, <2>3 DEF TruthsRemember, FoundWasTrue
    <3>2. Exact(call[l]) \in truths[call[l]]
      BY <1>0, <2>3, <3>1 DEF TruthsRemember, Truth
    <3>3. Fuzzy(call[l]) \subseteq truths[call[l]]
      BY <1>0, <2>3, FuzzyIsTrue DEF TruthsRemember
    <3>4. pos[call[l]] \in truths[call[l]]
      BY <1>0, <2>3 DEF PosWasTrue
    <3> QED BY <2>1, <3>1, <3>2, <3>3, <3>4 DEF Source
  <2>4. FoundWasTrue'
    BY <1>0, <2>1, <2>2, <2>3 DEF FoundWasTrue
  <2>5. PosWasTrue'
    <3> SUFFICES ASSUME NEW key \in Keys PROVE pos'[key] \in truths[key]
      BY <2>1 DEF PosWasTrue
    <3>1. pos[key] \in truths[key] /\ None \in truths[key]
      BY <1>0 DEF PosWasTrue, TruthsRemember
    <3>2. key = call[l] => found[l].team \in truths[key]
      BY <1>0 DEF FoundWasTrue
    <3> QED BY <2>1, <3>1, <3>2 DEF Cached
  <2> QED BY <1>1, <2>1, <2>4, <2>5 DEF TruthInv
<1>3. ASSUME NEW l \in Lookups, NEW c \in Calls, Ask(l, c[1], c[2]) PROVE TruthInv'
  <2>1. /\ UNCHANGED <<alias, truths, pos>>
        /\ call' = [call EXCEPT ![l] = c] /\ found' = [found EXCEPT ![l] = NoRow]
    <3>1. c = <<c[1], c[2]>>
      BY TeamAssumption
    <3> QED BY <1>3, <3>1 DEF Ask, tableVars, redisVars
  <2>2. FoundWasTrue'
    BY <1>0, <2>1 DEF FoundWasTrue, TruthsRemember, NoRow, TypeOK
  <2> QED BY <1>0, <1>1, <2>1, <2>2 DEF TruthInv, PosWasTrue
<1>4. ASSUME NEW t \in Teams, SeedTeam(t) \/ DeleteTeam(t) PROVE TruthInv'
  <2>1. truths' = [key \in Keys |-> truths[key] \cup Truth(key)']
    BY <1>4 DEF SeedTeam, DeleteTeam
  <2>2. UNCHANGED <<pos, call, found>>
    BY <1>4 DEF SeedTeam, DeleteTeam, redisVars
  <2>3. TruthsRemember'
    BY <1>0, <2>1 DEF TruthsRemember
  <2>4. PosWasTrue' /\ FoundWasTrue'
    BY <1>0, <2>1, <2>2 DEF PosWasTrue, FoundWasTrue
  <2> QED BY <2>3, <2>4 DEF TruthInv
<1>5. ASSUME NEW key \in Keys, PosExpires(key) \/ NegExpires(key) PROVE TruthInv'
  <2>1. UNCHANGED <<alias, truths, call, found>>
    BY <1>5 DEF PosExpires, NegExpires, tableVars
  <2>2. pos' = pos \/ pos' = [pos EXCEPT ![key] = None]
    BY <1>5 DEF PosExpires, NegExpires
  <2>3. PosWasTrue'
    BY <1>0, <2>1, <2>2 DEF PosWasTrue, TruthsRemember, TypeOK
  <2> QED BY <1>0, <1>1, <2>1, <2>3 DEF TruthInv, FoundWasTrue
<1>6. CASE UNCHANGED vars
  BY <1>0, <1>1, <1>6 DEF vars, tableVars, redisVars, TruthInv, PosWasTrue, FoundWasTrue
<1> QED BY <1>2, <1>3, <1>4, <1>5, <1>6, StepCases

(* Caching invents nothing: a team that answers an input is, or was, one   *)
(* the tables meant by that very input in that league, whatever seed runs, *)
(* deletions and expiries come between the calls and inside them.          *)
THEOREM AnswersWereTrue == SelfIsBest => (Spec => []AnswerWasTrue)
<1> SUFFICES ASSUME SelfIsBest PROVE Spec => []AnswerWasTrue
  OBVIOUS
<1>1. Init => TruthInv
  <2>1. ASSUME Init, NEW key \in Keys PROVE Truth(key) = {None}
    <3>1. \A n \in Norms : <<key[1], n>> \in Keys
      BY DEF Keys
    <3>2. Best(key) = {}
      BY <2>1, <3>1 DEF Init, Best, Similar
    <3> QED BY <2>1, <3>2 DEF Init, Truth, Exact, Fuzzy
  <2> QED BY <2>1 DEF Init, TruthInv, TruthsRemember, PosWasTrue, FoundWasTrue, NoRow
<1>2. TypeInv /\ TruthInv => AnswerWasTrue
  BY TeamAssumption
  DEF TypeInv, TypeOK, TruthInv, FoundWasTrue, AnswerWasTrue, Answer, Keys
<1>3. TypeInv /\ TruthInv /\ [Next]_vars => TruthInv'
  BY TruthStep
<1> QED BY <1>1, <1>2, <1>3, TypesHold, PTL DEF Spec
=============================================================================
