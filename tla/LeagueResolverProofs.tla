------------------------ MODULE LeagueResolverProofs ------------------------
(***************************************************************************)
(* Theorems about LeagueResolver, for any inputs, leagues, aliases, scores *)
(* and number of concurrent calls, and for whatever leagues an older       *)
(* release left in the cache.                                              *)
(***************************************************************************)
EXTENDS LeagueResolver, TLAPS

(* What a lookup holds at each place: nothing before its queries, and a    *)
(* row, or none, when it writes.  An overlong input never gets under way;  *)
(* the fuzzy query runs only for inputs that spell no slug.                *)
Placed ==
    \A l \in Lookups :
        /\ at[l] \in {"getpos", "delpos", "getneg", "exact"} => found[l] = None
        /\ at[l] \notin {"idle", "answered"} => input[l] \notin TooLong
        /\ at[l] = "fuzzy" => SlugMatch[input[l]] = None

KnownInv == TypeOK /\ Placed /\ AnswersKnownLeagues

-----------------------------------------------------------------------------
(* The row the exact query returns is one of the at most two it matches,   *)
(* and it returns none only when it matches none.                          *)
LEMMA ExactIsARow ==
    ASSUME NEW i \in Inputs, alias \in [Norms -> Leagues \cup {None}]
    PROVE  /\ Exact(i) \in Leagues \cup {None}
           /\ Exact(i) = None <=> ExactRows(i) = {}
           /\ Exact(i) # None => Exact(i) \in {alias[Norm[i]], SlugMatch[i]}
<1> DEFINE R == ExactRows(i)
<1>1. R \subseteq {alias[Norm[i]], SlugMatch[i]} /\ R \subseteq Leagues /\ R \subseteq Nat
  BY LeagueAssumption DEF ExactRows
<1>2. CASE R = {}
  BY <1>2 DEF Exact, FirstRow
<1>3. CASE R # {}
  <2>1. \E g \in R : \A h \in R : g <= h
    <3>1. PICK a \in R : TRUE
      BY <1>3
    <3>2. CASE \A h \in R : a <= h
      BY <3>2
    <3>3. CASE ~ \A h \in R : a <= h
      <4>1. PICK b \in R : ~ (a <= b)
        BY <3>3
      <4>2. a \in Nat /\ b \in Nat /\ b <= a /\ b <= b /\ a # b
        BY <1>1, <4>1
      <4>3. \A h \in R : h = a \/ h = b
        BY <1>1, <4>2
      <4> QED BY <4>2, <4>3
    <3> QED BY <3>2, <3>3
  <2>2. Exact(i) \in R
    BY <1>3, <2>1 DEF Exact, FirstRow
  <2> QED BY <1>1, <1>3, <2>2, LeagueAssumption
<1> QED BY <1>2, <1>3

(* A fuzzy answer is the league of an alias.                               *)
LEMMA FuzzyIsAlias ==
    ASSUME NEW i \in Inputs, NEW g \in Fuzzy(i), g # None
    PROVE  \E a \in Norms : g = alias[a]
BY DEF Fuzzy, Best, Similar

(* The tables' answers are leagues, or none.                               *)
QueriesTyped ==
    \A i \in Inputs :
        /\ Exact(i) \in Leagues \cup {None}
        /\ Fuzzy(i) \subseteq Leagues \cup {None}
        /\ Truth(i) \subseteq Leagues \cup {None}

LEMMA QueriesAreTyped ==
    alias \in [Norms -> Leagues \cup {None}] => QueriesTyped
<1> SUFFICES ASSUME alias \in [Norms -> Leagues \cup {None}], NEW i \in Inputs
             PROVE  /\ Exact(i) \in Leagues \cup {None}
                    /\ Fuzzy(i) \subseteq Leagues \cup {None}
                    /\ Truth(i) \subseteq Leagues \cup {None}
  BY DEF QueriesTyped
<1>1. Exact(i) \in Leagues \cup {None}
  BY ExactIsARow
<1>2. Fuzzy(i) \subseteq Leagues \cup {None}
  BY FuzzyIsAlias
<1>3. \A g \in Leagues \cup {None} : OrMiss(g) \in Leagues \cup {None}
  BY DEF OrMiss
<1> QED BY <1>1, <1>2, <1>3 DEF Truth

(* The key of a lookup is a key.                                           *)
LEMMA KeyIsNorm == TypeOK => \A l \in Lookups : Key(l) \in Norms
BY DEF TypeOK, Key, Norms

(* The steps, one disjunct for each action.                                *)
LEMMA StepCases ==
    ASSUME [Next]_vars
    PROVE  \/ \E l \in Lookups : LookupStep(l) \/ CallFails(l)
           \/ \E l \in Lookups, i \in Inputs : Ask(l, i)
           \/ \E g \in Leagues : SeedLeague(g)
           \/ \E n \in Norms : PosExpires(n) \/ NegExpires(n)
           \/ UNCHANGED vars
BY DEF Next

-----------------------------------------------------------------------------
LEMMA KnownInit == Init => KnownInv
<1> SUFFICES ASSUME Init PROVE KnownInv
  OBVIOUS
<1>1. alias \in [Norms -> Leagues \cup {None}]
  BY DEF Init
<1>2. QueriesTyped
  BY <1>1, QueriesAreTyped
<1>3. truths \in [Inputs -> SUBSET (Leagues \cup {None})]
  BY <1>2 DEF Init, QueriesTyped
<1> QED BY <1>1, <1>3, LeagueAssumption
DEF Init, KnownInv, TypeOK, Placed, AnswersKnownLeagues, Places

LEMMA KnownStep == KnownInv /\ [Next]_vars => KnownInv'
<1> SUFFICES ASSUME KnownInv, [Next]_vars PROVE KnownInv'
  OBVIOUS
<1>0. QueriesTyped
  BY QueriesAreTyped DEF KnownInv, TypeOK
<1> USE LeagueAssumption DEF KnownInv, TypeOK, Placed, AnswersKnownLeagues, Places
<1>1. ASSUME NEW l \in Lookups, LookupStep(l) \/ CallFails(l) PROVE KnownInv'
  <2>0. Key(l) \in Norms
    BY KeyIsNorm
  <2> USE DEF Goto
  <2>1. CASE GetPosHit(l) \/ GetPosStale(l) \/ GetPosMiss(l)
    BY <2>0, <2>1 DEF GetPosHit, GetPosStale, GetPosMiss
  <2>2. CASE DeletePos(l) \/ GetNeg(l)
    BY <2>0, <2>2 DEF DeletePos, GetNeg
  <2>3. CASE QueryExact(l)
    <3>1. Exact(input[l]) \in Leagues \cup {None}
      BY <1>0 DEF QueriesTyped
    <3>2. Exact(input[l]) = None => SlugMatch[input[l]] = None
      <4>1. Exact(input[l]) = None => ExactRows(input[l]) = {}
        BY ExactIsARow
      <4> QED BY <4>1 DEF ExactRows
    <3> QED BY <2>3, <3>1, <3>2 DEF QueryExact
  <2>4. CASE QueryFuzzy(l)
    <3>1. Fuzzy(input[l]) \subseteq Leagues \cup {None}
      BY <1>0 DEF QueriesTyped
    <3> QED BY <2>4, <3>1 DEF QueryFuzzy
  <2>5. CASE WritePos(l) \/ WriteMiss(l)
    BY <2>0, <2>5 DEF WritePos, WriteMiss
  <2>6. CASE CallFails(l)
    BY <2>6 DEF CallFails
  <2> QED BY <1>1, <2>1, <2>2, <2>3, <2>4, <2>5, <2>6 DEF LookupStep
<1>2. ASSUME NEW l \in Lookups, NEW i \in Inputs, Ask(l, i) PROVE KnownInv'
  BY <1>2 DEF Ask
<1>3. ASSUME NEW g \in Leagues, SeedLeague(g) PROVE KnownInv'
  <2>1. alias' \in [Norms -> Leagues \cup {None}]
    BY <1>3 DEF SeedLeague
  <2>2. (alias \in [Norms -> Leagues \cup {None}] => QueriesTyped)'
    BY QueriesAreTyped, PTL
  <2>3. \A i \in Inputs : Truth(i)' \subseteq Leagues \cup {None}
    BY <2>1, <2>2 DEF QueriesTyped
  <2>4. truths' = [i \in Inputs |-> truths[i] \cup Truth(i)']
    BY <1>3 DEF SeedLeague
  <2>5. truths' \in [Inputs -> SUBSET (Leagues \cup {None})]
    BY <2>3, <2>4
  <2> QED BY <1>3, <2>1, <2>5 DEF SeedLeague
<1>4. ASSUME NEW n \in Norms, PosExpires(n) \/ NegExpires(n) PROVE KnownInv'
  BY <1>4 DEF PosExpires, NegExpires
<1>5. CASE UNCHANGED vars
  BY <1>5 DEF vars
<1> QED BY <1>1, <1>2, <1>3, <1>4, <1>5, StepCases

(* Type correctness, and what a lookup holds at each place.                *)
THEOREM TypesHold == Spec => []KnownInv
BY KnownInit, KnownStep, PTL DEF Spec

(* A call answers only with a league of KNOWN_LEAGUES (T-18-SSRF), be it   *)
(* that the cache or the tables hold another: the check after the cache    *)
(* and the one after the queries leave no way around them.                 *)
THEOREM AnswersAreKnown == Spec => []AnswersKnownLeagues
<1>1. KnownInv => AnswersKnownLeagues
  BY DEF KnownInv
<1> QED BY <1>1, TypesHold, PTL

-----------------------------------------------------------------------------
(* No alias is as similar to an input as the input itself.  pg_trgm comes  *)
(* close to it, but not quite: "aaaa" and "aaaaa" have the same trigrams.  *)
SelfIsBest ==
    \A n \in Norms :
        /\ Score[<<n, n>>] > Threshold
        /\ \A m \in Norms \ {n} : Score[<<n, m>>] < Score[<<n, n>>]

(* The tables mean, or have meant, g by an input of the norm n.            *)
HasMeant(n, g) ==
    \E i \in Inputs : i \notin TooLong /\ Norm[i] = n /\ g \in truths[i]

(* truths remembers the tables' every answer; what a cache holds, and what *)
(* a lookup is about to put there, is remembered for an input of that norm.*)
TruthsRemember == \A i \in Inputs : Truth(i) \subseteq truths[i]
PosWasTrue == \A n \in Norms : pos[n] \in Known => HasMeant(n, pos[n])
NegWasTrue == \A n \in Norms : neg[n] => HasMeant(n, None)
WritesAreTrue ==
    \A l \in Lookups : at[l] = "write" => OrMiss(found[l]) \in truths[input[l]]
TruthInv ==
    TruthsRemember /\ PosWasTrue /\ NegWasTrue /\ WritesAreTrue /\ AnswerWasTrue

-----------------------------------------------------------------------------
(* What the tables answer depends on the aliases alone.                    *)
LEMMA TruthFollowsAliases ==
    alias' = alias => \A i \in Inputs : Truth(i)' = Truth(i)
BY DEF Truth, Exact, ExactRows, FirstRow, Fuzzy, Best, Similar

(* An alias inserted between the exact and the fuzzy query is what the     *)
(* fuzzy query finds.                                                      *)
LEMMA FuzzyFindsAlias ==
    ASSUME SelfIsBest, NEW i \in Inputs, alias[Norm[i]] # None
    PROVE  Fuzzy(i) = {alias[Norm[i]]}
<1> DEFINE n == Norm[i]
<1>1. n \in Norms
  BY DEF Norms
<1>2. \A m \in Norms : Score[<<n, m>>] \in Nat
  BY <1>1, LeagueAssumption
<1>3. n \in Similar(n)
  BY <1>1 DEF Similar, SelfIsBest
<1>4. ASSUME NEW m \in Norms, m # n, m \in Best(n) PROVE FALSE
  <2>1. Score[<<n, n>>] <= Score[<<n, m>>]
    BY <1>3, <1>4 DEF Best
  <2>2. Score[<<n, m>>] < Score[<<n, n>>]
    BY <1>1, <1>4 DEF SelfIsBest
  <2>3. Score[<<n, m>>] \in Nat /\ Score[<<n, n>>] \in Nat
    BY <1>1, <1>2
  <2> QED BY <2>1, <2>2, <2>3
<1>5. ASSUME NEW m \in Norms PROVE Score[<<n, m>>] <= Score[<<n, n>>]
  <2>1. Score[<<n, m>>] \in Nat /\ Score[<<n, n>>] \in Nat
    BY <1>1, <1>2
  <2>2. CASE m = n
    BY <2>1, <2>2
  <2>3. CASE m # n
    BY <1>1, <2>1, <2>3 DEF SelfIsBest
  <2> QED BY <2>2, <2>3
<1>6. Best(n) \subseteq Norms /\ Similar(n) \subseteq Norms
  BY DEF Best, Similar
<1>7. Best(n) = {n}
  <2>1. n \in Best(n)
    BY <1>3, <1>5, <1>6 DEF Best
  <2> QED BY <1>4, <1>6, <2>1
<1> QED BY <1>7 DEF Fuzzy

(* So the fuzzy query, which runs for an input that spells no slug, gives  *)
(* an answer of the tables even if they changed since the exact query.     *)
LEMMA FuzzyIsTrue ==
    ASSUME SelfIsBest, TypeOK, NEW i \in Inputs, i \notin TooLong,
           SlugMatch[i] = None, NEW g \in Fuzzy(i)
    PROVE  OrMiss(g) \in Truth(i)
<1>1. CASE Exact(i) = None
  BY <1>1 DEF Truth
<1>2. CASE Exact(i) # None
  <2>1. Exact(i) = alias[Norm[i]] /\ alias[Norm[i]] # None
    BY <1>2, ExactIsARow DEF TypeOK
  <2>2. Fuzzy(i) = {Exact(i)}
    BY <2>1, FuzzyFindsAlias
  <2> QED BY <1>2, <2>2 DEF Truth
<1> QED BY <1>1, <1>2

-----------------------------------------------------------------------------
LEMMA TruthStep == SelfIsBest /\ KnownInv /\ TruthInv /\ [Next]_vars => TruthInv'
<1> SUFFICES ASSUME SelfIsBest, KnownInv, TruthInv, [Next]_vars PROVE TruthInv'
  OBVIOUS
<1>0. TypeOK /\ Placed
  BY DEF KnownInv
<1> USE DEF TruthInv, PosWasTrue, NegWasTrue, WritesAreTrue, AnswerWasTrue, HasMeant
<1>1. ASSUME UNCHANGED <<alias, truths>> PROVE TruthsRemember'
  BY <1>1, TruthFollowsAliases DEF TruthsRemember
<1>2. ASSUME NEW l \in Lookups, LookupStep(l) \/ CallFails(l) PROVE TruthInv'
  <2>0. Key(l) = Norm[input[l]] /\ Key(l) \in Norms /\ input[l] \in Inputs
    BY <1>0, KeyIsNorm DEF Key, TypeOK
  <2>1. at \in [Lookups -> Places] /\ found \in [Lookups -> Leagues \cup {None}]
    BY <1>0 DEF TypeOK
  <2> USE DEF Goto, Key
  <2>2. CASE GetPosHit(l) \/ GetPosStale(l) \/ GetPosMiss(l)
    BY <1>1, <2>0, <2>1, <2>2 DEF GetPosHit, GetPosStale, GetPosMiss
  <2>3. CASE DeletePos(l)
    <3>1. pos' = [pos EXCEPT ![Norm[input[l]]] = None] /\ None \notin Known
      BY <2>3, LeagueAssumption DEF DeletePos
    <3> QED BY <1>0, <1>1, <2>0, <2>1, <2>3, <3>1 DEF DeletePos, TypeOK
  <2>4. CASE GetNeg(l)
    BY <1>0, <1>1, <2>0, <2>1, <2>4 DEF GetNeg, Placed
  <2>5. CASE QueryExact(l)
    <3>1. Exact(input[l]) # None => OrMiss(Exact(input[l])) \in truths[input[l]]
      BY <1>0, <2>0, <2>5 DEF QueryExact, Placed, Truth, TruthsRemember
    <3> QED BY <1>1, <2>0, <2>1, <2>5, <3>1 DEF QueryExact, OrMiss
  <2>6. CASE QueryFuzzy(l)
    <3>1. input[l] \notin TooLong /\ SlugMatch[input[l]] = None
      BY <1>0, <2>6 DEF QueryFuzzy, Placed
    <3>2. \A g \in Fuzzy(input[l]) : OrMiss(g) \in truths[input[l]]
      BY <1>0, <2>0, <3>1, FuzzyIsTrue DEF TruthsRemember
    <3> QED BY <1>1, <2>0, <2>1, <2>6, <3>2 DEF QueryFuzzy, OrMiss
  <2>7. CASE WritePos(l)
    <3>1. /\ input[l] \notin TooLong /\ found[l] \in Known
          /\ found[l] \in truths[input[l]]
      BY <1>0, <2>7 DEF WritePos, Placed, OrMiss
    <3> QED BY <1>0, <1>1, <2>0, <2>1, <2>7, <3>1 DEF WritePos, TypeOK
  <2>8. CASE WriteMiss(l)
    <3>1. input[l] \notin TooLong /\ None \in truths[input[l]]
      BY <1>0, <2>8 DEF WriteMiss, Placed, OrMiss
    <3> QED BY <1>0, <1>1, <2>0, <2>1, <2>8, <3>1 DEF WriteMiss, TypeOK
  <2>9. CASE CallFails(l)
    BY <1>1, <2>0, <2>1, <2>9 DEF CallFails
  <2> QED BY <1>2, <2>2, <2>3, <2>4, <2>5, <2>6, <2>7, <2>8, <2>9 DEF LookupStep
<1>3. ASSUME NEW l \in Lookups, NEW i \in Inputs, Ask(l, i) PROVE TruthInv'
  <2>1. i \in TooLong => None \in truths[i]
    BY DEF TruthsRemember, Truth
  <2> QED BY <1>0, <1>1, <1>3, <2>1 DEF Ask, Key, TypeOK
<1>4. ASSUME NEW g \in Leagues, SeedLeague(g) PROVE TruthInv'
  <2>1. /\ truths' = [i \in Inputs |-> truths[i] \cup Truth(i)']
        /\ UNCHANGED <<pos, neg, at, input, found>>
    BY <1>4 DEF SeedLeague
  <2>2. TruthsRemember'
    BY <2>1 DEF TruthsRemember
  <2>3. \A i \in Inputs : truths[i] \subseteq truths'[i]
    BY <2>1
  <2>4. \A l \in Lookups : input[l] \in Inputs
    BY <1>0 DEF TypeOK
  <2>5. PosWasTrue' /\ NegWasTrue' /\ WritesAreTrue'
    BY <2>1, <2>3, <2>4 DEF OrMiss
  <2>6. AnswerWasTrue'
    BY <2>1, <2>3, <2>4 DEF Key
  <2> QED BY <2>2, <2>5, <2>6
<1>5. ASSUME NEW n \in Norms, PosExpires(n) \/ NegExpires(n) PROVE TruthInv'
  <2>1. /\ UNCHANGED <<alias, truths, at, input, found>>
        /\ pos' = pos \/ pos' = [pos EXCEPT ![n] = None]
        /\ neg' = neg \/ neg' = [neg EXCEPT ![n] = FALSE]
    BY <1>5 DEF PosExpires, NegExpires
  <2>2. PosWasTrue' /\ NegWasTrue'
    <3>1. \A m \in Norms : pos'[m] \in {None, pos[m]} /\ (neg'[m] => neg[m])
      BY <1>0, <2>1 DEF TypeOK
    <3>2. None \notin Known
      BY LeagueAssumption
    <3> QED BY <2>1, <3>1, <3>2
  <2>3. WritesAreTrue' /\ AnswerWasTrue'
    BY <2>1 DEF OrMiss, Key
  <2> QED BY <1>1, <2>1, <2>2, <2>3
<1>6. CASE UNCHANGED vars
  BY <1>1, <1>6 DEF vars, Key, OrMiss
<1> QED BY <1>2, <1>3, <1>4, <1>5, <1>6, StepCases

(* Caching invents nothing: an answer, hit or miss, is one the tables have *)
(* had for an input of that normal form.                                   *)
THEOREM AnswersWereTrue == SelfIsBest => (Spec => []AnswerWasTrue)
<1> SUFFICES ASSUME SelfIsBest PROVE Spec => []AnswerWasTrue
  OBVIOUS
<1>1. Init => TruthInv
  BY LeagueAssumption
  DEF Init, TruthInv, TruthsRemember, PosWasTrue, NegWasTrue, WritesAreTrue, AnswerWasTrue
<1>2. TruthInv => AnswerWasTrue
  BY DEF TruthInv
<1>3. KnownInv /\ TruthInv /\ [Next]_vars => TruthInv'
  BY TruthStep
<1> QED BY <1>1, <1>2, <1>3, TypesHold, PTL DEF Spec
=============================================================================
