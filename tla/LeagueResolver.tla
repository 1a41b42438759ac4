--------------------------- MODULE LeagueResolver ---------------------------
(***************************************************************************)
(* resolve_league (resolver.py): free text to a canonical league, through  *)
(* two Redis caches, an exact query and a trigram query, while seed runs   *)
(* insert league aliases and cached entries run into their TTL.            *)
(*                                                                         *)
(* An input is what two functions of the raw text make of it: its norm     *)
(* (normalize_input: letters and digits only) names the Redis keys and     *)
(* meets the aliases; its slug match (strip and casefold, hyphens kept)    *)
(* meets leagues.slug.  Two inputs may share a norm and differ in the      *)
(* slug they match: "milb-a" and "milba".                                  *)
(*                                                                         *)
(* Definitions marked "Mutant" are plausible mistakes that the properties  *)
(* are shown to catch; no specification uses them.                         *)
(***************************************************************************)
EXTENDS Integers, FiniteSets

CONSTANTS
    Lookups,     \* concurrent calls, one slot each, used again and again
    Inputs,      \* raw inputs a caller may send
    Norm,        \* normalize_input of an input
    SlugMatch,   \* the league whose slug the input spells, or None
    TooLong,     \* inputs longer than _MAX_INPUT_LEN
    Leagues,     \* leagues.id
    Known,       \* the leagues of KNOWN_LEAGUES
    SeedAliases, \* [Leagues -> sets of norms]: _LEAGUE_ALIASES, normalised
    Score,       \* [Norms \X Norms -> Nat]: similarity of a norm to an alias
    Threshold,   \* resolve_similarity_threshold
    None         \* no row, no entry, the answer "not found"

Norms == {Norm[i] : i \in Inputs} \cup UNION {SeedAliases[g] : g \in Leagues}

ASSUME LeagueAssumption ==
    /\ Leagues \subseteq Nat /\ Known \subseteq Leagues
    /\ None \notin Leagues
    /\ Inputs # {} /\ TooLong \subseteq Inputs
    /\ SlugMatch \in [Inputs -> Leagues \cup {None}]
    /\ Score \in [Norms \X Norms -> Nat]

VARIABLES
    alias,    \* league_aliases: alias -> league, UNIQUE(alias)
    pos,      \* leagueresolve:<norm>
    neg,      \* leagueresolve_miss:<norm>
    at,       \* where each lookup stands
    input,    \* the input of its current or last call
    found,    \* the row its queries found, then its answer
    truths    \* per input, every answer the tables have had for it

vars == <<alias, pos, neg, at, input, found, truths>>

-----------------------------------------------------------------------------
(* The tables' answer to an input.                                         *)

(* _query_league_exact: alias or slug, smallest id first.                  *)
ExactRows(i) == {g \in Leagues : g = alias[Norm[i]] \/ g = SlugMatch[i]}
FirstRow(rows) ==
    IF rows = {} THEN None ELSE CHOOSE g \in rows : \A h \in rows : g <= h
Exact(i) == FirstRow(ExactRows(i))

(* _query_league_trigram: a best alias above the threshold.  Ties fall as  *)
(* they will.                                                              *)
Similar(n) == {a \in Norms : alias[a] # None /\ Score[<<n, a>>] > Threshold}
Best(n) == {a \in Similar(n) : \A b \in Similar(n) : Score[<<n, b>>] <= Score[<<n, a>>]}
Fuzzy(i) == IF Best(Norm[i]) = {} THEN {None} ELSE {alias[a] : a \in Best(Norm[i])}

OrMiss(g) == IF g \in Known THEN g ELSE None
Truth(i) ==
    IF i \in TooLong THEN {None}
    ELSE {OrMiss(g) : g \in IF Exact(i) # None THEN {Exact(i)} ELSE Fuzzy(i)}

(* Redis outlives deployments: it may still hold leagues of an older       *)
(* KNOWN_LEAGUES.                                                          *)
Init ==
    /\ alias = [n \in Norms |-> None]
    /\ pos \in [Norms -> {None} \cup (Leagues \ Known)]
    /\ neg = [n \in Norms |-> FALSE]
    /\ at = [l \in Lookups |-> "idle"]
    /\ input \in [Lookups -> {CHOOSE i \in Inputs : TRUE}]
    /\ found = [l \in Lookups |-> None]
    /\ truths = [i \in Inputs |-> Truth(i)]

-----------------------------------------------------------------------------
Goto(l, from, to) == at[l] = from /\ at' = [at EXCEPT ![l] = to]
Key(l) == Norm[input[l]]

(* A new call.  An overlong input is a miss that touches nothing.          *)
Ask(l, i) ==
    /\ at[l] \in {"idle", "answered"}
    /\ at' = [at EXCEPT ![l] = IF i \in TooLong THEN "answered" ELSE "getpos"]
    /\ input' = [input EXCEPT ![l] = i]
    /\ found' = [found EXCEPT ![l] = None]
    /\ UNCHANGED <<alias, pos, neg, truths>>

(* Mutant: the check for a league of an older release is dropped.          *)
GetPosHitUnchecked(l) ==
    /\ pos[Key(l)] # None
    /\ Goto(l, "getpos", "answered")
    /\ found' = [found EXCEPT ![l] = pos[Key(l)]]
    /\ UNCHANGED <<alias, pos, neg, input, truths>>

GetPosHit(l) ==
    /\ pos[Key(l)] \in Known
    /\ Goto(l, "getpos", "answered")
    /\ found' = [found EXCEPT ![l] = pos[Key(l)]]
    /\ UNCHANGED <<alias, pos, neg, input, truths>>

GetPosStale(l) ==
    /\ pos[Key(l)] \in Leagues \ Known
    /\ Goto(l, "getpos", "delpos")
    /\ UNCHANGED <<alias, pos, neg, input, found, truths>>

GetPosMiss(l) ==
    /\ pos[Key(l)] = None
    /\ Goto(l, "getpos", "getneg")
    /\ UNCHANGED <<alias, pos, neg, input, found, truths>>

DeletePos(l) ==
    /\ Goto(l, "delpos", "getneg")
    /\ pos' = [pos EXCEPT ![Key(l)] = None]
    /\ UNCHANGED <<alias, neg, input, found, truths>>

GetNeg(l) ==
    /\ Goto(l, "getneg", IF neg[Key(l)] THEN "answered" ELSE "exact")
    /\ UNCHANGED <<alias, pos, neg, input, found, truths>>

QueryExact(l) ==
    /\ Goto(l, "exact", IF Exact(input[l]) = None THEN "fuzzy" ELSE "write")
    /\ found' = [found EXCEPT ![l] = Exact(input[l])]
    /\ UNCHANGED <<alias, pos, neg, input, truths>>

(* Mutant: neither a threshold nor an order.                               *)
QueryFuzzyAnyRow(l) ==
    /\ Goto(l, "fuzzy", "write")
    /\ \E n \in Norms : found' = [found EXCEPT ![l] = alias[n]]
    /\ UNCHANGED <<alias, pos, neg, input, truths>>

QueryFuzzy(l) ==
    /\ Goto(l, "fuzzy", "write")
    /\ \E g \in Fuzzy(input[l]) : found' = [found EXCEPT ![l] = g]
    /\ UNCHANGED <<alias, pos, neg, input, truths>>

WritePos(l) ==
    /\ found[l] \in Known
    /\ Goto(l, "write", "answered")
    /\ pos' = [pos EXCEPT ![Key(l)] = found[l]]
    /\ UNCHANGED <<alias, neg, input, found, truths>>

(* No row, or a row of a league outside KNOWN_LEAGUES.                     *)
WriteMiss(l) ==
    /\ found[l] \notin Known
    /\ Goto(l, "write", "answered")
    /\ neg' = [neg EXCEPT ![Key(l)] = TRUE]
    /\ found' = [found EXCEPT ![l] = None]
    /\ UNCHANGED <<alias, pos, input, truths>>

(* A Redis command or a query raises: the call is over, without an answer. *)
CallFails(l) ==
    /\ at[l] \notin {"idle", "answered"}
    /\ at' = [at EXCEPT ![l] = "idle"]
    /\ found' = [found EXCEPT ![l] = None]
    /\ UNCHANGED <<alias, pos, neg, input, truths>>

LookupStep(l) ==
    \/ GetPosHit(l) \/ GetPosStale(l) \/ GetPosMiss(l) \/ DeletePos(l)
    \/ GetNeg(l) \/ QueryExact(l) \/ QueryFuzzy(l)
    \/ WritePos(l) \/ WriteMiss(l)

-----------------------------------------------------------------------------
(* A seed run inserts one league's aliases in one transaction,             *)
(* ON CONFLICT (alias) DO NOTHING (seed.py).                               *)
SeedLeague(g) ==
    /\ \E n \in SeedAliases[g] : alias[n] = None
    /\ alias' = [n \in Norms |->
                   IF n \in SeedAliases[g] /\ alias[n] = None THEN g ELSE alias[n]]
    /\ truths' = [i \in Inputs |-> truths[i] \cup Truth(i)']
    /\ UNCHANGED <<pos, neg, at, input, found>>

(* resolve_positive_ttl and resolve_negative_ttl.                          *)
PosExpires(n) ==
    /\ pos[n] # None
    /\ pos' = [pos EXCEPT ![n] = None]
    /\ UNCHANGED <<alias, neg, at, input, found, truths>>

(* Mutant: a miss is cached without a TTL.                                 *)
NegNeverExpires(n) == FALSE /\ neg[n] /\ UNCHANGED vars

NegExpires(n) ==
    /\ neg[n]
    /\ neg' = [neg EXCEPT ![n] = FALSE]
    /\ UNCHANGED <<alias, pos, at, input, found, truths>>

Next ==
    \/ \E l \in Lookups : LookupStep(l) \/ CallFails(l) \/ \E i \in Inputs : Ask(l, i)
    \/ \E g \in Leagues : SeedLeague(g)
    \/ \E n \in Norms : PosExpires(n) \/ NegExpires(n)

(* A call goes on to its end, and Redis ends every TTL.  Nobody has to ask *)
(* and nobody has to seed.                                                 *)
Fairness ==
    /\ \A l \in Lookups : WF_vars(LookupStep(l))
    /\ \A n \in Norms : WF_vars(PosExpires(n)) /\ WF_vars(NegExpires(n))

Spec == Init /\ [][Next]_vars
FairSpec == Spec /\ Fairness

-----------------------------------------------------------------------------
Places == {"idle", "getpos", "delpos", "getneg", "exact", "fuzzy", "write", "answered"}

(* Every variable stays in its type.                                       *)
TypeOK ==
    /\ alias \in [Norms -> Leagues \cup {None}]
    /\ pos \in [Norms -> Leagues \cup {None}]
    /\ neg \in [Norms -> BOOLEAN]
    /\ at \in [Lookups -> Places]
    /\ input \in [Lookups -> Inputs]
    /\ found \in [Lookups -> Leagues \cup {None}]
    /\ truths \in [Inputs -> SUBSET (Leagues \cup {None})]

(* Whatever an older release or the tables hold, a call answers only with  *)
(* a league of KNOWN_LEAGUES (T-18-SSRF), and misses are never leagues.    *)
AnswersKnownLeagues ==
    \A l \in Lookups : at[l] = "answered" => found[l] \in Known \cup {None}

(* Caching invents nothing: an answer is one the tables have had for an    *)
(* input of that normal form.  It may be an old one: a TTL has not ended,  *)
(* or a seed run passed the lookup on its way.                             *)
AnswerWasTrue ==
    \A l \in Lookups : at[l] = "answered" =>
        \E i \in Inputs :
            (i = input[l] \/ i \notin TooLong) /\ Norm[i] = Key(l) /\ found[l] \in truths[i]

(* Once the tables are left alone both caches catch up with them, although *)
(* a slow lookup may write what it read before the seed run.               *)
CachesCatchUp ==
    <>[](\A n \in Norms :
           LET now == UNION {Truth(i) : i \in {j \in Inputs \ TooLong : Norm[j] = n}}
           IN  /\ pos[n] # None => pos[n] \in now
               /\ neg[n] => None \in now)

(* "The direct-slug branch MUST use the hyphen-preserving casefolded form, *)
(* otherwise every hyphenated league slug silently fails the direct match  *)
(* and 404s": a call that spells a known league's slug finds that league.  *)
CanonicalSlugResolves ==
    \A l \in Lookups :
        /\ at[l] = "answered"
        /\ SlugMatch[input[l]] \in Known
        /\ input[l] \notin TooLong
        => found[l] = SlugMatch[input[l]]
=============================================================================
