---------------------------- MODULE TeamResolver ----------------------------
(***************************************************************************)
(* resolve (resolver.py): free text to a team row, inside one league.      *)
(* Unlike the league resolver, its positive cache keeps only the team id:  *)
(* a hit fetches the row again, so that colours and logos are current.     *)
(* Around it, seed runs upsert teams and insert aliases, somebody may      *)
(* delete a team by hand, and cached entries run into their TTL.           *)
(*                                                                         *)
(* A row is its version: the number of times the seed has upserted it.     *)
(* Definitions marked "Mutant" are plausible mistakes that the properties  *)
(* are shown to catch; no specification uses them.                         *)
(***************************************************************************)
EXTENDS Integers, Sequences

CONSTANTS
    Lookups,    \* concurrent calls, one slot each, used again and again
    Leagues,    \* league slugs a caller may name
    Known,      \* the leagues of KNOWN_LEAGUES
    Norms,      \* normalised inputs
    Calls,      \* <<league, input>> callers ask for (a bound)
    Overlong,   \* stands for every input longer than _MAX_INPUT_LEN
    Teams,      \* teams.id
    LeagueOf,   \* teams.league_id
    AliasesAt,  \* [Teams -> Seq(SUBSET Norms)]: what each upsert inserts (a bound)
    Deletable,  \* teams somebody may delete by hand
    Score,      \* [Norms \X Norms -> Nat]: similarity of a norm to an alias
    Threshold,  \* resolve_similarity_threshold
    None

ASSUME TeamAssumption ==
    /\ LeagueOf \in [Teams -> Leagues]
    /\ Overlong \notin Norms
    /\ Calls # {} /\ Calls \subseteq Leagues \X (Norms \cup {Overlong})
    /\ None \notin Teams
    /\ AliasesAt \in [Teams -> Seq(SUBSET Norms)]
    /\ Score \in [Norms \X Norms -> Nat]

VARIABLES
    rows,     \* teams: version of each row; 0 not yet seeded, -1 deleted
    alias,    \* team_aliases: UNIQUE(league_id, alias)
    pos,      \* resolve:<league>:<norm>: a team id
    neg,      \* resolve_miss:<league>:<norm>
    at,       \* where each lookup stands
    call,     \* league and input of its current or last call
    found,    \* id and version of the row it holds, then its answer
    began,    \* the rows as they were when the call began
    truths    \* per league and norm, every team the tables have meant by it

redisVars == <<pos, neg>>
tableVars == <<rows, alias, truths>>
vars == <<tableVars, redisVars, at, call, found, began>>

Keys == Leagues \X Norms
NoRow == [team |-> None, version |-> 0]
Row(t) == [team |-> t, version |-> rows[t]]
Exists(t) == rows[t] > 0

-----------------------------------------------------------------------------
(* _query_exact and _query_trigram, both inside the league.                *)
Exact(key) == alias[key]
Similar(key) ==
    {n \in Norms : alias[<<key[1], n>>] # None /\ Score[<<key[2], n>>] > Threshold}
Best(key) ==
    {n \in Similar(key) : \A m \in Similar(key) : Score[<<key[2], m>>] <= Score[<<key[2], n>>]}
Fuzzy(key) ==
    IF Best(key) = {} THEN {None} ELSE {alias[<<key[1], n>>] : n \in Best(key)}

Truth(key) == IF Exact(key) # None THEN {Exact(key)} ELSE Fuzzy(key)

Init ==
    /\ rows = [t \in Teams |-> 0]
    /\ alias = [key \in Keys |-> None]
    /\ pos = [key \in Keys |-> None]
    /\ neg = [key \in Keys |-> FALSE]
    /\ at = [l \in Lookups |-> "idle"]
    /\ call \in [Lookups -> {CHOOSE c \in Calls : TRUE}]
    /\ found = [l \in Lookups |-> NoRow]
    /\ began = [l \in Lookups |-> rows]
    /\ truths = [key \in Keys |-> {None}]

-----------------------------------------------------------------------------
Goto(l, from, to) == at[l] = from /\ at' = [at EXCEPT ![l] = to]
(* Mutant: the league is missing from the key.                             *)
RedisKeyWithoutLeague(league, norm) == <<CHOOSE k \in Known : TRUE, norm>>

(* Mutant: the input is missing from the key.                              *)
RedisKeyWithoutInput(league, norm) == <<league, CHOOSE n \in Norms : TRUE>>

RedisKey(league, norm) == <<league, norm>>
Key(l) == RedisKey(call[l][1], call[l][2])

(* An unknown league or an overlong input is a miss that touches nothing.  *)
Ask(l, league, norm) ==
    /\ at[l] \in {"idle", "answered"}
    /\ at' = [at EXCEPT ![l] =
                IF league \in Known /\ norm # Overlong THEN "getpos" ELSE "answered"]
    /\ call' = [call EXCEPT ![l] = <<league, norm>>]
    /\ found' = [found EXCEPT ![l] = NoRow]
    /\ began' = [began EXCEPT ![l] = rows]
    /\ UNCHANGED <<tableVars, redisVars>>

(* Mutant: the cache keeps the row as first seeded, not its id.            *)
GetPosHitServesRow(l) ==
    /\ Goto(l, "getpos", "answered")
    /\ pos[Key(l)] # None
    /\ found' = [found EXCEPT ![l] = [team |-> pos[Key(l)], version |-> 1]]
    /\ UNCHANGED <<tableVars, redisVars, call, began>>

GetPosHit(l) ==
    /\ Goto(l, "getpos", "fetch")
    /\ pos[Key(l)] # None
    /\ found' = [found EXCEPT ![l].team = pos[Key(l)]]
    /\ UNCHANGED <<tableVars, redisVars, call, began>>

GetPosMiss(l) ==
    /\ Goto(l, "getpos", "getneg")
    /\ pos[Key(l)] = None
    /\ UNCHANGED <<tableVars, redisVars, call, found, began>>

(* Mutant: WHERE id = :id is missing.                                      *)
FetchByIdAnyTeam(l) ==
    /\ Goto(l, "fetch", "answered")
    /\ \E t \in Teams : Exists(t) /\ found' = [found EXCEPT ![l] = Row(t)]
    /\ UNCHANGED <<tableVars, redisVars, call, began>>

(* _fetch_team_by_id.                                                      *)
FetchById(l) ==
    LET id == found[l].team
        gone == ~Exists(id)
    IN  /\ Goto(l, "fetch", IF gone THEN "delpos" ELSE "answered")
        /\ found' = [found EXCEPT ![l] = IF gone THEN NoRow ELSE Row(id)]
        /\ UNCHANGED <<tableVars, redisVars, call, began>>

DeletePos(l) ==
    /\ Goto(l, "delpos", "getneg")
    /\ pos' = [pos EXCEPT ![Key(l)] = None]
    /\ UNCHANGED <<tableVars, neg, call, found, began>>

GetNeg(l) ==
    /\ Goto(l, "getneg", IF neg[Key(l)] THEN "answered" ELSE "exact")
    /\ UNCHANGED <<tableVars, redisVars, call, found, began>>

QueryExact(l) ==
    LET t == Exact(call[l])
    IN  /\ Goto(l, "exact", IF t = None THEN "fuzzy" ELSE "writepos")
        /\ found' = [found EXCEPT ![l] = IF t = None THEN NoRow ELSE Row(t)]
        /\ UNCHANGED <<tableVars, redisVars, call, began>>

QueryFuzzy(l) ==
    /\ at[l] = "fuzzy"
    /\ \E t \in Fuzzy(call[l]) :
        /\ Goto(l, "fuzzy", IF t = None THEN "writeneg" ELSE "writepos")
        /\ found' = [found EXCEPT ![l] = IF t = None THEN NoRow ELSE Row(t)]
        /\ UNCHANGED <<tableVars, redisVars, call, began>>

WritePos(l) ==
    /\ Goto(l, "writepos", "answered")
    /\ pos' = [pos EXCEPT ![Key(l)] = found[l].team]
    /\ UNCHANGED <<tableVars, neg, call, found, began>>

WriteNeg(l) ==
    /\ Goto(l, "writeneg", "answered")
    /\ neg' = [neg EXCEPT ![Key(l)] = TRUE]
    /\ UNCHANGED <<tableVars, pos, call, found, began>>

(* A Redis command or a query raises: the call is over, without an answer. *)
CallFails(l) ==
    /\ at[l] \notin {"idle", "answered"}
    /\ at' = [at EXCEPT ![l] = "idle"]
    /\ found' = [found EXCEPT ![l] = NoRow]
    /\ UNCHANGED <<tableVars, redisVars, call, began>>

LookupStep(l) ==
    \/ GetPosHit(l) \/ GetPosMiss(l) \/ FetchById(l) \/ DeletePos(l) \/ GetNeg(l)
    \/ QueryExact(l) \/ QueryFuzzy(l) \/ WritePos(l) \/ WriteNeg(l)

-----------------------------------------------------------------------------
(* One team of a seed run, in one transaction (seed.py): upsert the row,   *)
(* insert its aliases ON CONFLICT (league_id, alias) DO NOTHING.           *)
SeedTeam(t) ==
    LET mine == {<<LeagueOf[t], n>> : n \in AliasesAt[t][rows[t] + 1]}
    IN  /\ rows[t] >= 0 /\ rows[t] + 1 \in DOMAIN AliasesAt[t]
        /\ rows' = [rows EXCEPT ![t] = @ + 1]
        /\ alias' = [key \in Keys |->
                        IF key \in mine /\ alias[key] = None THEN t ELSE alias[key]]
        /\ truths' = [key \in Keys |-> truths[key] \cup Truth(key)']
        /\ UNCHANGED <<redisVars, at, call, found, began>>

(* No code in the repository deletes a team; resolve expects that somebody *)
(* may.  The aliases reference the row, so they go with it; its id is not  *)
(* used again.                                                             *)
DeleteTeam(t) ==
    /\ t \in Deletable
    /\ Exists(t)
    /\ rows' = [rows EXCEPT ![t] = -1]
    /\ alias' = [key \in Keys |-> IF alias[key] = t THEN None ELSE alias[key]]
    /\ truths' = [key \in Keys |-> truths[key] \cup Truth(key)']
    /\ UNCHANGED <<redisVars, at, call, found, began>>

(* resolve_positive_ttl and resolve_negative_ttl.                          *)
PosExpires(key) ==
    /\ pos[key] # None
    /\ pos' = [pos EXCEPT ![key] = None]
    /\ UNCHANGED <<tableVars, neg, at, call, found, began>>

(* Mutant: a miss is cached without a TTL.                                 *)
NegNeverExpires(key) == FALSE /\ neg[key] /\ UNCHANGED vars

NegExpires(key) ==
    /\ neg[key]
    /\ neg' = [neg EXCEPT ![key] = FALSE]
    /\ UNCHANGED <<tableVars, pos, at, call, found, began>>

Next ==
    \/ \E l \in Lookups :
          \/ LookupStep(l) \/ CallFails(l)
          \/ \E c \in Calls : Ask(l, c[1], c[2])
    \/ \E t \in Teams : SeedTeam(t) \/ DeleteTeam(t)
    \/ \E key \in Keys : PosExpires(key) \/ NegExpires(key)

(* As in LeagueResolver.                                                   *)
Fairness ==
    /\ \A l \in Lookups : WF_vars(LookupStep(l))
    /\ \A key \in Keys : WF_vars(PosExpires(key)) /\ WF_vars(NegExpires(key))

Spec == Init /\ [][Next]_vars
FairSpec == Spec /\ Fairness

-----------------------------------------------------------------------------
Places == {"idle", "getpos", "fetch", "delpos", "getneg", "exact", "fuzzy",
           "writepos", "writeneg", "answered"}

(* Every variable stays in its type.                                       *)
TypeOK ==
    /\ rows \in [Teams -> {-1} \cup Nat]
    /\ alias \in [Keys -> Teams \cup {None}]
    /\ pos \in [Keys -> Teams \cup {None}]
    /\ neg \in [Keys -> BOOLEAN]
    /\ at \in [Lookups -> Places]
    /\ call \in [Lookups -> Calls]
    /\ found \in [Lookups -> [team : Teams \cup {None}, version : Nat]]
    /\ began \in [Lookups -> [Teams -> {-1} \cup Nat]]
    /\ truths \in [Keys -> SUBSET (Teams \cup {None})]

Answer(l) == found[l].team
Answered(l) == at[l] = "answered" /\ Answer(l) # None

(* "Cross-league isolation": an answer is a team of the league that was    *)
(* named, from the tables and from the caches alike.                       *)
LeagueIsolation ==
    \A l \in Lookups : Answered(l) => LeagueOf[Answer(l)] = call[l][1]

(* The id is cached for days but the row is not: an answer is never older  *)
(* than the row was when the call began, and never a row that was already  *)
(* deleted then.                                                           *)
AnswerIsCurrent ==
    \A l \in Lookups : Answered(l) =>
        /\ began[l][Answer(l)] >= 0
        /\ found[l].version >= began[l][Answer(l)]
        /\ found[l].version > 0

(* Caching invents nothing: the tables have meant that team, or nothing,   *)
(* by that very input in that league, now or before.                       *)
AnswerWasTrue ==
    \A l \in Lookups :
        at[l] = "answered" /\ call[l] \in Known \X Norms => Answer(l) \in truths[call[l]]

(* A fuzzy match, or a miss, cached before a seed run gives way to the     *)
(* alias the seed run inserted, and a deleted team to whatever is left.    *)
CachesCatchUp ==
    <>[](\A key \in Keys :
           /\ pos[key] # None => pos[key] \in Truth(key)
           /\ neg[key] => None \in Truth(key))
=============================================================================
