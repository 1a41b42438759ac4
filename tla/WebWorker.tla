----------------------------- MODULE WebWorker -----------------------------
(***************************************************************************)
(* One gunicorn worker: the image route (_handle_image), the listing       *)
(* routes and the readiness probe as coroutines over one psycopg pool and  *)
(* one Redis client, with the Prometheus counters and the log context they *)
(* leave behind.                                                           *)
(*                                                                         *)
(* An action ends where the code awaits Redis, a pooled connection, a      *)
(* query or a thread.  What the resolvers and the render pipeline answer   *)
(* is their own modules' subject; here any answer is possible, and what    *)
(* counts is what each one costs and leads to.  The pool gives a           *)
(* connection back or times out; neither the queries nor the Redis         *)
(* commands have a timeout (psycopg and redis-py defaults), so a hung      *)
(* server holds whoever asks it.                                           *)
(***************************************************************************)
EXTENDS Integers, FiniteSets

CONSTANTS
    Images,      \* GET /{sport}/{league}/{away}/{home}/{kind}
    Listings,    \* GET /sports, /leagues, /{league}/teams
    Probes,      \* GET /readyz
    Conns,       \* connections of the pool, db_pool_max_size many
    Native,      \* native sizes of the kinds: width and height
    Widths,      \* values of ?w, None among them
    FallsShort,  \* <<native, width>> where the doubles miss an exact quotient
    MaxQueries,  \* bound: queries one resolver makes for one name
    None         \* nobody, nothing

Requests == Images \cup Listings \cup Probes

ASSUME WorkerAssumption ==
    /\ Images \cap Listings = {} /\ Images \cap Probes = {}
    /\ Listings \cap Probes = {}
    /\ None \notin Requests /\ None \notin Nat
    /\ \A n \in Native : n.w \in Nat \ {0} /\ n.h \in Nat \ {0}
    /\ Widths \subseteq (Nat \ {0}) \cup {None}
    /\ \A n \in Native, w \in Widths \ {None} :
          <<n, w>> \in FallsShort => (n.h * w) % n.w = 0
    /\ MaxQueries \in Nat

VARIABLES
    at,        \* "new", between awaits, queueing for a connection, querying
    stage,     \* what an image request is about to find out
    queries,   \* queries made in this stage
    ping,      \* the probe's PING: "wait", "ok" or "bad"
    select1,   \* the probe's SELECT 1
    holder,    \* who has checked out a connection
    reply,     \* the response of a request
    context,   \* structlog contextvars: league and cache_tier
    total,     \* resolution_total
    misses,    \* resolution_misses_total
    renders,   \* render_cache_events_total over all tiers
    pg,        \* Postgres: "up", "down" (errors) or "hung" (never answers)
    redis      \* likewise

requestVars == <<at, stage, queries, reply, context>>
probeVars == <<ping, select1>>
counters == <<total, misses, renders>>
servers == <<pg, redis>>
vars == <<requestVars, probeVars, holder, counters, servers>>

-----------------------------------------------------------------------------
Stages == {"league", "away", "home", "render", "transform"}
Conditions == {"up", "down", "hung"}
Replies == {"200", "400", "404", "500", "503"}

Holds(r) == {k \in Conns : holder[k] = r}
Ended(r) == at[r] = "ended"

Init ==
    /\ at = [r \in Requests |-> "new"]
    /\ stage = [r \in Images |-> "league"]
    /\ queries = [r \in Images |-> 0]
    /\ ping = [r \in Probes |-> "wait"]
    /\ select1 = [r \in Probes |-> "wait"]
    /\ holder = [k \in Conns |-> None]
    /\ reply = [r \in Requests |-> None]
    /\ context = [r \in Requests |-> [league |-> "unbound", tier |-> FALSE]]
    /\ total = 0
    /\ misses = 0
    /\ renders = 0
    /\ pg = "up"
    /\ redis = "up"

Goto(r, place) == at' = [at EXCEPT ![r] = place]

Respond(r, status) ==
    /\ Goto(r, "ended")
    /\ reply' = [reply EXCEPT ![r] = status]

-----------------------------------------------------------------------------
(* The steps of _handle_image.  Each says what follows once a stage is     *)
(* decided; from where, the actions below say.                             *)

EnterStage(r, s) ==
    /\ Goto(r, "thinking")
    /\ stage' = [stage EXCEPT ![r] = s]
    /\ queries' = [queries EXCEPT ![r] = 0]

(* Mutant: a resolution is counted when it found something.                *)
CountWhenFound(r) ==
    total' = IF stage[r] \in {"away", "home"} THEN total + 1 ELSE total

(* resolution_total is incremented before the resolver is called, so for   *)
(* the stage that comes next.                                              *)
CountResolution(r) ==
    total' = IF stage[r] \in {"league", "away"} THEN total + 1 ELSE total

StageAfter(s) == CASE s = "league" -> "away" [] s = "away" -> "home"
                   [] s = "home" -> "render"

Found(r) ==
    \/ /\ EnterStage(r, StageAfter(stage[r]))
       /\ CountResolution(r)
       /\ context' = IF stage[r] = "league"
                     THEN [context EXCEPT ![r].league = "canonical"] ELSE context
       /\ UNCHANGED <<reply, misses, renders>>
    \/ /\ stage[r] = "league"
       /\ Respond(r, "404")
       /\ UNCHANGED <<stage, queries, context, counters>>

NotFound(r) ==
    /\ IF stage[r] = "league"
       THEN UNCHANGED misses ELSE misses' = misses + 1
    /\ Respond(r, "404")
    /\ UNCHANGED <<stage, queries, context, total, renders>>

Rendered(r) ==
    /\ EnterStage(r, "transform")
    /\ renders' = renders + 1
    /\ context' = [context EXCEPT ![r].tier = TRUE]
    /\ UNCHANGED <<reply, total, misses>>

(* Nothing catches it: Starlette answers 500.                              *)
Raise(r) ==
    /\ Respond(r, "500")
    /\ UNCHANGED <<stage, queries, context, counters>>

-----------------------------------------------------------------------------
(* post_cache_transform: the format is checked, the width only clamped.    *)

(* int(h * (w / W)): the quotient is rounded down, and where it is exact   *)
(* the doubles may fall one short of it.  Width 29 of 800 x 800 makes      *)
(* height 28; width 1 of 49 x 49 would make height 0.                      *)
TargetHeight(n, w) ==
    LET exact == (n.h * w) \div n.w
    IN  IF <<n, w>> \in FallsShort THEN exact - 1 ELSE exact

(* Mutant: no clamping to the native width.                                *)
UnclampedSize(n, w) ==
    IF w = None \/ w = n.w THEN n ELSE [w |-> w, h |-> TargetHeight(n, w)]

SizeOf(n, w) ==
    IF w = None \/ w >= n.w THEN n ELSE [w |-> w, h |-> TargetHeight(n, w)]

Transform(r) ==
    /\ at[r] = "thinking" /\ stage[r] = "transform"
    /\ \/ Respond(r, "400")
       \/ \E n \in Native, w \in Widths :
             Respond(r, IF SizeOf(n, w).h = 0 THEN "500" ELSE "200")
    /\ UNCHANGED <<stage, queries, context, probeVars, holder, counters, servers>>

-----------------------------------------------------------------------------
(* A request begins: the middleware clears and binds the log context.      *)

BeginImage(r) ==
    /\ at[r] = "new"
    /\ Goto(r, "thinking")
    /\ context' = [context EXCEPT ![r] = [league |-> "raw", tier |-> FALSE]]
    /\ UNCHANGED <<stage, queries, reply, probeVars, holder, counters, servers>>

(* A listing, and the probe's check_postgres, ask the pool at once.        *)
BeginOther(r) ==
    /\ at[r] = "new"
    /\ Goto(r, "queueing")
    /\ UNCHANGED <<stage, queries, reply, context, probeVars, holder, counters, servers>>

(* Redis answers, and its answer settles the stage without a query: a      *)
(* cached league or miss, a cached miss of a team, a cached image; or the  *)
(* (kind, style) has no generator, which is checked before.                *)
SettledByRedis(r) ==
    /\ at[r] = "thinking"
    /\ redis = "up"
    /\ \/ stage[r] = "league" /\ (Found(r) \/ NotFound(r))
       \/ stage[r] \in {"away", "home"} /\ NotFound(r)
       \/ stage[r] = "render" /\ Rendered(r)
    /\ UNCHANGED <<probeVars, holder, servers>>

NoGenerator(r) ==
    /\ at[r] = "thinking" /\ stage[r] = "render"
    /\ Respond(r, "400")
    /\ UNCHANGED <<stage, queries, context, probeVars, holder, counters, servers>>

(* Redis answers, and a query is needed; in the render stage the league's  *)
(* logo_variants, with the singleflight lock in hand.                      *)
AskPool(r) ==
    /\ at[r] = "thinking" /\ stage[r] # "transform"
    /\ redis = "up"
    /\ queries[r] < MaxQueries
    /\ Goto(r, "queueing")
    /\ queries' = [queries EXCEPT ![r] = @ + 1]
    /\ UNCHANGED <<stage, reply, context, probeVars, holder, counters, servers>>

RedisRaises(r) ==
    /\ at[r] = "thinking" /\ stage[r] # "transform"
    /\ redis = "down"
    /\ Raise(r)
    /\ UNCHANGED <<probeVars, holder, servers>>

RenderRaises(r) ==
    /\ at[r] = "thinking" /\ stage[r] = "render"
    /\ Raise(r)
    /\ UNCHANGED <<probeVars, holder, servers>>

-----------------------------------------------------------------------------
(* The pool hands each connection to one request at a time.                *)

CheckOut(r) ==
    /\ at[r] = "queueing"
    /\ \E k \in Conns :
          /\ holder[k] = None
          /\ holder' = [holder EXCEPT ![k] = r]
    /\ Goto(r, "querying")
    /\ UNCHANGED <<stage, queries, reply, context, probeVars, counters, servers>>

(* Mutant: a connection is kept for the request's next query.              *)
CheckInUnlessNeeded(r) ==
    holder' = IF at'[r] \in {"ended", "probing"} THEN
                 [k \in Conns |-> IF holder[k] = r THEN None ELSE holder[k]]
              ELSE holder

(* `async with pool.connection()` ends, whatever the query came to.        *)
CheckIn(r) == holder' = [k \in Conns |-> IF holder[k] = r THEN None ELSE holder[k]]

(* What follows for an image: the name is found, or missing, or the next   *)
(* query of this resolver; the league logo's variants.                     *)
AfterQuery(r) ==
    IF stage[r] = "render" THEN Rendered(r)
    ELSE \/ Found(r)
         \/ NotFound(r)
         \/ /\ Goto(r, "thinking")
            /\ queries[r] < MaxQueries
            /\ UNCHANGED <<stage, queries, reply, context, counters>>

QueryReturns(r) ==
    /\ at[r] = "querying"
    /\ pg = "up"
    /\ \/ r \in Images /\ AfterQuery(r) /\ UNCHANGED select1
       \/ /\ r \in Listings
          /\ Respond(r, "200") \/ Respond(r, "404")
          /\ UNCHANGED <<stage, queries, context, counters, select1>>
       \/ /\ r \in Probes
          /\ Goto(r, "probing")
          /\ select1' = [select1 EXCEPT ![r] = "ok"]
          /\ UNCHANGED <<stage, queries, reply, context, counters>>
    /\ CheckIn(r)
    /\ UNCHANGED <<ping, servers>>

(* No row was read: a resolver or a listing raises, the render goes on     *)
(* without variants, check_postgres says no.                               *)
Fails(r) ==
    \/ r \in Listings \cup Images /\ ~(r \in Images /\ stage[r] = "render")
        /\ Raise(r) /\ UNCHANGED select1
    \/ r \in Images /\ stage[r] = "render" /\ Rendered(r) /\ UNCHANGED select1
    \/ /\ r \in Probes
       /\ Goto(r, "probing")
       /\ select1' = [select1 EXCEPT ![r] = "bad"]
       /\ UNCHANGED <<stage, queries, reply, context, counters>>

QueryFails(r) ==
    /\ at[r] = "querying"
    /\ pg = "down"
    /\ Fails(r)
    /\ CheckIn(r)
    /\ UNCHANGED <<ping, servers>>

(* PoolTimeout: every connection is out.                                   *)
PoolTimeout(r) ==
    /\ at[r] = "queueing"
    /\ \A k \in Conns : holder[k] # None
    /\ Fails(r)
    /\ UNCHANGED <<ping, holder, servers>>

-----------------------------------------------------------------------------
(* readyz: PING beside SELECT 1, and the answer when both are known.       *)

PingAnswers(r) ==
    /\ at[r] # "new"
    /\ ping[r] = "wait"
    /\ redis # "hung"
    /\ ping' = [ping EXCEPT ![r] = IF redis = "up" THEN "ok" ELSE "bad"]
    /\ UNCHANGED <<requestVars, select1, holder, counters, servers>>

(* Mutant: PING without wait_for.                                          *)
PingWithoutTimeout(r) == FALSE /\ ping[r] = "wait" /\ UNCHANGED vars

(* readyz_check_timeout.                                                   *)
PingTimeout(r) ==
    /\ at[r] # "new"
    /\ ping[r] = "wait"
    /\ ping' = [ping EXCEPT ![r] = "bad"]
    /\ UNCHANGED <<requestVars, select1, holder, counters, servers>>

ProbeReplies(r) ==
    /\ at[r] = "probing"
    /\ ping[r] # "wait"
    /\ Respond(r, IF ping[r] = "ok" /\ select1[r] = "ok" THEN "200" ELSE "503")
    /\ UNCHANGED <<stage, queries, context, probeVars, holder, counters, servers>>

-----------------------------------------------------------------------------
(* A server changes its condition, at any moment and as often as it likes. *)
ServerChanges ==
    /\ \/ pg' \in Conditions \ {pg} /\ UNCHANGED redis
       \/ redis' \in Conditions \ {redis} /\ UNCHANGED pg
    /\ UNCHANGED <<requestVars, probeVars, holder, counters>>

ImageStep(r) ==
    \/ BeginImage(r) \/ SettledByRedis(r) \/ NoGenerator(r) \/ AskPool(r)
    \/ RedisRaises(r) \/ RenderRaises(r) \/ Transform(r)

ProbeStep(r) == PingAnswers(r) \/ PingTimeout(r) \/ ProbeReplies(r)

PoolStep(r) == CheckOut(r) \/ QueryReturns(r) \/ QueryFails(r)

AllEnded == (\A r \in Requests : Ended(r)) /\ UNCHANGED vars

Next ==
    \/ \E r \in Images : ImageStep(r)
    \/ \E r \in Listings \cup Probes : BeginOther(r)
    \/ \E r \in Probes : ProbeStep(r)
    \/ \E r \in Requests : PoolStep(r) \/ PoolTimeout(r)
    \/ ServerChanges
    \/ AllEnded

(* The event loop resumes every request whose await is over.  The pool's   *)
(* default timeout of 30 seconds is not relied upon, the probe's own one   *)
(* is.                                                                     *)
Fairness ==
    /\ \A r \in Images : WF_vars(ImageStep(r))
    /\ \A r \in Listings \cup Probes : WF_vars(BeginOther(r))
    /\ \A r \in Probes : WF_vars(ProbeStep(r)) /\ WF_vars(PoolTimeout(r))
    /\ \A r \in Requests : WF_vars(PoolStep(r))

Spec == Init /\ [][Next]_vars
FairSpec == Spec /\ Fairness

-----------------------------------------------------------------------------
(* Every variable stays in its type.                                       *)
TypeOK ==
    /\ at \in [Requests -> {"new", "thinking", "queueing", "querying", "probing", "ended"}]
    /\ stage \in [Images -> Stages]
    /\ queries \in [Images -> 0..MaxQueries]
    /\ ping \in [Probes -> {"wait", "ok", "bad"}]
    /\ select1 \in [Probes -> {"wait", "ok", "bad"}]
    /\ holder \in [Conns -> Requests \cup {None}]
    /\ reply \in [Requests -> Replies \cup {None}]
    /\ context \in [Requests -> [league : {"unbound", "raw", "canonical"}, tier : BOOLEAN]]
    /\ {total, misses, renders} \subseteq Nat
    /\ {pg, redis} \subseteq Conditions

(* A connection is out only while its one user runs a query on it: no 404  *)
(* raised inside `async with`, no failed query and no early answer keeps   *)
(* one, and nobody queues for a second one while holding a first.          *)
NoConnectionIsKept ==
    \A r \in Requests : Cardinality(Holds(r)) = IF at[r] = "querying" THEN 1 ELSE 0

(* "Miss rate = rate(misses) / rate(total)" is a rate: two resolutions     *)
(* that did not miss stand behind every render, at every scrape.           *)
CountersAgree == misses + 2 * renders <= total

(* The completion line names a cache tier only for a request that was      *)
(* rendered, and then the canonical league; no 404 carries one.            *)
LogLineFitsReply ==
    \A r \in Images : Ended(r) =>
        /\ reply[r] = "200" => context[r].tier
        /\ context[r].tier =>
              context[r].league = "canonical" /\ reply[r] \in {"200", "400", "500"}

(* What a request leaves behind in the metrics and in the log is true of   *)
(* its reply.                                                              *)
TelemetryIsTrue == CountersAgree /\ LogLineFitsReply

(* A request that is to be transformed sends an image no larger than the   *)
(* native one and of its proportions, to within two pixels of height; only *)
(* a width that leaves no more than a pixel of height fails, with a 500.   *)
SizeIsSane ==
    \A r \in Images : stage[r] = "transform" =>
        \A n \in Native, w \in Widths :
            LET s == SizeOf(n, w)
            IN  /\ s.w <= n.w /\ s.h <= n.h
                /\ n.h * s.w - n.w * s.h \in 0..(2 * n.w)
                /\ s.h = 0 => n.h * w <= n.w

(* Once the servers answer or fail, every request ends, without the pool's *)
(* timeout: nobody waits in a circle for connections.                      *)
EveryRequestEnds ==
    <>[](pg # "hung" /\ redis # "hung") => <>(\A r \in Requests : Ended(r))

(* "Each check is individually bounded ... no unbounded check" (health.py) *)
(* but for one: a probe ends whatever Redis does and whoever has the       *)
(* connections, unless its own SELECT 1 runs on a Postgres that hangs.     *)
EveryProbeAnswers ==
    \A r \in Probes : <>Ended(r) \/ []<>(at[r] = "querying" /\ pg = "hung")
=============================================================================
