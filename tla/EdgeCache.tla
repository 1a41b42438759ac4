----------------------------- MODULE EdgeCache -----------------------------
(***************************************************************************)
(* The two caches in front of a composition: nginx's proxy_cache           *)
(* (nginx.conf.template), keyed by the URL alone, and the render cache in  *)
(* Redis (render.py), keyed by matchup and render version.  The seed       *)
(* flushes the second and nothing flushes the first; a redeploy changes    *)
(* the render version or the kill-switch.                                  *)
(*                                                                         *)
(* One matchup, requested under several URLs (w and fmt are part of the    *)
(* URL, not of the render key).  Both caches live on volumes and outlast a *)
(* restart.  An image is the row version and the render version it was     *)
(* made from and its age in days since the row was read.  (A placeholder   *)
(* in place of a logo the CDN did not give is to both caches an image of   *)
(* an old row whose flush never comes.)  A cache hit of nginx changes      *)
(* nothing, and is no step.                                                *)
(*                                                                         *)
(* Ttl, in days, is proxy_cache_valid, render_cache_ttl and the max-age of *)
(* Cache-Control alike.  A day ends at any moment, but a request spans at  *)
(* most one midnight: nginx and the code give up after seconds.            *)
(***************************************************************************)
EXTENDS Naturals

CONSTANTS
    Clients,     \* connections to nginx
    Urls,        \* URLs of the matchup
    Codes,       \* values of settings.render_version
    Ttl,         \* days an entry of either cache lives
    MaxData,     \* bound: row versions the seed may write
    MaxDeploys,  \* bound: redeploys
    None         \* no entry, nobody, nothing

Oldest == 2 * Ttl + 1
Images == [data : 1..MaxData, code : Codes, age : 0..Oldest]
Jobs == [image : Images, caching : BOOLEAN]

ASSUME EdgeAssumption ==
    /\ Ttl \in Nat \ {0}
    /\ MaxData \in Nat \ {0}
    /\ MaxDeploys \in Nat
    /\ Codes # {}
    /\ None \notin Clients
    /\ None \notin Jobs

VARIABLES
    pc,        \* where each connection stands
    url,       \* the URL it asks for
    fills,     \* does its response populate the cache?
    job,       \* the image the application is making for it
    late,      \* has a day ended since the application began?
    edge,      \* nginx: the entry of each URL
    filler,    \* nginx: who holds the proxy_cache_lock of a URL
    rendered,  \* Redis: rendered:<matchup>:<code>
    data,      \* the version of the team row
    flushDue,  \* a seed run has written rows and not yet flushed
    deployed,  \* settings.render_version and render_cache_enabled
    deploys,   \* redeploys so far
    codeAge    \* days since the render version last changed, up to Ttl + 1

conns == <<pc, url, fills, job, late>>
caches == <<edge, filler, rendered>>
world == <<data, flushDue, deployed, deploys, codeAge>>
vars == <<conns, caches, world>>

-----------------------------------------------------------------------------
Entry(image, left) == [image |-> image, left |-> left]
Fresh(image) == Entry(image, Ttl)
Entries == {Entry(image, left) : image \in Images, left \in 1..Ttl}

Older(n) == IF n = Oldest THEN n ELSE n + 1
AgedImage(image) == [image EXCEPT !.age = Older(@)]
Aged(entry) ==
    IF entry = None \/ entry.left = 1 THEN None
    ELSE Entry(AgedImage(entry.image), entry.left - 1)

Goto(c, from, to) == pc[c] = from /\ pc' = [pc EXCEPT ![c] = to]

Init ==
    /\ pc = [c \in Clients |-> "idle"]
    /\ url = [c \in Clients |-> None]
    /\ fills = [c \in Clients |-> FALSE]
    /\ job = [c \in Clients |-> None]
    /\ late = [c \in Clients |-> FALSE]
    /\ edge = [u \in Urls |-> None]
    /\ filler = [u \in Urls |-> None]
    /\ rendered = [v \in Codes |-> None]
    /\ data = 1
    /\ flushDue = FALSE
    /\ deployed = [code |-> CHOOSE v \in Codes : TRUE, caching |-> TRUE]
    /\ deploys = 0
    /\ codeAge = Ttl + 1

-----------------------------------------------------------------------------
(* nginx: a miss takes the URL's proxy_cache_lock or waits for it.  A      *)
(* waiter is answered from the entry, takes over a lock given back without *)
(* an entry, or passes on uncached after proxy_cache_lock_timeout.         *)

Forward(c, u, from) ==
    /\ Goto(c, from, "forward")
    /\ edge[u] = None
    /\ filler[u] = None
    /\ url' = [url EXCEPT ![c] = u]
    /\ fills' = [fills EXCEPT ![c] = TRUE]
    /\ filler' = [filler EXCEPT ![u] = c]
    /\ UNCHANGED <<job, late, edge, rendered, world>>

Miss(c) == \E u \in Urls : Forward(c, u, "idle")

Wait(c) ==
    /\ Goto(c, "idle", "wait")
    /\ \E u \in Urls :
          /\ edge[u] = None
          /\ filler[u] # None
          /\ url' = [url EXCEPT ![c] = u]
    /\ UNCHANGED <<fills, job, late, caches, world>>

TakeOver(c) == pc[c] = "wait" /\ Forward(c, url[c], "wait")

(* The connection is free for its next request.                            *)
Finish(c, from) ==
    /\ Goto(c, from, "idle")
    /\ url' = [url EXCEPT ![c] = None]
    /\ fills' = [fills EXCEPT ![c] = FALSE]
    /\ job' = [job EXCEPT ![c] = None]
    /\ late' = [late EXCEPT ![c] = FALSE]

WaitOver(c) ==
    /\ Finish(c, "wait")
    /\ edge[url[c]] # None
    /\ UNCHANGED <<caches, world>>

LockTimeout(c) ==
    /\ Goto(c, "wait", "forward")
    /\ edge[url[c]] = None
    /\ filler[url[c]] # None
    /\ UNCHANGED <<url, fills, job, late, caches, world>>

(* proxy_cache_lock_age: a slow filler no longer keeps others out.         *)
LockAges(u) ==
    /\ filler[u] # None
    /\ filler' = [filler EXCEPT ![u] = None]
    /\ UNCHANGED <<conns, edge, rendered, world>>

-----------------------------------------------------------------------------
(* The application: read the team row, then the render cache; on a miss    *)
(* compose and store.  The worker's settings are those of its deployment.  *)

ReadRow(c) ==
    /\ Goto(c, "forward", "lookup")
    /\ job' = [job EXCEPT ![c] =
                 [image |-> [data |-> data, code |-> deployed.code, age |-> 0],
                  caching |-> deployed.caching]]
    /\ UNCHANGED <<url, fills, late, caches, world>>

(* Mutant: the key has no render version.                                  *)
AnyKey(c) == CHOOSE v \in Codes : TRUE

Key(c) == job[c].image.code

(* Mutant: a hit renews the TTL (GETEX).                                   *)
LookupHitRenews(c) ==
    /\ Goto(c, "lookup", "reply")
    /\ job[c].caching
    /\ rendered[Key(c)] # None
    /\ job' = [job EXCEPT ![c].image = rendered[Key(c)].image]
    /\ rendered' = [rendered EXCEPT ![Key(c)] = Fresh(rendered[Key(c)].image)]
    /\ UNCHANGED <<url, fills, late, edge, filler, world>>

LookupHit(c) ==
    /\ Goto(c, "lookup", "reply")
    /\ job[c].caching
    /\ rendered[Key(c)] # None
    /\ job' = [job EXCEPT ![c].image = rendered[Key(c)].image]
    /\ UNCHANGED <<url, fills, late, caches, world>>

(* Compose and SET.  What other requests do meanwhile is RenderPipeline's  *)
(* concern; here it matters that the row was read before.                  *)
Compose(c) ==
    /\ Goto(c, "lookup", "reply")
    /\ job[c].caching => rendered[Key(c)] = None
    /\ rendered' = IF job[c].caching
                   THEN [rendered EXCEPT ![Key(c)] = Fresh(job[c].image)]
                   ELSE rendered
    /\ UNCHANGED <<url, fills, job, late, edge, filler, world>>

(* Mutant: Cache-Control is immutable whatever the kill-switch says.       *)
AlwaysCacheable(c) == job[c] # None

(* Cache-Control is immutable, or no-store with the kill-switch off.       *)
Cacheable(c) == job[c].caching

ReleaseLock(c) ==
    filler' = [u \in Urls |-> IF filler[u] = c THEN None ELSE filler[u]]

Reply(c) ==
    /\ Finish(c, "reply")
    /\ ReleaseLock(c)
    /\ edge' = IF fills[c] /\ Cacheable(c)
               THEN [edge EXCEPT ![url[c]] = Fresh(job[c].image)] ELSE edge
    /\ UNCHANGED <<rendered, world>>

(* 404, 400, 500 or no answer at all: nothing but a 200 is kept.           *)
ReplyError(c) ==
    /\ \E from \in {"forward", "lookup", "reply"} : Finish(c, from)
    /\ ReleaseLock(c)
    /\ UNCHANGED <<edge, rendered, world>>

-----------------------------------------------------------------------------
(* The seed, a redeploy, and time.                                         *)

SeedRow ==
    /\ data < MaxData
    /\ data' = data + 1
    /\ flushDue' = TRUE
    /\ UNCHANGED <<conns, caches, deployed, deploys, codeAge>>

SeedFlush ==
    /\ flushDue
    /\ flushDue' = FALSE
    /\ rendered' = [v \in Codes |-> None]
    /\ UNCHANGED <<conns, edge, filler, data, deployed, deploys, codeAge>>

Redeploy ==
    /\ deploys < MaxDeploys
    /\ \E settings \in [code : Codes, caching : BOOLEAN] \ {deployed} :
          /\ deployed' = settings
          /\ codeAge' = IF settings.code = deployed.code THEN codeAge ELSE 0
    /\ deploys' = deploys + 1
    /\ UNCHANGED <<conns, caches, data, flushDue>>

(* Mutant: nginx never drops an entry.                                     *)
EdgeNeverAges(entry) ==
    IF entry = None THEN None
    ELSE Entry(AgedImage(entry.image), entry.left)

EdgeAges(entry) == Aged(entry)

Day ==
    /\ \A c \in Clients : ~late[c]
    /\ late' = [c \in Clients |-> job[c] # None]
    /\ job' = [c \in Clients |->
                 IF job[c] = None THEN None
                 ELSE [job[c] EXCEPT !.image = AgedImage(@)]]
    /\ edge' = [u \in Urls |-> EdgeAges(edge[u])]
    /\ rendered' = [v \in Codes |-> Aged(rendered[v])]
    /\ codeAge' = IF codeAge > Ttl THEN codeAge ELSE codeAge + 1
    /\ UNCHANGED <<pc, url, fills, filler, data, flushDue, deployed, deploys>>

Serve(c) ==
    \/ TakeOver(c) \/ WaitOver(c) \/ LockTimeout(c)
    \/ ReadRow(c) \/ LookupHit(c) \/ Compose(c) \/ Reply(c)
    \/ ReplyError(c)

Next ==
    \/ \E c \in Clients : Miss(c) \/ Wait(c) \/ Serve(c)
    \/ \E u \in Urls : LockAges(u)
    \/ SeedRow \/ SeedFlush \/ Redeploy \/ Day

(* Begun requests end, and days pass.  Nothing makes anybody ask, or the   *)
(* seed finish.                                                            *)
Fairness ==
    /\ \A c \in Clients : WF_vars(Serve(c))
    /\ WF_vars(Day)

Spec == Init /\ [][Next]_vars
FairSpec == Spec /\ Fairness

-----------------------------------------------------------------------------
(* Every variable stays in its type.                                       *)
TypeOK ==
    /\ pc \in [Clients -> {"idle", "wait", "forward", "lookup", "reply"}]
    /\ url \in [Clients -> Urls \cup {None}]
    /\ fills \in [Clients -> BOOLEAN]
    /\ job \in [Clients -> Jobs \cup {None}]
    /\ \A c \in Clients : job[c] # None <=> pc[c] \in {"lookup", "reply"}
    /\ late \in [Clients -> BOOLEAN]
    /\ edge \in [Urls -> Entries \cup {None}]
    /\ filler \in [Urls -> Clients \cup {None}]
    /\ rendered \in [Codes -> Entries \cup {None}]
    /\ data \in 1..MaxData
    /\ flushDue \in BOOLEAN
    /\ deployed \in [code : Codes, caching : BOOLEAN]
    /\ deploys \in 0..MaxDeploys
    /\ codeAge \in 0..(Ttl + 1)

(* An image is served by nginx for two TTLs at most, counted from the day  *)
(* its rows were read: nginx may have stored it on the last day of its     *)
(* stay in Redis.  A single TTL (30d, "mirrors max-age") is not the bound. *)
AgeIsBounded ==
    \A u \in Urls : edge[u] # None => edge[u].image.age <= 2 * Ttl

(* The render version is no part of nginx's key, so old pictures outlive a *)
(* redeploy there; but only by the one TTL and the midnight a request of   *)
(* the old worker may span: Redis never hands them to the new workers.     *)
OldCodeIsBounded ==
    \A u \in Urls :
        edge[u] # None /\ edge[u].image.code # deployed.code => codeAge <= Ttl

(* The newest picture there is to be had.                                  *)
Current(entry) ==
    /\ entry.image.data = data
    /\ entry.image.code = deployed.code

(* Once rows and settings stay as they are, both tiers come to hold        *)
(* current pictures only: an image of an old row stored behind the flush,  *)
(* one whose flush never came, and one of an old render version give way.  *)
CachesConverge ==
    <>[](/\ \A u \in Urls : edge[u] # None => Current(edge[u])
         /\ rendered[deployed.code] # None => Current(rendered[deployed.code]))

(* "so nginx proxy_cache also skips storing the response" (images.py): the *)
(* kill-switch left off empties both tiers in the end, and they stay so.   *)
SwitchedOffDrains ==
    <>[](~deployed.caching) =>
        <>[](/\ \A u \in Urls : edge[u] = None
             /\ \A v \in Codes : rendered[v] = None)
=============================================================================
