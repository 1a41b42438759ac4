--------------------------- MODULE RenderPipeline ---------------------------
(***************************************************************************)
(* render_pipeline (render.py): the render cache in Redis, the SET NX      *)
(* singleflight lock beside it, the bounded wait of the requests that find *)
(* the lock taken, and the degraded render when the wait is over.          *)
(*                                                                         *)
(* A request is one call of render_pipeline in one gunicorn worker; every  *)
(* await of the code ends a step here, so requests interleave exactly at   *)
(* the Redis commands and at the composition.  An image is named by the    *)
(* request that composed it: a request composes at most once.  A lock      *)
(* value (the uuid4 owner token) is named by the request that wrote it.    *)
(*                                                                         *)
(* Redis answers a command, or fails it.  redis-py retries a command whose *)
(* reply was lost, so a SET NX may take effect and still report "taken".   *)
(* Lock and image leave Redis when their TTL ends; the model lets a TTL    *)
(* end at any moment.                                                      *)
(*                                                                         *)
(* Definitions marked "Mutant" are plausible mistakes that the properties  *)
(* are shown to catch; no specification uses them.                         *)
(***************************************************************************)
EXTENDS Naturals

CONSTANTS
    Requests,      \* calls of render_pipeline
    Workers,       \* gunicorn worker processes, before and after a redeploy
    WorkerOf,      \* the worker that serves a request
    MatchupOf,     \* (league, away, home, kind, style) of a request
    MayBeUnknown,  \* requests whose (kind, style) may have no generator
    VersionOf,     \* settings.render_version of a worker
    CacheEnabled,  \* settings.render_cache_enabled of a worker
    MaxPolls,      \* polls that fit in settings.sf_max_wait
    Faults,        \* what may go wrong: "redis", "render", "crash", "ttl" of
                   \* a lock, "evict" of an image
    None           \* no lock, no image, no answer

ASSUME PipelineAssumption ==
    /\ WorkerOf \in [Requests -> Workers]
    /\ MayBeUnknown \subseteq Requests
    /\ CacheEnabled \in [Workers -> BOOLEAN]
    /\ MaxPolls \in Nat
    /\ None \notin Requests

VARIABLES
    pc,        \* where each request stands
    polls,     \* polls a waiting request has made
    lock,      \* renderlock:<key>: its owner token
    rendered,  \* rendered:<key>: the cached image
    answer,    \* RenderResult.png
    tier,      \* RenderResult.tier
    composed,  \* requests whose composition finished
    lapsed,    \* owners whose lock ran into its TTL
    struck     \* requests one of whose Redis commands failed or was retried

redisVars == <<lock, rendered>>
resultVars == <<answer, tier>>
ghostVars == <<composed, lapsed, struck>>
vars == <<pc, polls, redisVars, resultVars, ghostVars>>

-----------------------------------------------------------------------------
(* Mutant: render_version is left out of the key.                          *)
RenderKeyWithoutVersion(r) == [matchup |-> MatchupOf[r], version |-> 0]

(* Mutant: the requested width, another one for each request, is part of   *)
(* the key.                                                                *)
RenderKeyWithWidth(r) ==
    [matchup |-> MatchupOf[r], version |-> VersionOf[WorkerOf[r]], width |-> r]

(* A width or an output format is not part of the key.                     *)
RenderKey(r) == [matchup |-> MatchupOf[r], version |-> VersionOf[WorkerOf[r]]]
Keys == {RenderKey(r) : r \in Requests}

Holding == {"compose", "store", "release", "unwind"}
Waiting == {"poll", "degrade", "backfill"}
Stopped == {"done", "rejected", "failed", "killed"}
Places == Holding \cup Waiting \cup Stopped
            \cup {"arrive", "lookup", "acquire", "bypass"}
Tiers == {"hit", "miss", "coalesced", "degraded", "bypass"}

Ended(r) == pc[r] \in Stopped
Owns(r) == lock[RenderKey(r)] = r
Goto(r, from, to) == pc[r] = from /\ pc' = [pc EXCEPT ![r] = to]

Return(r, from, image, t) ==
    /\ Goto(r, from, "done")
    /\ answer' = [answer EXCEPT ![r] = image]
    /\ tier' = [tier EXCEPT ![r] = t]

Init ==
    /\ pc = [r \in Requests |-> "arrive"]
    /\ polls = [r \in Requests |-> 0]
    /\ lock = [k \in Keys |-> None]
    /\ rendered = [k \in Keys |-> None]
    /\ answer = [r \in Requests |-> None]
    /\ tier = [r \in Requests |-> "none"]
    /\ composed = {}
    /\ lapsed = {}
    /\ struck = {}

-----------------------------------------------------------------------------
(* Before any Redis work: the generator check, then the kill-switch.       *)

RejectUnknown(r) ==
    /\ r \in MayBeUnknown
    /\ Goto(r, "arrive", "rejected")
    /\ UNCHANGED <<polls, redisVars, resultVars, ghostVars>>

Enter(r) ==
    /\ Goto(r, "arrive", IF CacheEnabled[WorkerOf[r]] THEN "lookup" ELSE "bypass")
    /\ UNCHANGED <<polls, redisVars, resultVars, ghostVars>>

ComposeBypass(r) ==
    /\ Return(r, "bypass", r, "bypass")
    /\ composed' = composed \cup {r}
    /\ UNCHANGED <<polls, redisVars, lapsed, struck>>

-----------------------------------------------------------------------------
(* GET rendered, then SET NX renderlock.  Nothing reads the image again    *)
(* between a won lock and the composition.                                 *)

LookupHit(r) ==
    /\ rendered[RenderKey(r)] # None
    /\ Return(r, "lookup", rendered[RenderKey(r)], "hit")
    /\ UNCHANGED <<polls, redisVars, ghostVars>>

LookupMiss(r) ==
    /\ rendered[RenderKey(r)] = None
    /\ Goto(r, "lookup", "acquire")
    /\ UNCHANGED <<polls, redisVars, resultVars, ghostVars>>

(* Mutant: SET without NX.                                                 *)
SetLockWithoutNX(r) == lock' = [lock EXCEPT ![RenderKey(r)] = r]

SetLockNX(r) == lock[RenderKey(r)] = None /\ lock' = [lock EXCEPT ![RenderKey(r)] = r]

AcquireWon(r) ==
    /\ SetLockNX(r)
    /\ Goto(r, "acquire", "compose")
    /\ UNCHANGED <<polls, rendered, resultVars, ghostVars>>

AcquireTaken(r) ==
    /\ lock[RenderKey(r)] # None
    /\ Goto(r, "acquire", "poll")
    /\ UNCHANGED <<polls, redisVars, resultVars, ghostVars>>

(* The lock is set but its reply is lost: either the command is retried,   *)
(* finds the key taken, and the request waits behind its own lock, or the  *)
(* retries run out and the request fails.                                  *)
AcquireReplyLost(r) ==
    /\ "redis" \in Faults
    /\ SetLockNX(r)
    /\ \E to \in {"poll", "failed"} : Goto(r, "acquire", to)
    /\ struck' = struck \cup {r}
    /\ UNCHANGED <<polls, rendered, resultVars, composed, lapsed>>

-----------------------------------------------------------------------------
(* The holder: compose, SET rendered, and in `finally` the compare-and-    *)
(* delete script, whether or not composing and storing succeeded.          *)

Compose(r) ==
    /\ Goto(r, "compose", "store")
    /\ composed' = composed \cup {r}
    /\ UNCHANGED <<polls, redisVars, resultVars, lapsed, struck>>

(* Mutant: the failure is swallowed, and nothing is stored as an image.    *)
ComposeFailsUnnoticed(r) ==
    /\ "render" \in Faults
    /\ Goto(r, "compose", "store")
    /\ UNCHANGED <<polls, redisVars, resultVars, ghostVars>>

ComposeFails(r) ==
    /\ "render" \in Faults
    /\ Goto(r, "compose", "unwind")
    /\ UNCHANGED <<polls, redisVars, resultVars, ghostVars>>

SetRendered(r) == rendered' = [rendered EXCEPT ![RenderKey(r)] = r]

Store(r) ==
    /\ Goto(r, "store", "release")
    /\ SetRendered(r)
    /\ UNCHANGED <<polls, lock, resultVars, ghostVars>>

StoreFails(r) ==
    /\ "redis" \in Faults
    /\ Goto(r, "store", "unwind")
    /\ rendered' = rendered \/ SetRendered(r)
    /\ struck' = struck \cup {r}
    /\ UNCHANGED <<polls, lock, resultVars, composed, lapsed>>

(* Mutant: DEL in place of the script.                                     *)
DeleteWithoutCompare(r) == lock' = [lock EXCEPT ![RenderKey(r)] = None]

(* _RELEASE_LOCK_LUA: delete the lock only while it holds our token.       *)
CompareAndDelete(r) ==
    lock' = IF Owns(r) THEN [lock EXCEPT ![RenderKey(r)] = None] ELSE lock

Release(r) ==
    /\ Return(r, "release", r, "miss")
    /\ CompareAndDelete(r)
    /\ UNCHANGED <<polls, rendered, ghostVars>>

(* Mutant: no release on the way out.                                      *)
UnwindWithoutFinally(r) ==
    /\ Goto(r, "unwind", "failed")
    /\ UNCHANGED <<polls, redisVars, resultVars, ghostVars>>

Unwind(r) ==
    /\ Goto(r, "unwind", "failed")
    /\ CompareAndDelete(r)
    /\ UNCHANGED <<polls, rendered, resultVars, ghostVars>>

ReleaseFails(r) ==
    /\ "redis" \in Faults
    /\ \E from \in {"release", "unwind"} : Goto(r, from, "failed")
    /\ lock' = lock \/ CompareAndDelete(r)
    /\ struck' = struck \cup {r}
    /\ UNCHANGED <<polls, rendered, resultVars, composed, lapsed>>

-----------------------------------------------------------------------------
(* The waiter: sleep, GET, at most MaxPolls times; then compose anyway and *)
(* store on a best-effort basis.  It never looks at the lock again.        *)

PollHit(r) ==
    /\ polls[r] < MaxPolls
    /\ rendered[RenderKey(r)] # None
    /\ Return(r, "poll", rendered[RenderKey(r)], "coalesced")
    /\ polls' = [polls EXCEPT ![r] = @ + 1]
    /\ UNCHANGED <<redisVars, ghostVars>>

(* Mutant: no deadline.                                                    *)
PollMissUnbounded(r) ==
    /\ pc[r] = "poll"
    /\ rendered[RenderKey(r)] = None
    /\ polls' = [polls EXCEPT ![r] = @ + 1]
    /\ UNCHANGED <<pc, redisVars, resultVars, ghostVars>>

PollMiss(r) ==
    /\ pc[r] = "poll"
    /\ polls[r] < MaxPolls
    /\ rendered[RenderKey(r)] = None
    /\ polls' = [polls EXCEPT ![r] = @ + 1]
    /\ UNCHANGED <<pc, redisVars, resultVars, ghostVars>>

(* Mutant: a waiter out of patience answers with an error.                 *)
PollsOverGivesUp(r) ==
    /\ polls[r] >= MaxPolls
    /\ Goto(r, "poll", "failed")
    /\ UNCHANGED <<polls, redisVars, resultVars, ghostVars>>

PollsOver(r) ==
    /\ polls[r] >= MaxPolls
    /\ Goto(r, "poll", "degrade")
    /\ UNCHANGED <<polls, redisVars, resultVars, ghostVars>>

ComposeDegraded(r) ==
    /\ Goto(r, "degrade", "backfill")
    /\ composed' = composed \cup {r}
    /\ UNCHANGED <<polls, redisVars, resultVars, lapsed, struck>>

Backfill(r) ==
    /\ Return(r, "backfill", r, "degraded")
    /\ SetRendered(r)
    /\ UNCHANGED <<polls, lock, ghostVars>>

BackfillFails(r) ==
    /\ "redis" \in Faults
    /\ Return(r, "backfill", r, "degraded")
    /\ rendered' = rendered \/ SetRendered(r)
    /\ struck' = struck \cup {r}
    /\ UNCHANGED <<polls, lock, composed, lapsed>>

-----------------------------------------------------------------------------
(* Exceptions nothing catches end the request: a Redis command that did    *)
(* nothing, a composition outside the holder's `finally`.                  *)

CommandFails(r) ==
    /\ "redis" \in Faults
    /\ \E from \in {"lookup", "acquire", "poll"} : Goto(r, from, "failed")
    /\ struck' = struck \cup {r}
    /\ UNCHANGED <<polls, redisVars, resultVars, composed, lapsed>>

UnlockedComposeFails(r) ==
    /\ "render" \in Faults
    /\ \E from \in {"bypass", "degrade"} : Goto(r, from, "failed")
    /\ UNCHANGED <<polls, redisVars, resultVars, ghostVars>>

(* A worker dies with everything it was serving; Redis keeps its locks.    *)
Crash(w) ==
    LET dying == {r \in Requests :
                    WorkerOf[r] = w /\ pc[r] # "arrive" /\ ~Ended(r)}
    IN  /\ "crash" \in Faults
        /\ dying # {}
        /\ pc' = [r \in Requests |-> IF r \in dying THEN "killed" ELSE pc[r]]
        /\ UNCHANGED <<polls, redisVars, resultVars, ghostVars>>

(* ex=sf_lock_ttl.                                                         *)
LockExpires(k) ==
    /\ "ttl" \in Faults
    /\ lock[k] # None
    /\ lock' = [lock EXCEPT ![k] = None]
    /\ lapsed' = lapsed \cup {lock[k]}
    /\ UNCHANGED <<pc, polls, rendered, resultVars, composed, struck>>

(* ex=render_cache_ttl, or the flush at the end of a seed run.             *)
ImageExpires(k) ==
    /\ "evict" \in Faults
    /\ rendered[k] # None
    /\ rendered' = [rendered EXCEPT ![k] = None]
    /\ UNCHANGED <<pc, polls, lock, resultVars, ghostVars>>

-----------------------------------------------------------------------------
RequestStep(r) ==
    \/ RejectUnknown(r) \/ Enter(r) \/ ComposeBypass(r)
    \/ LookupHit(r) \/ LookupMiss(r)
    \/ AcquireWon(r) \/ AcquireTaken(r) \/ AcquireReplyLost(r)
    \/ Compose(r) \/ ComposeFails(r)
    \/ Store(r) \/ StoreFails(r)
    \/ Release(r) \/ Unwind(r) \/ ReleaseFails(r)
    \/ PollHit(r) \/ PollMiss(r) \/ PollsOver(r)
    \/ ComposeDegraded(r) \/ Backfill(r) \/ BackfillFails(r)
    \/ CommandFails(r) \/ UnlockedComposeFails(r)

AllEnded == (\A r \in Requests : Ended(r)) /\ UNCHANGED vars

Next ==
    \/ \E r \in Requests : RequestStep(r)
    \/ \E w \in Workers : Crash(w)
    \/ \E k \in Keys : LockExpires(k) \/ ImageExpires(k)
    \/ AllEnded

(* The event loop resumes every request whose await is over.  No request   *)
(* relies on the end of a TTL, and nothing makes a fault happen.           *)
Fairness == \A r \in Requests : WF_vars(RequestStep(r))

Spec == Init /\ [][Next]_vars
FairSpec == Spec /\ Fairness

-----------------------------------------------------------------------------
(* Every variable stays in its type.                                       *)
TypeOK ==
    /\ pc \in [Requests -> Places]
    /\ polls \in [Requests -> 0..MaxPolls]
    /\ lock \in [Keys -> Requests \cup {None}]
    /\ rendered \in [Keys -> Requests \cup {None}]
    /\ answer \in [Requests -> Requests \cup {None}]
    /\ tier \in [Requests -> Tiers \cup {"none"}]
    /\ composed \subseteq Requests
    /\ lapsed \subseteq Requests
    /\ struck \subseteq Requests

(* A holder keeps its lock for as long as its TTL lasts: no other request's*)
(* `finally`, however late it runs, takes the lock away from it.           *)
HolderKeepsLock ==
    \A r \in Requests : pc[r] \in Holding /\ r \notin lapsed => Owns(r)

(* Two holders of one key are never inside their critical section together *)
(* unless the TTL of one of them has ended ("only one Pillow composition").*)
OneHolder ==
    \A r, s \in Requests :
        /\ RenderKey(r) = RenderKey(s)
        /\ pc[r] \in Holding /\ r \notin lapsed
        /\ pc[s] \in Holding /\ s \notin lapsed
        => r = s

(* A lock left in Redis by a request that is not holding it is the trace of*)
(* a dead worker or of a failed Redis command: a render that raises, or a  *)
(* waiter that gives up, never leaves one for the others to wait behind.   *)
NoLeakedLock ==
    \A r \in Requests :
        Owns(r) => pc[r] \in Holding \/ pc[r] = "killed" \/ r \in struck

(* The image in the cache, and the image a request is about to store or to *)
(* return, is a finished composition of that very key.                     *)
CachedImageIsComposed ==
    /\ \A k \in Keys : rendered[k] # None =>
            rendered[k] \in composed /\ RenderKey(rendered[k]) = k
    /\ \A r \in Requests :
            pc[r] \in {"store", "release", "backfill"} => r \in composed

(* How a caller sees a request.                                            *)
Status(r) ==
    CASE pc[r] = "done" -> "answered"
      [] pc[r] \in {"rejected", "failed", "killed"} -> "failed"
      [] OTHER -> "open"

Service == INSTANCE ImageService WITH
    VersionAt <- [r \in Requests |-> VersionOf[WorkerOf[r]]],
    status <- [r \in Requests |-> Status(r)]

(* The promise of ImageService, which sees neither cache nor lock: an      *)
(* answer is a finished composition of the requested matchup, made at the  *)
(* render version of the request's own worker.                             *)
ImplementsService == Service!Spec

(* Every request ends, behind a dead holder, behind its own lost lock, and *)
(* when nobody ever stores the image it polls for; and it ends with an     *)
(* image, unless its own worker died or its own Redis command failed (for  *)
(* instances without "render" faults).                                     *)
EverySurvivorIsAnswered ==
    <>(\A r \in Requests :
          \/ pc[r] \in {"done", "killed"}
          \/ pc[r] = "failed" /\ r \in struck
          \/ pc[r] = "rejected" /\ r \in MayBeUnknown)

(* Two requests for one picture: same matchup, same render version, and    *)
(* the workers of both use the cache.                                      *)
SharePicture(r, s) ==
    /\ MatchupOf[r] = MatchupOf[s]
    /\ VersionOf[WorkerOf[r]] = VersionOf[WorkerOf[s]]
    /\ CacheEnabled[WorkerOf[r]] /\ CacheEnabled[WorkerOf[s]]

(* "Subsequent waiters get a cache hit instead of another degrade" (WR-01):*)
(* once a request has its image, however it came by it, no request for the *)
(* same picture that arrives later composes, unless the answered one's own *)
(* Redis command failed.  A late winner or a waiter out of patience was    *)
(* there before (for instances without "evict").                           *)
AnsweredIsNotComposedAgain ==
    \A r, s \in Requests : SharePicture(r, s) =>
        [](pc[r] = "done" /\ r \notin struck /\ pc[s] = "arrive" => [](s \notin composed))
=============================================================================
