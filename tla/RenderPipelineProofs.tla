------------------------ MODULE RenderPipelineProofs ------------------------
(***************************************************************************)
(* Theorems about RenderPipeline, for any number of requests, workers,     *)
(* matchups and polls, and for every combination of faults.                *)
(***************************************************************************)
EXTENDS RenderPipeline, TLAPS

(* The key of a request is a key.                                          *)
LEMMA KeyInKeys == \A r \in Requests : RenderKey(r) \in Keys
BY DEF Keys

(* The steps that leave Redis alone, in the form the proofs use: where the *)
(* request goes, and that lock and image stay.                             *)
LEMMA StepCases ==
    ASSUME Next
    PROVE  \/ \E r \in Requests : RequestStep(r)
           \/ \E w \in Workers : Crash(w)
           \/ \E k \in Keys : LockExpires(k)
           \/ \E k \in Keys : ImageExpires(k)
           \/ UNCHANGED vars
BY DEF Next, AllEnded

-----------------------------------------------------------------------------
LEMMA TypeInit == Init => TypeOK
BY PipelineAssumption DEF Init, TypeOK, Places, Tiers, Keys

LEMMA TypeStep == TypeOK /\ [Next]_vars => TypeOK'
<1> SUFFICES ASSUME TypeOK, [Next]_vars PROVE TypeOK'
  OBVIOUS
<1> USE PipelineAssumption, KeyInKeys DEF TypeOK, resultVars, redisVars, ghostVars
<1>1. ASSUME NEW r \in Requests, RequestStep(r) PROVE TypeOK'
  <2> USE DEF Goto, Return, Places, Holding, Waiting, Stopped, Tiers
  <2>1. CASE RejectUnknown(r) \/ Enter(r) \/ ComposeBypass(r)
    BY <2>1 DEF RejectUnknown, Enter, ComposeBypass
  <2>2. CASE LookupHit(r) \/ LookupMiss(r)
    BY <2>2 DEF LookupHit, LookupMiss
  <2>3. CASE AcquireWon(r) \/ AcquireTaken(r) \/ AcquireReplyLost(r)
    BY <2>3 DEF AcquireWon, AcquireTaken, AcquireReplyLost, SetLockNX
  <2>4. CASE Compose(r) \/ ComposeFails(r) \/ ComposeDegraded(r)
    BY <2>4 DEF Compose, ComposeFails, ComposeDegraded
  <2>5. CASE Store(r) \/ StoreFails(r) \/ Backfill(r) \/ BackfillFails(r)
    BY <2>5 DEF Store, StoreFails, Backfill, BackfillFails, SetRendered
  <2>6. CASE Release(r) \/ Unwind(r) \/ ReleaseFails(r)
    BY <2>6 DEF Release, Unwind, ReleaseFails, CompareAndDelete
  <2>7. CASE PollHit(r) \/ PollMiss(r) \/ PollsOver(r)
    BY <2>7 DEF PollHit, PollMiss, PollsOver
  <2>8. CASE CommandFails(r) \/ UnlockedComposeFails(r)
    BY <2>8 DEF CommandFails, UnlockedComposeFails
  <2> QED BY <1>1, <2>1, <2>2, <2>3, <2>4, <2>5, <2>6, <2>7, <2>8 DEF RequestStep
<1>2. ASSUME NEW w \in Workers, Crash(w) PROVE TypeOK'
  BY <1>2 DEF Crash, Places, Stopped
<1>3. ASSUME NEW k \in Keys, LockExpires(k) PROVE TypeOK'
  BY <1>3 DEF LockExpires
<1>4. ASSUME NEW k \in Keys, ImageExpires(k) PROVE TypeOK'
  BY <1>4 DEF ImageExpires
<1>5. CASE UNCHANGED vars
  BY <1>5 DEF vars
<1> QED BY <1>1, <1>2, <1>3, <1>4, <1>5, StepCases

(* Type correctness: every reachable state of render_pipeline is one of    *)
(* the places, tiers and Redis values the code names.                      *)
THEOREM TypeCorrect == Spec => []TypeOK
BY TypeInit, TypeStep, PTL DEF Spec

-----------------------------------------------------------------------------
(* The lock.  HolderKeepsLock and NoLeakedLock are inductive once every    *)
(* variable has its type: a lock changes hands only through SET NX, the    *)
(* compare-and-delete of its owner, or the end of its TTL, which marks the *)
(* owner as lapsed.                                                        *)
LockInv == TypeOK /\ HolderKeepsLock /\ NoLeakedLock

LEMMA LockInvInductive == LockInv /\ [Next]_vars => LockInv'
<1> SUFFICES ASSUME LockInv, [Next]_vars PROVE HolderKeepsLock' /\ NoLeakedLock'
  BY TypeStep DEF LockInv
<1> USE PipelineAssumption, KeyInKeys
    DEF LockInv, TypeOK, HolderKeepsLock, NoLeakedLock, Owns, Holding,
        resultVars, redisVars, ghostVars
<1>1. ASSUME NEW r \in Requests, RequestStep(r) PROVE HolderKeepsLock' /\ NoLeakedLock'
  <2> USE DEF Goto, Return
  (* A request outside the critical section moves, and no lock does.        *)
  <2>1. CASE RejectUnknown(r) \/ Enter(r) \/ ComposeBypass(r) \/ LookupHit(r)
               \/ LookupMiss(r) \/ AcquireTaken(r)
    BY <2>1 DEF RejectUnknown, Enter, ComposeBypass, LookupHit, LookupMiss, AcquireTaken
  <2>2. CASE PollHit(r) \/ PollMiss(r) \/ PollsOver(r) \/ ComposeDegraded(r)
               \/ Backfill(r) \/ BackfillFails(r)
    BY <2>2 DEF PollHit, PollMiss, PollsOver, ComposeDegraded, Backfill,
                BackfillFails, SetRendered
  <2>3. CASE CommandFails(r) \/ UnlockedComposeFails(r)
    BY <2>3 DEF CommandFails, UnlockedComposeFails
  (* SET NX succeeds only on a free key, so no unlapsed holder had it.      *)
  <2>4. CASE AcquireWon(r) \/ AcquireReplyLost(r)
    BY <2>4 DEF AcquireWon, AcquireReplyLost, SetLockNX
  (* A holder stays inside its critical section.                            *)
  <2>5. CASE Compose(r) \/ ComposeFails(r) \/ Store(r) \/ StoreFails(r)
    BY <2>5 DEF Compose, ComposeFails, Store, StoreFails, SetRendered
  (* The compare-and-delete touches the lock only while r owns it, and then *)
  (* no other unlapsed holder of the key exists.                            *)
  <2>6. CASE Release(r) \/ Unwind(r) \/ ReleaseFails(r)
    <3>1. \A s \in Requests \ {r} : s \in Requests /\ pc'[s] = pc[s]
      BY <2>6 DEF Release, Unwind, ReleaseFails
    <3>2. \A s \in Requests \ {r} : Owns(s) <=> Owns(s)'
      BY <2>6 DEF Release, Unwind, ReleaseFails, CompareAndDelete
    <3>3. pc'[r] \notin Holding /\ lapsed' = lapsed /\ struck \subseteq struck'
      BY <2>6 DEF Release, Unwind, ReleaseFails
    <3>4. r \in struck' \/ ~Owns(r)'
      BY <2>6 DEF Release, Unwind, ReleaseFails, CompareAndDelete
    <3> QED BY <3>1, <3>2, <3>3, <3>4
  <2> QED BY <1>1, <2>1, <2>2, <2>3, <2>4, <2>5, <2>6 DEF RequestStep
<1>2. ASSUME NEW w \in Workers, Crash(w) PROVE HolderKeepsLock' /\ NoLeakedLock'
  BY <1>2 DEF Crash
<1>3. ASSUME NEW k \in Keys, LockExpires(k) PROVE HolderKeepsLock' /\ NoLeakedLock'
  BY <1>3 DEF LockExpires
<1>4. ASSUME NEW k \in Keys, ImageExpires(k) PROVE HolderKeepsLock' /\ NoLeakedLock'
  BY <1>4 DEF ImageExpires
<1>5. CASE UNCHANGED vars
  BY <1>5 DEF vars
<1> QED BY <1>1, <1>2, <1>3, <1>4, <1>5, StepCases

LEMMA LockInvariant == Spec => []LockInv
<1>1. Init => LockInv
  BY PipelineAssumption, TypeInit, KeyInKeys
  DEF LockInv, Init, HolderKeepsLock, NoLeakedLock, Owns, Holding
<1> QED BY <1>1, LockInvInductive, PTL DEF Spec

(* However late a `finally` runs, it takes no other holder's lock away     *)
(* (the compare-and-delete script).                                        *)
THEOREM HolderKeepsItsLock == Spec => []HolderKeepsLock
BY LockInvariant, PTL DEF LockInv

(* Only a dead worker or a failed Redis command leaves a lock behind.      *)
THEOREM NoLockLeaks == Spec => []NoLeakedLock
BY LockInvariant, PTL DEF LockInv

(* Singleflight: two holders of one key are in the critical section at     *)
(* once only after the TTL of one of them ended.                           *)
THEOREM Singleflight == Spec => []OneHolder
<1>1. LockInv => OneHolder
  BY DEF LockInv, OneHolder, HolderKeepsLock, Owns
<1> QED BY <1>1, LockInvariant, PTL

-----------------------------------------------------------------------------
(* The images.  What is cached, or about to be stored or returned, has been*)
(* composed for that key; and a request that has yet to compose has not.   *)
YetToCompose == {"arrive", "lookup", "acquire", "compose", "poll", "degrade", "bypass"}
NotComposedYet == \A r \in Requests : pc[r] \in YetToCompose => r \notin composed
ImageInv == TypeOK /\ CachedImageIsComposed /\ NotComposedYet

LEMMA ImageInvInductive == ImageInv /\ [Next]_vars => ImageInv'
<1> SUFFICES ASSUME ImageInv, [Next]_vars
             PROVE  CachedImageIsComposed' /\ NotComposedYet'
  BY TypeStep DEF ImageInv
<1> USE PipelineAssumption, KeyInKeys
    DEF ImageInv, TypeOK, CachedImageIsComposed, NotComposedYet, YetToCompose,
        resultVars, redisVars, ghostVars
<1>1. ASSUME NEW r \in Requests, RequestStep(r)
      PROVE  CachedImageIsComposed' /\ NotComposedYet'
  <2> USE DEF Goto, Return
  (* Steps that neither compose nor write an image.                         *)
  <2>1. CASE RejectUnknown(r) \/ Enter(r) \/ LookupHit(r) \/ LookupMiss(r)
    BY <2>1 DEF RejectUnknown, Enter, LookupHit, LookupMiss
  <2>2. CASE AcquireWon(r) \/ AcquireTaken(r) \/ AcquireReplyLost(r)
    BY <2>2 DEF AcquireWon, AcquireTaken, AcquireReplyLost, SetLockNX
  <2>3. CASE PollHit(r) \/ PollMiss(r) \/ PollsOver(r)
    BY <2>3 DEF PollHit, PollMiss, PollsOver
  <2>4. CASE Release(r) \/ Unwind(r) \/ ReleaseFails(r)
    BY <2>4 DEF Release, Unwind, ReleaseFails
  <2>5. CASE CommandFails(r) \/ UnlockedComposeFails(r) \/ ComposeFails(r)
    BY <2>5 DEF CommandFails, UnlockedComposeFails, ComposeFails
  (* Steps that compose, and steps that write the image just composed.      *)
  <2>6. CASE Compose(r) \/ ComposeDegraded(r) \/ ComposeBypass(r)
    BY <2>6 DEF Compose, ComposeDegraded, ComposeBypass
  <2>7. CASE Store(r) \/ StoreFails(r) \/ Backfill(r) \/ BackfillFails(r)
    BY <2>7 DEF Store, StoreFails, Backfill, BackfillFails, SetRendered
  <2> QED
    BY <1>1, <2>1, <2>2, <2>3, <2>4, <2>5, <2>6, <2>7 DEF RequestStep
<1>2. ASSUME NEW w \in Workers, Crash(w)
      PROVE  CachedImageIsComposed' /\ NotComposedYet'
  BY <1>2 DEF Crash
<1>3. ASSUME NEW k \in Keys, LockExpires(k)
      PROVE  CachedImageIsComposed' /\ NotComposedYet'
  BY <1>3 DEF LockExpires
<1>4. ASSUME NEW k \in Keys, ImageExpires(k)
      PROVE  CachedImageIsComposed' /\ NotComposedYet'
  BY <1>4 DEF ImageExpires
<1>5. CASE UNCHANGED vars
  BY <1>5 DEF vars
<1> QED BY <1>1, <1>2, <1>3, <1>4, <1>5, StepCases

LEMMA ImageInvariant == Spec => []ImageInv
<1>1. Init => ImageInv
  BY PipelineAssumption, TypeInit, KeyInKeys
  DEF ImageInv, Init, CachedImageIsComposed, NotComposedYet
<1> QED BY <1>1, ImageInvInductive, PTL DEF Spec

(* What the cache serves is a finished composition of the key it is under. *)
THEOREM CacheServesItsKey == Spec => []CachedImageIsComposed
BY ImageInvariant, PTL DEF ImageInv

-----------------------------------------------------------------------------
(* The refinement.  A step of a request is a step of the service or a      *)
(* stutter: the composing steps are Compose, the returning ones Answer,    *)
(* every exception and every crash Fail, and Redis is invisible.           *)

(* Equal keys are the same picture.                                        *)
LEMMA SameKeySamePicture ==
    ASSUME NEW r \in Requests, NEW s \in Requests, RenderKey(r) = RenderKey(s)
    PROVE  Service!SamePicture(r, s)
BY DEF RenderKey, Service!SamePicture

(* The requests an exception or a crash ends are the ones the service fails. *)
LEMMA FailingStep ==
    ASSUME NEW F \in SUBSET Requests,
           \A r \in F : Status(r) = "open" /\ Status(r)' = "failed",
           \A r \in Requests \ F : Status(r)' = Status(r),
           UNCHANGED <<answer, composed>>
    PROVE  Service!Fail
<1>1. F \in SUBSET {r \in Requests : [s \in Requests |-> Status(s)][r] = "open"}
  OBVIOUS
<1>2. [r \in Requests |-> Status(r)]' =
        [r \in Requests |-> IF r \in F THEN "failed" ELSE [s \in Requests |-> Status(s)][r]]
  OBVIOUS
<1> QED BY <1>1, <1>2 DEF Service!Fail

LEMMA OneFails ==
    ASSUME NEW r \in Requests,
           Status(r) = "open", Status(r)' = "failed",
           \A s \in Requests \ {r} : Status(s)' = Status(s),
           UNCHANGED <<answer, composed>>
    PROVE  Service!Fail
<1> DEFINE F == {r}
<1>1. /\ F \in SUBSET Requests
      /\ \A s \in F : Status(s) = "open" /\ Status(s)' = "failed"
      /\ \A s \in Requests \ F : Status(s)' = Status(s)
  OBVIOUS
<1> HIDE DEF F
<1> QED BY <1>1, FailingStep

LEMMA StepImplementsService == ImageInv /\ [Next]_vars => [Service!Next]_Service!vars
<1> SUFFICES ASSUME ImageInv, [Next]_vars PROVE Service!Next \/ UNCHANGED Service!vars
  OBVIOUS
<1> USE PipelineAssumption, KeyInKeys DEF ImageInv, TypeOK, resultVars, redisVars, ghostVars
<1>1. ASSUME NEW r \in Requests, RequestStep(r)
      PROVE  Service!Next \/ UNCHANGED Service!vars
  <2> USE DEF Goto
  (* Steps inside the pipeline: the service does not move.                  *)
  <2>1. CASE Enter(r) \/ LookupMiss(r) \/ AcquireWon(r) \/ AcquireTaken(r)
    BY <2>1 DEF Enter, LookupMiss, AcquireWon, AcquireTaken, Service!vars, Status
  <2>2. CASE ComposeFails(r) \/ Store(r) \/ StoreFails(r) \/ PollMiss(r) \/ PollsOver(r)
    BY <2>2 DEF ComposeFails, Store, StoreFails, PollMiss, PollsOver, Service!vars, Status
  <2>3. CASE Compose(r) \/ ComposeDegraded(r)
    <3>1. Service!Compose(r)
      BY <2>3 DEF Compose, ComposeDegraded, NotComposedYet, YetToCompose, Service!Compose, Status
    <3> QED BY <3>1 DEF Service!Next
  (* Returning steps.                                                       *)
  <2>4. CASE LookupHit(r) \/ PollHit(r) \/ Release(r) \/ Backfill(r)
               \/ BackfillFails(r) \/ ComposeBypass(r)
    <3> DEFINE image == answer'[r]
    <3>1. image \in composed \cup {r} /\ RenderKey(image) = RenderKey(r)
      BY <2>4 DEF LookupHit, PollHit, Release, Backfill, BackfillFails,
                  ComposeBypass, Return, CachedImageIsComposed
    <3>2. Service!SamePicture(r, image)
      BY <3>1, SameKeySamePicture
    <3>3. composed' = composed \cup {image}
      BY <2>4, <3>1 DEF LookupHit, PollHit, Release, Backfill, BackfillFails,
                  ComposeBypass, Return, CachedImageIsComposed
    <3>4. answer' = [answer EXCEPT ![r] = image] /\ pc' = [pc EXCEPT ![r] = "done"]
      BY <2>4 DEF LookupHit, PollHit, Release, Backfill, BackfillFails,
                  ComposeBypass, Return
    <3>5. pc[r] \notin {"done", "rejected", "failed", "killed"}
      BY <2>4 DEF LookupHit, PollHit, Release, Backfill, BackfillFails,
                  ComposeBypass, Return
    <3>6. Service!Answer(r)
      BY <3>1, <3>2, <3>3, <3>4, <3>5 DEF Service!Answer, Status
    <3> QED BY <3>6 DEF Service!Next
  (* Exceptions.                                                            *)
  <2>5. CASE RejectUnknown(r) \/ Unwind(r) \/ ReleaseFails(r)
               \/ CommandFails(r) \/ UnlockedComposeFails(r)
    <3>1. /\ pc[r] \notin {"done", "rejected", "failed", "killed"}
          /\ pc'[r] \in {"rejected", "failed"}
          /\ \A s \in Requests \ {r} : pc'[s] = pc[s]
          /\ UNCHANGED <<answer, composed>>
      BY <2>5 DEF RejectUnknown, Unwind, ReleaseFails, CommandFails, UnlockedComposeFails
    <3>2. Service!Fail
      <4>1. /\ Status(r) = "open" /\ Status(r)' = "failed"
            /\ \A s \in Requests \ {r} : Status(s)' = Status(s)
        BY <3>1 DEF Status
      <4> QED BY <4>1, <3>1, OneFails
    <3> QED BY <3>2 DEF Service!Next
  (* A lost reply is either of the two: still waiting, or failed.           *)
  <2>6. CASE AcquireReplyLost(r)
    <3>1. CASE Goto(r, "acquire", "poll")
      BY <2>6, <3>1 DEF AcquireReplyLost, Service!vars, Status
    <3>2. CASE Goto(r, "acquire", "failed")
      <4>1. /\ Status(r) = "open" /\ Status(r)' = "failed"
            /\ \A s \in Requests \ {r} : Status(s)' = Status(s)
        BY <3>2 DEF Status
      <4>2. Service!Fail
        BY <2>6, <4>1, OneFails DEF AcquireReplyLost
      <4> QED BY <4>2 DEF Service!Next
    <3> QED BY <2>6, <3>1, <3>2 DEF AcquireReplyLost
  <2> QED
    BY <1>1, <2>1, <2>2, <2>3, <2>4, <2>5, <2>6 DEF RequestStep
<1>2. ASSUME NEW w \in Workers, Crash(w) PROVE Service!Next \/ UNCHANGED Service!vars
  <2> DEFINE dying == {r \in Requests : pc[r] # pc'[r]}
  <2>1. \A r \in Requests : r \in dying =>
           pc[r] \notin {"done", "rejected", "failed", "killed"} /\ pc'[r] = "killed"
    BY <1>2 DEF Crash, Ended, Stopped
  <2>2. UNCHANGED <<answer, composed>>
    BY <1>2 DEF Crash
  <2>3. Service!Fail
    <3>1. dying \in SUBSET Requests
      OBVIOUS
    <3>2. \A r \in dying : Status(r) = "open" /\ Status(r)' = "failed"
      BY <2>1 DEF Status
    <3>3. \A r \in Requests \ dying : Status(r)' = Status(r)
      BY DEF Status
    <3> HIDE DEF dying
    <3> QED BY <3>1, <3>2, <3>3, <2>2, FailingStep
  <2> QED BY <2>3 DEF Service!Next
<1>3. ASSUME NEW k \in Keys, LockExpires(k) PROVE Service!Next \/ UNCHANGED Service!vars
  BY <1>3 DEF LockExpires, Service!vars, Status
<1>4. ASSUME NEW k \in Keys, ImageExpires(k) PROVE Service!Next \/ UNCHANGED Service!vars
  BY <1>4 DEF ImageExpires, Service!vars, Status
<1>5. CASE UNCHANGED vars
  BY <1>5 DEF vars, Service!vars, Status
<1> QED BY <1>1, <1>2, <1>3, <1>4, <1>5, StepCases

(* render_pipeline implements ImageService: whatever Redis loses and       *)
(* whoever dies, a request is answered at most once, with a finished       *)
(* composition of its matchup at its worker's render version.              *)
THEOREM PipelineImplementsService == Spec => ImplementsService
<1>1. Init => Service!Init
  BY DEF Init, Service!Init, Status
<1> QED
  BY <1>1, StepImplementsService, ImageInvariant, PTL DEF Spec, ImplementsService, Service!Spec
-----------------------------------------------------------------------------
(* Answered once, cached until the image leaves: without "evict", a request*)
(* that has its image through the cache's doors left the image of its key  *)
(* in Redis, or found it there; only a failed command of its own excuses it. *)
Served ==
    \A r \in Requests :
        CacheEnabled[WorkerOf[r]] =>
            /\ pc[r] # "bypass"
            /\ pc[r] = "release" \/ (pc[r] = "done" /\ r \notin struck)
                 => rendered[RenderKey(r)] # None

ServedInv == ImageInv /\ Served

LEMMA ServedInvInductive ==
    ASSUME "evict" \notin Faults, ServedInv, [Next]_vars
    PROVE  ServedInv'
<1>1. ImageInv'
  BY ImageInvInductive DEF ServedInv
<1>2. Served'
  <2> USE PipelineAssumption, KeyInKeys
      DEF ServedInv, ImageInv, TypeOK, Served, resultVars, redisVars, ghostVars
  <2>1. ASSUME NEW r \in Requests, RequestStep(r) PROVE Served'
    <3> USE DEF Goto, Return
    <3>1. CASE RejectUnknown(r) \/ Enter(r) \/ ComposeBypass(r)
      BY <3>1 DEF RejectUnknown, Enter, ComposeBypass
    <3>2. CASE LookupHit(r) \/ LookupMiss(r) \/ PollHit(r) \/ PollMiss(r) \/ PollsOver(r)
      BY <3>2 DEF LookupHit, LookupMiss, PollHit, PollMiss, PollsOver
    <3>3. CASE AcquireWon(r) \/ AcquireTaken(r) \/ AcquireReplyLost(r)
      BY <3>3 DEF AcquireWon, AcquireTaken, AcquireReplyLost, SetLockNX
    <3>4. CASE Compose(r) \/ ComposeFails(r) \/ ComposeDegraded(r)
      BY <3>4 DEF Compose, ComposeFails, ComposeDegraded
    (* The steps that write an image only ever replace one.                 *)
    <3>5. CASE Store(r) \/ StoreFails(r) \/ Backfill(r) \/ BackfillFails(r)
      BY <3>5 DEF Store, StoreFails, Backfill, BackfillFails, SetRendered
    <3>6. CASE Release(r) \/ Unwind(r) \/ ReleaseFails(r)
      BY <3>6 DEF Release, Unwind, ReleaseFails
    <3>7. CASE CommandFails(r) \/ UnlockedComposeFails(r)
      BY <3>7 DEF CommandFails, UnlockedComposeFails
    <3> QED BY <2>1, <3>1, <3>2, <3>3, <3>4, <3>5, <3>6, <3>7 DEF RequestStep
  <2>2. ASSUME NEW w \in Workers, Crash(w) PROVE Served'
    BY <2>2 DEF Crash
  <2>3. ASSUME NEW k \in Keys, LockExpires(k) PROVE Served'
    BY <2>3 DEF LockExpires
  <2>4. ASSUME NEW k \in Keys, ImageExpires(k) PROVE Served'
    BY <2>4 DEF ImageExpires
  <2>5. CASE UNCHANGED vars
    BY <2>5 DEF vars
  <2> QED BY <2>1, <2>2, <2>3, <2>4, <2>5, StepCases
<1> QED BY <1>1, <1>2 DEF ServedInv

(* A request that finds the image in place, from its arrival on: it can    *)
(* only hit, fail, or die.                                                 *)
FindsImage(s) ==
    /\ CacheEnabled[WorkerOf[s]]
    /\ rendered[RenderKey(s)] # None
    /\ pc[s] \in Stopped \cup {"arrive", "lookup"}
    /\ s \notin composed

LEMMA FindsImageInductive ==
    ASSUME "evict" \notin Faults, NEW s \in Requests,
           TypeOK, FindsImage(s), [Next]_vars
    PROVE  FindsImage(s)'
<1> USE PipelineAssumption, KeyInKeys
    DEF TypeOK, FindsImage, Stopped, resultVars, redisVars, ghostVars
<1>1. ASSUME NEW r \in Requests, RequestStep(r) PROVE FindsImage(s)'
  <2> USE DEF Goto, Return
  <2>1. CASE RejectUnknown(r) \/ Enter(r) \/ ComposeBypass(r)
    BY <2>1 DEF RejectUnknown, Enter, ComposeBypass
  <2>2. CASE LookupHit(r) \/ LookupMiss(r) \/ PollHit(r) \/ PollMiss(r) \/ PollsOver(r)
    BY <2>2 DEF LookupHit, LookupMiss, PollHit, PollMiss, PollsOver
  <2>3. CASE AcquireWon(r) \/ AcquireTaken(r) \/ AcquireReplyLost(r)
    BY <2>3 DEF AcquireWon, AcquireTaken, AcquireReplyLost, SetLockNX
  <2>4. CASE Compose(r) \/ ComposeFails(r) \/ ComposeDegraded(r)
    BY <2>4 DEF Compose, ComposeFails, ComposeDegraded
  <2>5. CASE Store(r) \/ StoreFails(r) \/ Backfill(r) \/ BackfillFails(r)
    BY <2>5 DEF Store, StoreFails, Backfill, BackfillFails, SetRendered
  <2>6. CASE Release(r) \/ Unwind(r) \/ ReleaseFails(r)
    BY <2>6 DEF Release, Unwind, ReleaseFails
  <2>7. CASE CommandFails(r) \/ UnlockedComposeFails(r)
    BY <2>7 DEF CommandFails, UnlockedComposeFails
  <2> QED BY <1>1, <2>1, <2>2, <2>3, <2>4, <2>5, <2>6, <2>7 DEF RequestStep
<1>2. ASSUME NEW w \in Workers, Crash(w) PROVE FindsImage(s)'
  BY <1>2 DEF Crash
<1>3. ASSUME NEW k \in Keys, LockExpires(k) PROVE FindsImage(s)'
  BY <1>3 DEF LockExpires
<1>4. ASSUME NEW k \in Keys, ImageExpires(k) PROVE FindsImage(s)'
  BY <1>4 DEF ImageExpires
<1>5. CASE UNCHANGED vars
  BY <1>5 DEF vars
<1> QED BY <1>1, <1>2, <1>3, <1>4, <1>5, StepCases

(* As long as no image leaves Redis (its TTL, or the flush of a seed run), *)
(* a picture somebody has been given is not composed for anybody who comes *)
(* later: whichever of the five ways out the first request took, and       *)
(* through locks that end early, dead workers and failed commands.         *)
THEOREM AnsweredOnceComposedOnce ==
    ASSUME "evict" \notin Faults
    PROVE  Spec => AnsweredIsNotComposedAgain
<1> SUFFICES ASSUME NEW r \in Requests, NEW s \in Requests, SharePicture(r, s)
             PROVE  Spec => [](pc[r] = "done" /\ r \notin struck /\ pc[s] = "arrive"
                                 => [](s \notin composed))
  BY DEF AnsweredIsNotComposedAgain
<1>1. Init => ServedInv
  BY PipelineAssumption, TypeInit, KeyInKeys
  DEF ServedInv, Served, ImageInv, Init, CachedImageIsComposed, NotComposedYet
<1>2. ServedInv /\ [Next]_vars => ServedInv'
  BY ServedInvInductive
<1>3. ServedInv /\ FindsImage(s) /\ [Next]_vars => FindsImage(s)'
  BY FindsImageInductive DEF ServedInv, ImageInv
<1>4. ServedInv /\ pc[r] = "done" /\ r \notin struck /\ pc[s] = "arrive" => FindsImage(s)
  BY DEF ServedInv, Served, ImageInv, NotComposedYet, YetToCompose, FindsImage,
         SharePicture, RenderKey
<1>5. FindsImage(s) => s \notin composed
  BY DEF FindsImage
<1> QED BY <1>1, <1>2, <1>3, <1>4, <1>5, PTL DEF Spec
=============================================================================
