--------------------------- MODULE WebWorkerProofs ---------------------------
(***************************************************************************)
(* Theorems about WebWorker, for any requests (infinitely many, if need    *)
(* be), any pool and any native sizes and widths.                          *)
(***************************************************************************)
EXTENDS WebWorker, FiniteSetTheorems, TLAPS

ResolverStages == {"league", "away", "home"}

(* Who has a connection: whoever is querying, exactly one.                 *)
HoldersQuery ==
    \A r \in Requests :
        IF at[r] = "querying" THEN \E k \in Conns : Holds(r) = {k} ELSE Holds(r) = {}

(* What is known of an image request at each place and stage.              *)
ImagesAreStaged ==
    \A r \in Images :
        /\ at[r] # "probing"
        /\ at[r] = "new" => stage[r] = "league"
        /\ at[r] \in {"queueing", "querying"} => stage[r] # "transform"
        /\ stage[r] # "league" => context[r].league = "canonical"
        /\ context[r].tier <=> stage[r] = "transform"
        /\ Ended(r) => IF stage[r] = "transform" THEN reply[r] \in {"200", "400", "500"}
                       ELSE reply[r] # "200"

(* The images behind each count.  A request goes through its stages once   *)
(* and keeps the last one, so each set only grows.                         *)
Past(s) == {r \in Images : stage[r] \notin s}
Missed == {r \in Images : Ended(r) /\ reply[r] = "404" /\ stage[r] \in {"away", "home"}}
RenderedImages == {r \in Images : stage[r] = "transform"}

CountsAreOfImages ==
    /\ IsFiniteSet(Past({"league"}))
    /\ total = Cardinality(Past({"league"})) + Cardinality(Past({"league", "away"}))
    /\ misses = Cardinality(Missed)
    /\ renders = Cardinality(RenderedImages)

WorkerInv == TypeOK /\ HoldersQuery /\ ImagesAreStaged /\ CountsAreOfImages

-----------------------------------------------------------------------------
(* Sizes, whatever the native size and the width.                          *)

(* Quotient and remainder, which the solver has no rules for.              *)
LEMMA Division ==
    ASSUME NEW a \in Nat, NEW b \in Nat \ {0}
    PROVE  /\ a \div b \in Nat /\ a % b \in 0..(b - 1)
           /\ a = b * (a \div b) + (a % b)
OBVIOUS

LEMMA Product ==
    ASSUME NEW a \in Nat, NEW b \in Nat
    PROVE  /\ a * b \in Nat /\ a * b = b * a
           /\ \A c \in Nat : b <= c => a * b <= a * c
OBVIOUS

(* A height h scaled from width W and height H down to width w is a floor, *)
(* or one less where there is nothing to round.                            *)
LEMMA ScaledHeight ==
    ASSUME NEW W \in Nat \ {0}, NEW H \in Nat \ {0}, NEW w \in Nat \ {0}, w < W,
           NEW q \in Nat, NEW m \in 0..(W - 1), H * w = W * q + m,
           NEW h, h = q \/ (h = q - 1 /\ m = 0)
    PROVE  /\ h <= H /\ H * w - W * h \in 0..(2 * W)
           /\ h \in Nat /\ (h = 0 => H * w <= W)
<1> DEFINE a == H * w
<1>1. a \in Nat /\ a <= W * H
  BY Product
<1>2. q \in Nat /\ m \in 0..(W - 1) /\ a = W * q + m
  OBVIOUS
<1> HIDE DEF a
<1>4. q <= H
  <2> SUFFICES ASSUME H + 1 <= q PROVE FALSE
    BY <1>2
  <2>1. W * (H + 1) <= W * q /\ W * q \in Nat /\ W * H \in Nat
    BY <1>2, Product
  <2>2. W * (H + 1) = W * H + W
    OBVIOUS
  <2> QED BY <1>1, <1>2, <2>1, <2>2
<1>5. CASE h = q
  BY <1>1, <1>2, <1>4, <1>5, Product DEF a
<1>6. CASE h = q - 1 /\ m = 0
  <2>1. W * h = W * q - W /\ W * q \in Nat
    BY <1>2, <1>6, Product
  <2> QED BY <1>1, <1>2, <1>4, <1>6, <2>1 DEF a
<1> QED BY <1>5, <1>6

(* A size is never larger than the native one, and in proportion but for   *)
(* rounding.                                                               *)
LEMMA SizesFit ==
    ASSUME NEW n \in Native, NEW w \in Widths, NEW s, s = SizeOf(n, w)
    PROVE  /\ s.w <= n.w /\ s.h <= n.h
           /\ n.h * s.w - n.w * s.h \in 0..(2 * n.w)
           /\ s.h = 0 => n.h * w <= n.w
<1>1. n.w \in Nat \ {0} /\ n.h \in Nat \ {0}
  BY WorkerAssumption
<1>2. CASE w = None \/ w >= n.w
  BY <1>1, <1>2 DEF SizeOf
<1>3. CASE ~(w = None \/ w >= n.w)
  <2>1. w \in Nat \ {0} /\ w < n.w
    BY <1>1, <1>3, WorkerAssumption
  <2> DEFINE h == TargetHeight(n, w)
  <2>2. s = [w |-> w, h |-> h]
    BY <1>3 DEF SizeOf
  <2> DEFINE q == (n.h * w) \div n.w
             m == (n.h * w) % n.w
  <2>a. h = q \/ (h = q - 1 /\ m = 0)
    BY <1>3, <2>1, WorkerAssumption DEF TargetHeight
  <2>b. n.h * w \in Nat
    BY <1>1, <2>1, Product
  <2>3. q \in Nat /\ m \in 0..(n.w - 1) /\ n.h * w = n.w * q + m
    BY ONLY <1>1, <2>b, Division
  <2> HIDE DEF h, q, m
  <2>4. /\ h <= n.h /\ n.h * w - n.w * h \in 0..(2 * n.w)
        /\ h = 0 => n.h * w <= n.w
    BY <1>1, <2>1, <2>a, <2>3, ScaledHeight
  <2>5. s.w = w /\ s.h = h
    BY <2>2
  <2> QED BY <1>1, <2>1, <2>4, <2>5
<1> QED BY <1>2, <1>3

-----------------------------------------------------------------------------
(* What a step may do to the requests, their log context and the counters. *)

Ground == UNCHANGED <<at, stage, queries, reply, context, counters>>

Begins(r) ==
    /\ r \in Images /\ at[r] = "new" /\ Goto(r, "thinking")
    /\ context' = [context EXCEPT ![r] = [league |-> "raw", tier |-> FALSE]]
    /\ UNCHANGED <<stage, queries, reply, counters>>

(* From one await to the next.                                             *)
Waits(r, place) ==
    /\ ~Ended(r) /\ Goto(r, place)
    /\ place = "probing" => r \notin Images
    /\ place \in {"queueing", "querying"} /\ r \in Images => stage[r] # "transform"
    /\ place = "thinking" => r \in Images
    /\ r \in Images => at[r] # "new"
    /\ queries' \in [Images -> 0..MaxQueries]
    /\ UNCHANGED <<stage, reply, context, counters>>

Finds(r) ==
    /\ r \in Images /\ at[r] \in {"thinking", "querying"}
    /\ stage[r] \in ResolverStages /\ EnterStage(r, StageAfter(stage[r]))
    /\ CountResolution(r)
    /\ context' = IF stage[r] = "league"
                  THEN [context EXCEPT ![r].league = "canonical"] ELSE context
    /\ UNCHANGED <<reply, misses, renders>>

Misses(r) ==
    /\ r \in Images /\ at[r] \in {"thinking", "querying"}
    /\ stage[r] \in {"away", "home"} /\ NotFound(r)

Renders(r) ==
    /\ r \in Images /\ ~Ended(r)
    /\ stage[r] = "render" /\ Rendered(r)

(* An answer that counts nothing.                                          *)
Answers(r, status) ==
    /\ r \in Requests /\ ~Ended(r) /\ Respond(r, status) /\ status \in Replies
    /\ r \in Images =>
          /\ at[r] # "new"
          /\ IF stage[r] = "transform" THEN status \in {"200", "400", "500"}
             ELSE status # "200"
          /\ stage[r] \in {"away", "home"} => status # "404"
    /\ UNCHANGED <<stage, queries, context, counters>>

Moves ==
    \/ Ground
    \/ \E r \in Images : Begins(r) \/ Finds(r) \/ Misses(r) \/ Renders(r)
    \/ \E r \in Requests, place \in {"thinking", "queueing", "querying", "probing"} :
          Waits(r, place)
    \/ \E r \in Requests, status \in Replies : Answers(r, status)

(* What follows a failed or a missing connection.                          *)
LEMMA FailureMoves ==
    ASSUME TypeOK, ImagesAreStaged, NEW r \in Requests, at[r] \in {"queueing", "querying"},
           Fails(r)
    PROVE  Moves
<1> USE DEF requestVars, counters
<1>1. ASSUME Raise(r), r \in Listings \cup Images PROVE Answers(r, "500")
  BY <1>1 DEF Raise, Answers, Ended, Replies
<1>2. ASSUME Rendered(r), r \in Images, stage[r] = "render" PROVE Renders(r)
  BY <1>2 DEF Renders, Ended
<1>3. ASSUME r \in Probes, Goto(r, "probing"), UNCHANGED <<stage, queries, reply, context, counters>>
      PROVE  Waits(r, "probing")
  BY <1>3, WorkerAssumption DEF Waits, Ended, TypeOK
<1> QED BY <1>1, <1>2, <1>3 DEF Fails, Moves, Replies, Requests

(* A found name, or an unusable one, a missing one.                        *)
LEMMA AnswerMoves ==
    ASSUME NEW r \in Images, at[r] \in {"thinking", "querying"},
           stage[r] \in ResolverStages, Found(r) \/ NotFound(r)
    PROVE  Moves
<1>1. CASE Found(r)
  BY <1>1 DEF Found, Moves, Finds, Answers, Requests, Ended, Replies, ResolverStages
<1>2. CASE NotFound(r) /\ stage[r] = "league"
  BY <1>2 DEF NotFound, Moves, Answers, Requests, Ended, Replies, counters
<1>3. CASE NotFound(r) /\ stage[r] # "league"
  BY <1>3 DEF Moves, Misses, ResolverStages
<1> QED BY <1>1, <1>2, <1>3

LEMMA MoveCases == TypeOK /\ ImagesAreStaged /\ [Next]_vars => Moves
<1> SUFFICES ASSUME TypeOK, ImagesAreStaged, [Next]_vars PROVE Moves
  OBVIOUS
<1> USE DEF requestVars, counters, servers, probeVars, Requests, Replies, Ended
<1>1. ASSUME NEW r \in Images, ImageStep(r) PROVE Moves
  <2>1. CASE BeginImage(r)
    BY <2>1 DEF BeginImage, Begins, Moves
  <2>2. CASE SettledByRedis(r)
    <3>1. CASE stage[r] \in ResolverStages
      BY <2>2, <3>1, AnswerMoves DEF SettledByRedis, ResolverStages
    <3>2. CASE stage[r] = "render" /\ Rendered(r)
      BY <2>2, <3>2 DEF SettledByRedis, Renders, Moves
    <3> QED BY <2>2, <3>1, <3>2 DEF SettledByRedis, ResolverStages
  <2>3. CASE NoGenerator(r)
    <3>1. Answers(r, "400")
      BY <2>3 DEF NoGenerator, Answers
    <3> QED BY <3>1 DEF Moves
  <2>4. CASE AskPool(r)
    <3>1. queries' \in [Images -> 0..MaxQueries]
      BY <2>4, WorkerAssumption DEF AskPool, TypeOK
    <3>2. Waits(r, "queueing")
      BY <2>4, <3>1 DEF AskPool, Waits
    <3> QED BY <3>2 DEF Moves
  <2>5. CASE RedisRaises(r) \/ RenderRaises(r)
    <3>1. Answers(r, "500")
      BY <2>5 DEF RedisRaises, RenderRaises, Raise, Answers
    <3> QED BY <3>1 DEF Moves
  <2>6. CASE Transform(r)
    <3>1. PICK status \in {"200", "400", "500"} : Respond(r, status)
      BY <2>6 DEF Transform
    <3>2. Answers(r, status)
      BY <2>6, <3>1 DEF Transform, Answers
    <3> QED BY <3>2 DEF Moves
  <2> QED BY <1>1, <2>1, <2>2, <2>3, <2>4, <2>5, <2>6 DEF ImageStep
<1>2. ASSUME NEW r \in Listings \cup Probes, BeginOther(r) PROVE Moves
  <2>1. Waits(r, "queueing")
    BY <1>2, WorkerAssumption DEF BeginOther, Waits, TypeOK
  <2> QED BY <2>1 DEF Moves
<1>3. ASSUME NEW r \in Probes, ProbeStep(r) PROVE Moves
  <2>1. CASE PingAnswers(r) \/ PingTimeout(r)
    BY <2>1 DEF PingAnswers, PingTimeout, Moves, Ground
  <2>2. CASE ProbeReplies(r)
    <3>1. PICK status \in {"200", "503"} : Respond(r, status)
      BY <2>2 DEF ProbeReplies
    <3>2. Answers(r, status)
      BY <2>2, <3>1, WorkerAssumption DEF ProbeReplies, Answers
    <3> QED BY <3>2 DEF Moves
  <2> QED BY <1>3, <2>1, <2>2 DEF ProbeStep
<1>4. ASSUME NEW r \in Requests, CheckOut(r) PROVE Moves
  <2>1. Waits(r, "querying")
    BY <1>4 DEF CheckOut, Waits, TypeOK, ImagesAreStaged
  <2> QED BY <2>1 DEF Moves
<1>5. ASSUME NEW r \in Requests, QueryReturns(r) PROVE Moves
  <2>1. CASE r \in Images /\ AfterQuery(r)
    <3>1. CASE stage[r] = "render"
      BY <1>5, <2>1, <3>1 DEF QueryReturns, AfterQuery, Renders, Moves
    <3>2. CASE stage[r] # "render" /\ (Found(r) \/ NotFound(r))
      <4>1. stage[r] \in ResolverStages /\ at[r] = "querying"
        BY <1>5, <2>1, <3>2 DEF QueryReturns, TypeOK, ImagesAreStaged, Stages, ResolverStages
      <4> QED BY <2>1, <3>2, <4>1, AnswerMoves
    <3>3. CASE Goto(r, "thinking") /\ UNCHANGED <<stage, queries, reply, context, counters>>
      <4>1. Waits(r, "thinking")
        BY <1>5, <2>1, <3>3 DEF QueryReturns, Waits, TypeOK
      <4> QED BY <4>1 DEF Moves
    <3> QED BY <2>1, <3>1, <3>2, <3>3 DEF AfterQuery
  <2>2. CASE r \in Listings /\ (Respond(r, "200") \/ Respond(r, "404"))
             /\ UNCHANGED <<stage, queries, context, counters>>
    <3>1. Answers(r, "200") \/ Answers(r, "404")
      BY <1>5, <2>2, WorkerAssumption DEF QueryReturns, Answers
    <3> QED BY <3>1 DEF Moves
  <2>3. CASE r \in Probes /\ Goto(r, "probing")
             /\ UNCHANGED <<stage, queries, reply, context, counters>>
    <3>1. Waits(r, "probing")
      BY <1>5, <2>3, WorkerAssumption DEF QueryReturns, Waits, TypeOK
    <3> QED BY <3>1 DEF Moves
  <2> QED BY <1>5, <2>1, <2>2, <2>3 DEF QueryReturns
<1>6. ASSUME NEW r \in Requests, QueryFails(r) \/ PoolTimeout(r) PROVE Moves
  BY <1>6, FailureMoves DEF QueryFails, PoolTimeout
<1>7. CASE ServerChanges \/ UNCHANGED vars
  BY <1>7 DEF ServerChanges, vars, Moves, Ground
<1> QED BY <1>1, <1>2, <1>3, <1>4, <1>5, <1>6, <1>7 DEF Next, PoolStep, AllEnded

-----------------------------------------------------------------------------
(* Types.                                                                  *)

RequestsTyped ==
    /\ at \in [Requests -> {"new", "thinking", "queueing", "querying", "probing", "ended"}]
    /\ stage \in [Images -> Stages]
    /\ queries \in [Images -> 0..MaxQueries]
    /\ reply \in [Requests -> Replies \cup {None}]
    /\ context \in [Requests -> [league : {"unbound", "raw", "canonical"}, tier : BOOLEAN]]
    /\ {total, misses, renders} \subseteq Nat
PoolTyped ==
    /\ ping \in [Probes -> {"wait", "ok", "bad"}]
    /\ select1 \in [Probes -> {"wait", "ok", "bad"}]
    /\ holder \in [Conns -> Requests \cup {None}]
    /\ {pg, redis} \subseteq Conditions

LEMMA TypeParts == TypeOK <=> RequestsTyped /\ PoolTyped
BY DEF TypeOK, RequestsTyped, PoolTyped

LEMMA RequestTypes == RequestsTyped /\ Moves => RequestsTyped'
<1> SUFFICES ASSUME RequestsTyped, Moves PROVE RequestsTyped'
  OBVIOUS
<1> USE WorkerAssumption DEF RequestsTyped, counters
<1>1. CASE Ground
  BY <1>1 DEF Ground
<1>2. ASSUME NEW r \in Images, Begins(r) PROVE RequestsTyped'
  BY <1>2 DEF Begins, Goto, Requests
<1>3. ASSUME NEW r \in Images, Finds(r) PROVE RequestsTyped'
  <2>1. StageAfter(stage[r]) \in Stages
    BY <1>3 DEF Finds, StageAfter, ResolverStages, Stages
  <2>2. context' \in [Requests -> [league : {"unbound", "raw", "canonical"}, tier : BOOLEAN]]
    BY <1>3 DEF Finds, Requests
  <2>3. total' \in Nat
    BY <1>3 DEF Finds, CountResolution
  <2> QED BY <1>3, <2>1, <2>2, <2>3 DEF Finds, EnterStage, Goto, Requests
<1>4. ASSUME NEW r \in Images, Misses(r) PROVE RequestsTyped'
  BY <1>4 DEF Misses, NotFound, Respond, Goto, Requests, Replies
<1>5. ASSUME NEW r \in Images, Renders(r) PROVE RequestsTyped'
  <2>1. context' \in [Requests -> [league : {"unbound", "raw", "canonical"}, tier : BOOLEAN]]
    BY <1>5 DEF Renders, Rendered, Requests
  <2> QED BY <1>5, <2>1 DEF Renders, Rendered, EnterStage, Goto, Requests, Stages
<1>6. ASSUME NEW r \in Requests, NEW place \in {"thinking", "queueing", "querying", "probing"},
             Waits(r, place)
      PROVE  RequestsTyped'
  BY <1>6 DEF Waits, Goto
<1>7. ASSUME NEW r \in Requests, NEW status \in Replies, Answers(r, status)
      PROVE  RequestsTyped'
  BY <1>7 DEF Answers, Respond, Goto
<1> QED BY <1>1, <1>2, <1>3, <1>4, <1>5, <1>6, <1>7 DEF Moves

LEMMA PoolTypes == PoolTyped /\ [Next]_vars => PoolTyped'
<1> SUFFICES ASSUME PoolTyped, [Next]_vars PROVE PoolTyped'
  OBVIOUS
<1> USE DEF PoolTyped, probeVars, servers
<1>1. ASSUME NEW r \in Images, ImageStep(r) PROVE PoolTyped'
  BY <1>1 DEF ImageStep, BeginImage, SettledByRedis, NoGenerator, AskPool, RedisRaises,
              RenderRaises, Transform
<1>2. ASSUME NEW r \in Listings \cup Probes, BeginOther(r) PROVE PoolTyped'
  BY <1>2 DEF BeginOther
<1>3. ASSUME NEW r \in Probes, ProbeStep(r) PROVE PoolTyped'
  BY <1>3 DEF ProbeStep, PingAnswers, PingTimeout, ProbeReplies
<1>4. ASSUME NEW r \in Requests, CheckOut(r) PROVE PoolTyped'
  BY <1>4 DEF CheckOut
<1>5. ASSUME NEW r \in Requests, QueryReturns(r) PROVE PoolTyped'
  <2>1. select1' \in [Probes -> {"wait", "ok", "bad"}]
    BY <1>5 DEF QueryReturns
  <2> QED BY <1>5, <2>1 DEF QueryReturns, CheckIn
<1>6. ASSUME NEW r \in Requests, Fails(r) PROVE select1' \in [Probes -> {"wait", "ok", "bad"}]
  BY <1>6 DEF Fails
<1>7. ASSUME NEW r \in Requests, QueryFails(r) PROVE PoolTyped'
  BY <1>6, <1>7 DEF QueryFails, CheckIn
<1>8. ASSUME NEW r \in Requests, PoolTimeout(r) PROVE PoolTyped'
  BY <1>6, <1>8 DEF PoolTimeout
<1>9. CASE ServerChanges
  BY <1>9 DEF ServerChanges
<1>10. CASE UNCHANGED vars
  BY <1>10 DEF vars
<1> QED BY <1>1, <1>2, <1>3, <1>4, <1>5, <1>7, <1>8, <1>9, <1>10
        DEF Next, PoolStep, AllEnded

-----------------------------------------------------------------------------
(* Stages.                                                                 *)
LEMMA StagesStep == RequestsTyped /\ ImagesAreStaged /\ Moves => ImagesAreStaged'
<1> SUFFICES ASSUME RequestsTyped, ImagesAreStaged, Moves PROVE ImagesAreStaged'
  OBVIOUS
<1> USE DEF RequestsTyped, ImagesAreStaged, Ended, Goto, Requests, counters
<1>1. CASE Ground
  BY <1>1 DEF Ground
<1>2. ASSUME NEW r \in Images, Begins(r) PROVE ImagesAreStaged'
  BY <1>2 DEF Begins
<1>3. ASSUME NEW r \in Images, Finds(r) PROVE ImagesAreStaged'
  <2>1. StageAfter(stage[r]) \in {"away", "home", "render"}
    BY <1>3 DEF Finds, StageAfter, ResolverStages
  <2>2. /\ context'[r].league = "canonical" /\ context'[r].tier = context[r].tier
        /\ ~context[r].tier
        /\ \A q \in Images \ {r} : context'[q] = context[q]
    BY <1>3 DEF Finds, ResolverStages
  <2>3. /\ at' = [at EXCEPT ![r] = "thinking"]
        /\ stage' = [stage EXCEPT ![r] = StageAfter(stage[r])] /\ reply' = reply
    BY <1>3 DEF Finds, EnterStage
  <2> QED BY <2>1, <2>2, <2>3
<1>4. ASSUME NEW r \in Images, Misses(r) PROVE ImagesAreStaged'
  BY <1>4 DEF Misses, NotFound, Respond
<1>5. ASSUME NEW r \in Images, Renders(r) PROVE ImagesAreStaged'
  <2>1. /\ context'[r].league = "canonical" /\ context'[r].tier
        /\ \A q \in Images \ {r} : context'[q] = context[q]
    BY <1>5 DEF Renders, Rendered
  <2>2. /\ at' = [at EXCEPT ![r] = "thinking"]
        /\ stage' = [stage EXCEPT ![r] = "transform"] /\ reply' = reply
    BY <1>5 DEF Renders, Rendered, EnterStage
  <2> QED BY <2>1, <2>2
<1>6. ASSUME NEW r \in Requests, NEW place \in {"thinking", "queueing", "querying", "probing"},
             Waits(r, place)
      PROVE  ImagesAreStaged'
  BY <1>6 DEF Waits
<1>7. ASSUME NEW r \in Requests, NEW status \in Replies, Answers(r, status)
      PROVE  ImagesAreStaged'
  BY <1>7 DEF Answers, Respond
<1> QED BY <1>1, <1>2, <1>3, <1>4, <1>5, <1>6, <1>7 DEF Moves

-----------------------------------------------------------------------------
(* Counts.                                                                 *)

(* A set of images that a step leaves alone, or that gains one.            *)
Gains(S, T, r) == r \notin S /\ T = S \cup {r}

(* A counter of requests gains one when one more is in its set.            *)
LEMMA GainsOne ==
    ASSUME NEW S, IsFiniteSet(S), NEW T, NEW r, Gains(S, T, r)
    PROVE  IsFiniteSet(T) /\ Cardinality(T) = Cardinality(S) + 1
BY FS_AddElement DEF Gains

(* The other sets are part of the first, so as finite as it is.            *)
LEMMA CountedAreFinite ==
    ASSUME IsFiniteSet(Past({"league"}))
    PROVE  /\ IsFiniteSet(Past({"league", "away"})) /\ IsFiniteSet(Missed)
           /\ IsFiniteSet(RenderedImages)
<1>1. /\ Past({"league", "away"}) \subseteq Past({"league"})
      /\ Missed \subseteq Past({"league"}) /\ RenderedImages \subseteq Past({"league"})
  BY DEF Past, Missed, RenderedImages
<1> QED BY <1>1, FS_Subset

(* Every step keeps the counters equal to what they count.                 *)
LEMMA CountsStep ==
    ASSUME RequestsTyped, CountsAreOfImages, Moves
    PROVE  CountsAreOfImages'
<1> DEFINE P1 == Past({"league"})
           P2 == Past({"league", "away"})
<1>0. /\ IsFiniteSet(P1) /\ IsFiniteSet(P2) /\ IsFiniteSet(Missed) /\ IsFiniteSet(RenderedImages)
      /\ Cardinality(P1) \in Nat /\ Cardinality(P2) \in Nat
      /\ total = Cardinality(P1) + Cardinality(P2)
      /\ misses = Cardinality(Missed) /\ renders = Cardinality(RenderedImages)
  BY CountedAreFinite, FS_CardinalityType DEF CountsAreOfImages
<1> USE DEF RequestsTyped, Goto, Requests, counters
<1>1. ASSUME UNCHANGED <<P1, P2, Missed, RenderedImages, counters>> PROVE CountsAreOfImages'
  BY <1>0, <1>1 DEF CountsAreOfImages
<1>2. ASSUME UNCHANGED stage, UNCHANGED counters, Missed' = Missed PROVE CountsAreOfImages'
  BY <1>1, <1>2 DEF Past, RenderedImages
<1>3. CASE Ground
  BY <1>2, <1>3 DEF Ground, Missed, Ended
<1>4. ASSUME NEW r \in Images, Begins(r) PROVE CountsAreOfImages'
  <2>1. Missed' = Missed
    BY <1>4 DEF Begins, Missed, Ended
  <2> QED BY <1>2, <1>4, <2>1 DEF Begins
<1>5. ASSUME NEW r \in Images, Finds(r) PROVE CountsAreOfImages'
  <2>1. /\ at' = [at EXCEPT ![r] = "thinking"] /\ ~Ended(r) /\ reply' = reply
        /\ stage' = [stage EXCEPT ![r] = StageAfter(stage[r])]
        /\ UNCHANGED <<misses, renders>>
    BY <1>5 DEF Finds, EnterStage, Ended
  <2>2. StageAfter(stage[r]) # "transform" /\ stage[r] # "transform"
    BY <1>5 DEF Finds, StageAfter, ResolverStages
  <2>3. Missed' = Missed /\ RenderedImages' = RenderedImages
    BY <2>1, <2>2 DEF Missed, RenderedImages, Ended
  <2>4. CASE stage[r] = "league"
    <3>1. stage' = [stage EXCEPT ![r] = "away"] /\ total' = total + 1
      BY <1>5, <2>1, <2>4 DEF Finds, StageAfter, CountResolution
    <3>2. Gains(P1, P1', r) /\ P2' = P2
      BY <2>4, <3>1 DEF Past, Gains
    <3>3. IsFiniteSet(P1') /\ Cardinality(P1') = Cardinality(P1) + 1
      BY <1>0, <3>2, GainsOne
    <3> QED BY <1>0, <2>1, <2>3, <3>1, <3>2, <3>3 DEF CountsAreOfImages
  <2>5. CASE stage[r] = "away"
    <3>1. stage' = [stage EXCEPT ![r] = "home"] /\ total' = total + 1
      BY <1>5, <2>1, <2>5 DEF Finds, StageAfter, CountResolution
    <3>2. Gains(P2, P2', r) /\ P1' = P1
      BY <2>5, <3>1 DEF Past, Gains
    <3>3. Cardinality(P2') = Cardinality(P2) + 1
      BY <1>0, <3>2, GainsOne
    <3> QED BY <1>0, <2>1, <2>3, <3>1, <3>2, <3>3 DEF CountsAreOfImages
  <2>6. CASE stage[r] = "home"
    <3>1. stage' = [stage EXCEPT ![r] = "render"] /\ total' = total
      BY <1>5, <2>1, <2>6 DEF Finds, StageAfter, CountResolution
    <3>2. P1' = P1 /\ P2' = P2
      BY <2>6, <3>1 DEF Past
    <3> QED BY <1>1, <2>1, <2>3, <3>1, <3>2
  <2> QED BY <1>5, <2>4, <2>5, <2>6 DEF Finds, ResolverStages
<1>6. ASSUME NEW r \in Images, Misses(r) PROVE CountsAreOfImages'
  <2>1. /\ at' = [at EXCEPT ![r] = "ended"] /\ reply' = [reply EXCEPT ![r] = "404"]
        /\ ~Ended(r) /\ stage[r] \in {"away", "home"} /\ misses' = misses + 1
        /\ UNCHANGED <<stage, total, renders>>
    BY <1>6 DEF Misses, NotFound, Respond, Ended
  <2>2. Gains(Missed, Missed', r)
    BY <2>1 DEF Missed, Gains, Ended
  <2>3. Cardinality(Missed') = Cardinality(Missed) + 1
    BY <1>0, <2>2, GainsOne
  <2>4. P1' = P1 /\ P2' = P2 /\ RenderedImages' = RenderedImages
    BY <2>1 DEF Past, RenderedImages
  <2> QED BY <1>0, <2>1, <2>3, <2>4 DEF CountsAreOfImages
<1>7. ASSUME NEW r \in Images, Renders(r) PROVE CountsAreOfImages'
  <2>1. /\ at' = [at EXCEPT ![r] = "thinking"] /\ stage' = [stage EXCEPT ![r] = "transform"]
        /\ ~Ended(r) /\ stage[r] = "render" /\ renders' = renders + 1
        /\ UNCHANGED <<reply, total, misses>>
    BY <1>7 DEF Renders, Rendered, EnterStage
  <2>2. Gains(RenderedImages, RenderedImages', r)
    BY <2>1 DEF RenderedImages, Gains
  <2>3. Cardinality(RenderedImages') = Cardinality(RenderedImages) + 1
    BY <1>0, <2>2, GainsOne
  <2>4. P1' = P1 /\ P2' = P2 /\ Missed' = Missed
    BY <2>1 DEF Past, Missed, Ended
  <2> QED BY <1>0, <2>1, <2>3, <2>4 DEF CountsAreOfImages
<1>8. ASSUME NEW r \in Requests, NEW place \in {"thinking", "queueing", "querying", "probing"},
             Waits(r, place)
      PROVE  CountsAreOfImages'
  <2>1. Missed' = Missed
    BY <1>8 DEF Waits, Missed, Ended
  <2> QED BY <1>2, <1>8, <2>1 DEF Waits
<1>9. ASSUME NEW r \in Requests, NEW status \in Replies, Answers(r, status)
      PROVE  CountsAreOfImages'
  <2>1. Missed' = Missed
    BY <1>9 DEF Answers, Respond, Missed, Ended
  <2> QED BY <1>2, <1>9, <2>1 DEF Answers
<1> QED BY <1>3, <1>4, <1>5, <1>6, <1>7, <1>8, <1>9 DEF Moves

(* Two resolutions behind every render, and a third image behind a miss.   *)
LEMMA MissesAndRendersAreResolved == CountsAreOfImages => CountersAgree
<1> SUFFICES ASSUME CountsAreOfImages PROVE CountersAgree
  OBVIOUS
<1> DEFINE P1 == Past({"league"})
           P2 == Past({"league", "away"})
<1>0. /\ IsFiniteSet(P1) /\ IsFiniteSet(P2) /\ IsFiniteSet(Missed) /\ IsFiniteSet(RenderedImages)
      /\ total = Cardinality(P1) + Cardinality(P2)
      /\ misses = Cardinality(Missed) /\ renders = Cardinality(RenderedImages)
  BY CountedAreFinite DEF CountsAreOfImages
<1>1. RenderedImages \subseteq P2
  BY DEF Past, RenderedImages
<1>2. Missed \cup RenderedImages \subseteq P1 /\ Missed \cap RenderedImages = {}
  BY DEF Past, Missed, RenderedImages
<1>3. Cardinality(RenderedImages) <= Cardinality(P2)
  BY <1>0, <1>1, FS_Subset
<1>4. Cardinality(Missed \cup RenderedImages) <= Cardinality(P1)
  BY <1>0, <1>2, FS_Subset
<1>5. /\ Cardinality(P1) \in Nat /\ Cardinality(P2) \in Nat /\ Cardinality(Missed) \in Nat
      /\ Cardinality(RenderedImages) \in Nat
  BY <1>0, FS_CardinalityType
<1>6. Cardinality(Missed \cup RenderedImages) = Cardinality(Missed) + Cardinality(RenderedImages)
  <2>1. Cardinality(Missed \cap RenderedImages) = 0
    BY <1>2, FS_EmptySet
  <2>2. Cardinality(Missed \cup RenderedImages)
           = Cardinality(Missed) + Cardinality(RenderedImages) - Cardinality(Missed \cap RenderedImages)
    BY <1>0, FS_Union
  <2> QED BY <1>5, <2>1, <2>2
<1> HIDE DEF P1, P2
<1> QED BY <1>0, <1>3, <1>4, <1>5, <1>6 DEF CountersAgree

-----------------------------------------------------------------------------
(* Connections.                                                            *)

(* Where a request goes when it does not get a connection.                 *)
Leaves(r) == \E place \in {"thinking", "queueing", "probing", "ended"} : Goto(r, place)

(* A request that moves outside the pool leaves it as it is.               *)
LEMMA OutsideThePool ==
    ASSUME TypeOK, HoldersQuery, NEW r \in Requests, at[r] # "querying", Leaves(r),
           UNCHANGED holder
    PROVE  HoldersQuery'
<1>1. at'[r] # "querying" /\ \A q \in Requests \ {r} : at'[q] = at[q]
  BY DEF Leaves, Goto, TypeOK
<1>2. \A q : Holds(q)' = Holds(q)
  BY DEF Holds
<1> QED BY <1>1, <1>2 DEF HoldersQuery

(* A query is over, and the connection back.                               *)
LEMMA BackInThePool ==
    ASSUME TypeOK, HoldersQuery, NEW r \in Requests, at[r] = "querying", Leaves(r), CheckIn(r)
    PROVE  HoldersQuery'
<1>1. at'[r] # "querying" /\ \A q \in Requests \ {r} : at'[q] = at[q]
  BY DEF Leaves, Goto, TypeOK
<1>2. Holds(r)' = {} /\ \A q \in Requests \ {r} : Holds(q)' = Holds(q)
  BY WorkerAssumption DEF Holds, CheckIn
<1> QED BY <1>1, <1>2 DEF HoldersQuery

(* A free connection goes to one request that queues for it.               *)
LEMMA OutOfThePool ==
    ASSUME TypeOK, HoldersQuery, NEW r \in Requests, CheckOut(r)
    PROVE  HoldersQuery'
<1>1. PICK k \in Conns :
         holder[k] = None /\ holder' = [holder EXCEPT ![k] = r]
  BY DEF CheckOut
<1>2. at[r] = "queueing" /\ at' = [at EXCEPT ![r] = "querying"]
  BY DEF CheckOut, Goto
<1>3. Holds(r) = {} /\ None \notin Requests
  BY <1>2, WorkerAssumption DEF HoldersQuery
<1>4. Holds(r)' = {k}
  BY <1>1, <1>3 DEF Holds, TypeOK
<1>5. \A q \in Requests \ {r} : Holds(q)' = Holds(q)
  BY <1>1, <1>3 DEF Holds, TypeOK
<1> QED BY <1>2, <1>4, <1>5 DEF HoldersQuery, TypeOK

(* Where each step of a request leads.                                     *)
LEMMA StagesLeadOn ==
    ASSUME TypeOK, NEW r \in Requests,
           \/ r \in Images /\ (Found(r) \/ NotFound(r) \/ Rendered(r))
           \/ Raise(r)
           \/ \E place \in {"thinking", "queueing", "probing"} : Goto(r, place)
           \/ \E status : Respond(r, status)
    PROVE  Leaves(r)
BY DEF Found, NotFound, Rendered, Raise, Respond, EnterStage, Leaves

LEMMA PoolStepKeeps == TypeOK /\ ImagesAreStaged /\ HoldersQuery /\ [Next]_vars => HoldersQuery'
<1> SUFFICES ASSUME TypeOK, ImagesAreStaged, HoldersQuery, [Next]_vars PROVE HoldersQuery'
  OBVIOUS
<1> USE DEF requestVars, counters, servers, probeVars
<1>1. ASSUME NEW r \in Images, ImageStep(r) PROVE HoldersQuery'
  <2>1. Leaves(r)
    BY <1>1, StagesLeadOn DEF ImageStep, BeginImage, SettledByRedis, NoGenerator, AskPool,
       RedisRaises, RenderRaises, Transform, Requests
  <2>2. at[r] # "querying" /\ UNCHANGED holder
    BY <1>1 DEF ImageStep, BeginImage, SettledByRedis, NoGenerator, AskPool,
       RedisRaises, RenderRaises, Transform
  <2> QED BY <2>1, <2>2, OutsideThePool DEF Requests
<1>2. ASSUME NEW r \in Listings \cup Probes, BeginOther(r) PROVE HoldersQuery'
  BY <1>2, StagesLeadOn, OutsideThePool DEF BeginOther, Requests
<1>3. ASSUME NEW r \in Probes, PingAnswers(r) \/ PingTimeout(r) PROVE HoldersQuery'
  BY <1>3 DEF PingAnswers, PingTimeout, HoldersQuery, Holds
<1>4. ASSUME NEW r \in Probes, ProbeReplies(r) PROVE HoldersQuery'
  BY <1>4, StagesLeadOn, OutsideThePool DEF ProbeReplies, Requests
<1>5. ASSUME NEW r \in Requests, Fails(r) PROVE Leaves(r)
  BY <1>5, StagesLeadOn DEF Fails
<1>6. ASSUME NEW r \in Requests, QueryReturns(r) PROVE HoldersQuery'
  <2>1. Leaves(r)
    <3>1. CASE r \in Images /\ AfterQuery(r)
      BY <3>1, StagesLeadOn DEF AfterQuery
    <3>2. CASE r \notin Images \/ ~AfterQuery(r)
      BY <1>6, <3>2, StagesLeadOn DEF QueryReturns
    <3> QED BY <3>1, <3>2
  <2> QED BY <1>6, <2>1, BackInThePool DEF QueryReturns
<1>7. ASSUME NEW r \in Requests, QueryFails(r) PROVE HoldersQuery'
  BY <1>5, <1>7, BackInThePool DEF QueryFails
<1>8. ASSUME NEW r \in Requests, PoolTimeout(r) PROVE HoldersQuery'
  BY <1>5, <1>8, OutsideThePool DEF PoolTimeout
<1>9. CASE ServerChanges \/ UNCHANGED vars
  BY <1>9 DEF ServerChanges, vars, HoldersQuery, Holds
<1> QED BY <1>1, <1>2, <1>3, <1>4, <1>6, <1>7, <1>8, <1>9, OutOfThePool
        DEF Next, PoolStep, ProbeStep, AllEnded

-----------------------------------------------------------------------------
LEMMA WorkerInit == Init => WorkerInv
<1> SUFFICES ASSUME Init PROVE WorkerInv
  OBVIOUS
<1>1. TypeOK /\ ImagesAreStaged
  BY WorkerAssumption DEF Init, TypeOK, ImagesAreStaged, Ended, Requests, Stages, Conditions
<1>2. HoldersQuery
  BY WorkerAssumption DEF Init, HoldersQuery, Holds, Requests
<1>3. Past({"league"}) = {} /\ Past({"league", "away"}) = {} /\ Missed = {} /\ RenderedImages = {}
  BY DEF Init, Past, Missed, RenderedImages
<1>4. CountsAreOfImages
  <2>1. total = 0 /\ misses = 0 /\ renders = 0
    BY DEF Init
  <2>2. IsFiniteSet({}) /\ Cardinality({}) = 0
    BY FS_EmptySet
  <2> QED BY <1>3, <2>1, <2>2 DEF CountsAreOfImages
<1> QED BY <1>1, <1>2, <1>4 DEF WorkerInv

LEMMA WorkerStep == WorkerInv /\ [Next]_vars => WorkerInv'
<1> SUFFICES ASSUME WorkerInv, [Next]_vars PROVE WorkerInv'
  OBVIOUS
<1>1. TypeOK /\ ImagesAreStaged /\ CountsAreOfImages /\ HoldersQuery /\ RequestsTyped /\ PoolTyped /\ Moves
  BY MoveCases, TypeParts DEF WorkerInv
<1>2. RequestsTyped' /\ PoolTyped'
  BY <1>1, RequestTypes, PoolTypes
<1>3. ImagesAreStaged' /\ CountsAreOfImages' /\ HoldersQuery'
  BY <1>1, StagesStep, CountsStep, PoolStepKeeps
<1>4. (RequestsTyped /\ PoolTyped => TypeOK)'
  BY TypeParts, PTL
<1> QED BY <1>2, <1>3, <1>4 DEF WorkerInv

LEMMA WorkerInvariant == Spec => []WorkerInv
BY WorkerInit, WorkerStep, PTL DEF Spec

(* Type correctness.                                                       *)
THEOREM TypesHold == Spec => []TypeOK
BY WorkerInvariant, PTL DEF WorkerInv

(* A request has a connection exactly while its query runs, and then one.  *)
THEOREM ConnectionsComeBack == Spec => []NoConnectionIsKept
<1>1. WorkerInv => NoConnectionIsKept
  BY FS_EmptySet, FS_Singleton DEF WorkerInv, HoldersQuery, NoConnectionIsKept
<1> QED BY <1>1, WorkerInvariant, PTL

(* The miss rate is a rate at every scrape, and the completion line names  *)
(* a cache tier only for what was rendered.                                *)
THEOREM TelemetryHolds == Spec => []TelemetryIsTrue
<1>1. WorkerInv => CountersAgree
  BY MissesAndRendersAreResolved DEF WorkerInv
<1>2. WorkerInv => LogLineFitsReply
  <2> SUFFICES ASSUME WorkerInv, NEW r \in Images, Ended(r)
               PROVE  /\ reply[r] = "200" => context[r].tier
                      /\ context[r].tier =>
                            context[r].league = "canonical" /\ reply[r] \in {"200", "400", "500"}
    BY DEF LogLineFitsReply
  <2> QED BY DEF WorkerInv, ImagesAreStaged
<1> QED BY <1>1, <1>2, WorkerInvariant, PTL DEF TelemetryIsTrue

(* For any native size and any width, wherever the doubles miss an exact   *)
(* quotient: no larger than the native image, of its proportions to        *)
(* within two pixels of height, empty only at a pixel of height or less.   *)
THEOREM SizesAreSane == Spec => []SizeIsSane
<1>1. SizeIsSane
  BY SizesFit DEF SizeIsSane
<1> QED BY <1>1, PTL
=============================================================================
