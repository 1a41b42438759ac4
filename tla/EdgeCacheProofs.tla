-------------------------- MODULE EdgeCacheProofs --------------------------
(***************************************************************************)
(* Theorems about EdgeCache, for any number of connections and URLs, any   *)
(* TTL, and any number of seed runs and redeploys.                         *)
(***************************************************************************)
EXTENDS EdgeCache, TLAPS

(* No midnight, or one: what `late` allows a request.                      *)
Midnights(c) == IF late[c] THEN 1 ELSE 0

(* An entry ages as its stay shortens.  Redis takes images at most one     *)
(* midnight old, so that age and remaining stay together are never more    *)
(* than a TTL and a day; nginx takes images Redis has kept up to a TTL.    *)
RenderedAge ==
    \A v \in Codes : rendered[v] # None =>
        rendered[v].image.age + rendered[v].left <= Ttl + 1
EdgeAge ==
    \A u \in Urls : edge[u] # None =>
        edge[u].image.age + edge[u].left <= 2 * Ttl + 1
JobAge ==
    \A c \in Clients :
        /\ pc[c] = "lookup" => job[c].image.age <= Midnights(c)
        /\ pc[c] = "reply" => job[c].image.age <= Ttl + Midnights(c)
AgeInv == RenderedAge /\ EdgeAge /\ JobAge

(* Redis keeps pictures of a render version under that version.  A request *)
(* of an older version began before the redeploy, at most one midnight     *)
(* ago; an entry of an older version was stored at most so long after it.  *)
RenderedCode ==
    \A v \in Codes : rendered[v] # None => rendered[v].image.code = v
JobCode ==
    \A c \in Clients :
        pc[c] \in {"lookup", "reply"} /\ job[c].image.code # deployed.code
            => codeAge <= Midnights(c)
EdgeCode ==
    \A u \in Urls : edge[u] # None /\ edge[u].image.code # deployed.code
        => codeAge + edge[u].left <= Ttl + 1
CodeInv == RenderedCode /\ JobCode /\ EdgeCode

-----------------------------------------------------------------------------
(* An entry is an image and a stay, and a fresh one stays a whole TTL.     *)
LEMMA EntryShape ==
    ASSUME NEW e \in Entries
    PROVE  e.image \in Images /\ e.left \in 1..Ttl
BY DEF Entries, Entry

LEMMA FreshIsEntry ==
    ASSUME NEW image \in Images
    PROVE  /\ Fresh(image) \in Entries
           /\ Fresh(image).image = image /\ Fresh(image).left = Ttl
BY EdgeAssumption DEF Fresh, Entry, Entries

(* A day makes an image a day older at most, and nothing else of it.       *)
LEMMA OlderImage ==
    ASSUME NEW image \in Images
    PROVE  /\ AgedImage(image) \in Images
           /\ AgedImage(image).code = image.code
           /\ AgedImage(image).age <= image.age + 1
BY EdgeAssumption DEF Images, AgedImage, Older, Oldest

(* A day ends an entry's stay, or makes it a day shorter and the image at  *)
(* most a day older.                                                       *)
LEMMA AgedEntry ==
    ASSUME NEW e \in Entries \cup {None}, Aged(e) # None
    PROVE  /\ e \in Entries /\ e # None
           /\ Aged(e) \in Entries
           /\ Aged(e).image.code = e.image.code
           /\ Aged(e).image.age <= e.image.age + 1
           /\ Aged(e).left = e.left - 1
<1>1. e \in Entries /\ e # None /\ e.left # 1
  BY DEF Aged
<1>2. e.image \in Images /\ e.left \in 1..Ttl
  BY <1>1, EntryShape
<1>3. Aged(e) = Entry(AgedImage(e.image), e.left - 1)
  BY <1>1 DEF Aged
<1>4. AgedImage(e.image) \in Images /\ e.left - 1 \in 1..Ttl
  BY <1>1, <1>2, OlderImage, EdgeAssumption
<1>5. Aged(e) \in Entries
  BY <1>3, <1>4 DEF Entries
<1> QED BY <1>1, <1>2, <1>3, <1>5, OlderImage DEF Entry

(* The steps, one disjunct for each action.                                *)
LEMMA StepCases ==
    ASSUME [Next]_vars
    PROVE  \/ \E c \in Clients : Miss(c) \/ Wait(c) \/ Serve(c)
           \/ \E u \in Urls : LockAges(u)
           \/ SeedRow \/ SeedFlush \/ Redeploy \/ Day
           \/ UNCHANGED vars
BY DEF Next

-----------------------------------------------------------------------------
LEMMA TypeInit == Init => TypeOK
<1> SUFFICES ASSUME Init PROVE TypeOK
  OBVIOUS
<1>1. deployed \in [code : Codes, caching : BOOLEAN]
  BY EdgeAssumption DEF Init
<1>2. data \in 1..MaxData /\ deploys \in 0..MaxDeploys /\ codeAge \in 0..(Ttl + 1)
  BY EdgeAssumption DEF Init
<1> QED BY <1>1, <1>2 DEF Init, TypeOK

LEMMA TypeStep == TypeOK /\ [Next]_vars => TypeOK'
<1> SUFFICES ASSUME TypeOK, [Next]_vars PROVE TypeOK'
  OBVIOUS
<1> USE EdgeAssumption DEF TypeOK, conns, caches, world
<1>1. ASSUME NEW c \in Clients, Miss(c) \/ Wait(c) \/ Serve(c) PROVE TypeOK'
  <2> USE DEF Goto, Finish
  <2>0. job[c] # None => job[c].image \in Images /\ Key(c) \in Codes
    BY DEF Jobs, Images, Key
  <2>1. CASE Miss(c) \/ Wait(c) \/ TakeOver(c)
    <3>1. ASSUME NEW u \in Urls \cup {None}, NEW from \in {"idle", "wait"}, Forward(c, u, from)
          PROVE  TypeOK'
      BY <3>1 DEF Forward
    <3>2. CASE Wait(c)
      BY <3>2 DEF Wait
    <3> QED BY <2>1, <3>1, <3>2 DEF Miss, TakeOver
  <2>2. CASE WaitOver(c) \/ LockTimeout(c)
    <3>1. CASE WaitOver(c)
      BY <3>1 DEF WaitOver
    <3>2. CASE LockTimeout(c)
      BY <3>2 DEF LockTimeout
    <3> QED BY <2>2, <3>1, <3>2
  <2>3. CASE ReadRow(c)
    <3>1. [image |-> [data |-> data, code |-> deployed.code, age |-> 0],
           caching |-> deployed.caching] \in Jobs
      BY DEF Jobs, Images, Oldest
    <3> QED BY <2>3, <3>1 DEF ReadRow
  <2>4. CASE LookupHit(c)
    <3>1. rendered[Key(c)].image \in Images
      BY <2>0, <2>4, EntryShape DEF LookupHit
    <3>2. job' = [job EXCEPT ![c] = [job[c] EXCEPT !.image = rendered[Key(c)].image]]
      BY <2>4 DEF LookupHit
    <3>3. [job[c] EXCEPT !.image = rendered[Key(c)].image] \in Jobs
      BY <2>4, <3>1 DEF LookupHit, Jobs
    <3> QED BY <2>4, <3>2, <3>3 DEF LookupHit
  <2>5. CASE Compose(c)
    <3>1. Fresh(job[c].image) \in Entries
      BY <2>0, <2>5, FreshIsEntry DEF Compose
    <3>2. rendered' \in [Codes -> Entries \cup {None}]
      BY <2>5, <3>1 DEF Compose
    <3> QED BY <2>5, <3>2 DEF Compose
  <2>6. CASE Reply(c)
    <3>1. Fresh(job[c].image) \in Entries
      BY <2>0, <2>6, FreshIsEntry DEF Reply
    <3>2. edge' \in [Urls -> Entries \cup {None}]
      BY <2>6, <3>1 DEF Reply
    <3> QED BY <2>6, <3>2 DEF Reply, ReleaseLock
  <2>7. CASE ReplyError(c)
    BY <2>7 DEF ReplyError, ReleaseLock
  <2> QED BY <1>1, <2>1, <2>2, <2>3, <2>4, <2>5, <2>6, <2>7 DEF Serve
<1>2. ASSUME NEW u \in Urls, LockAges(u) PROVE TypeOK'
  BY <1>2 DEF LockAges
<1>3. CASE SeedRow \/ SeedFlush
  <2>1. data \in 1..MaxData
    OBVIOUS
  <2>2. CASE SeedRow
    <3>1. data' \in 1..MaxData
      BY ONLY <2>1, <2>2, EdgeAssumption DEF SeedRow
    <3> QED BY <2>2, <3>1 DEF SeedRow
  <2>3. CASE SeedFlush
    BY <2>3 DEF SeedFlush
  <2> QED BY <1>3, <2>2, <2>3
<1>4. CASE Redeploy
  <2>1. deployed' \in [code : Codes, caching : BOOLEAN] /\ codeAge' \in 0..(Ttl + 1)
    BY <1>4 DEF Redeploy
  <2>2. deploys' \in 0..MaxDeploys
    BY <1>4 DEF Redeploy
  <2>3. UNCHANGED <<conns, caches, data, flushDue>>
    BY <1>4 DEF Redeploy
  <2> QED BY <2>1, <2>2, <2>3
<1>5. CASE Day
  <2>1. \A c \in Clients : job'[c] \in Jobs \cup {None} /\ (job'[c] # None <=> job[c] # None)
    <3> SUFFICES ASSUME NEW c \in Clients, job[c] # None
                 PROVE  job'[c] \in Jobs
      BY <1>5 DEF Day
    <3>1. job[c] \in Jobs /\ job'[c] = [job[c] EXCEPT !.image = AgedImage(@)]
      BY <1>5 DEF Day
    <3>2. AgedImage(job[c].image) \in Images
      BY <3>1, OlderImage DEF Jobs
    <3> QED BY <3>1, <3>2 DEF Jobs
  <2>2. job' \in [Clients -> Jobs \cup {None}]
    BY <1>5, <2>1 DEF Day
  <2>3. edge' \in [Urls -> Entries \cup {None}]
    <3>1. \A u \in Urls : Aged(edge[u]) \in Entries \cup {None}
      BY AgedEntry
    <3> QED BY <1>5, <3>1 DEF Day, EdgeAges
  <2>4. rendered' \in [Codes -> Entries \cup {None}]
    <3>1. \A v \in Codes : Aged(rendered[v]) \in Entries \cup {None}
      BY AgedEntry
    <3> QED BY <1>5, <3>1 DEF Day
  <2>5. late' \in [Clients -> BOOLEAN] /\ codeAge' \in 0..(Ttl + 1)
    BY <1>5 DEF Day
  <2> QED BY <1>5, <2>1, <2>2, <2>3, <2>4, <2>5 DEF Day
<1>6. CASE UNCHANGED vars
  BY <1>6 DEF vars
<1> QED BY <1>1, <1>2, <1>3, <1>4, <1>5, <1>6, StepCases

(* Type correctness: every reachable state is one of its type.             *)
THEOREM TypesHold == Spec => []TypeOK
BY TypeInit, TypeStep, PTL DEF Spec

-----------------------------------------------------------------------------
(* What one step of a connection does to images: to its own job, to the    *)
(* entries of Redis, and to the entries of nginx.                          *)
JobStep(c) ==
    /\ \A d \in Clients \ {c} : pc'[d] = pc[d] /\ job'[d] = job[d] /\ late'[d] = late[d]
    /\ \/ pc'[c] \notin {"lookup", "reply"}
       \/ /\ pc'[c] = "lookup" /\ late'[c] = late[c]
          /\ job'[c].image.age = 0 /\ job'[c].image.code = deployed.code
       \/ /\ pc[c] = "lookup" /\ pc'[c] = "reply" /\ late'[c] = late[c]
          /\ \/ job'[c] = job[c]
             \/ /\ Key(c) \in Codes /\ rendered[Key(c)] # None
                /\ job'[c].image = rendered[Key(c)].image
RenderedStep(c) ==
    \A v \in Codes :
        \/ rendered'[v] = rendered[v]
        \/ /\ pc[c] = "lookup" /\ v = Key(c)
           /\ rendered'[v] = Fresh(job[c].image)
EdgeStep(c) ==
    \A u \in Urls :
        \/ edge'[u] = edge[u]
        \/ pc[c] = "reply" /\ edge'[u] = Fresh(job[c].image)

LEMMA ConnectionStep ==
    ASSUME TypeOK, NEW c \in Clients, Miss(c) \/ Wait(c) \/ Serve(c)
    PROVE  JobStep(c) /\ RenderedStep(c) /\ EdgeStep(c) /\ UNCHANGED world
<1> USE DEF TypeOK, conns, caches, world, Goto, Finish, JobStep, RenderedStep, EdgeStep
<1>0. job[c] # None => job[c].image \in Images /\ Key(c) \in Codes
  BY DEF Jobs, Images, Key
<1>1. CASE Miss(c) \/ Wait(c) \/ TakeOver(c)
  BY <1>1 DEF Miss, Wait, TakeOver, Forward
<1>2. CASE WaitOver(c)
  BY <1>2 DEF WaitOver
<1>3. CASE LockTimeout(c)
  BY <1>3 DEF LockTimeout
<1>4. CASE ReadRow(c)
  BY <1>4 DEF ReadRow
<1>5. CASE LookupHit(c)
  <2>1. job'[c].image = rendered[Key(c)].image
    BY <1>5 DEF LookupHit, Jobs
  <2> QED BY <1>0, <1>5, <2>1 DEF LookupHit
<1>6. CASE Compose(c)
  BY <1>0, <1>6 DEF Compose
<1>7. CASE Reply(c)
  BY <1>7 DEF Reply
<1>8. CASE ReplyError(c)
  BY <1>8 DEF ReplyError
<1> QED BY <1>1, <1>2, <1>3, <1>4, <1>5, <1>6, <1>7, <1>8 DEF Serve

-----------------------------------------------------------------------------
LEMMA AgeStep == TypeOK /\ AgeInv /\ [Next]_vars => AgeInv'
<1> SUFFICES ASSUME TypeOK, AgeInv, [Next]_vars PROVE AgeInv'
  OBVIOUS
<1>0. RenderedAge /\ EdgeAge /\ JobAge
  BY DEF AgeInv
<1>a. ASSUME NEW v \in Codes, rendered[v] # None
      PROVE  rendered[v].image.age \in Nat /\ rendered[v].left \in 1..Ttl
  BY <1>a, EntryShape DEF TypeOK, Images
<1>b. ASSUME NEW u \in Urls, edge[u] # None
      PROVE  edge[u].image.age \in Nat /\ edge[u].left \in 1..Ttl
  BY <1>b, EntryShape DEF TypeOK, Images
<1>c. ASSUME NEW c \in Clients, pc[c] \in {"lookup", "reply"}
      PROVE  job[c].image \in Images /\ job[c].image.age \in Nat /\ job[c] # None
  BY <1>c DEF TypeOK, Jobs, Images
<1>d. Ttl \in Nat \ {0}
  BY EdgeAssumption
<1>1. ASSUME NEW c \in Clients, Miss(c) \/ Wait(c) \/ Serve(c) PROVE AgeInv'
  <2>1. JobStep(c) /\ RenderedStep(c) /\ EdgeStep(c)
    BY <1>1, ConnectionStep
  <2>2. RenderedAge'
    <3> SUFFICES ASSUME NEW v \in Codes, rendered'[v] # None
                 PROVE  rendered'[v].image.age + rendered'[v].left <= Ttl + 1
      BY DEF RenderedAge
    <3>1. CASE rendered'[v] = rendered[v]
      BY <1>0, <3>1 DEF RenderedAge
    <3>2. CASE pc[c] = "lookup" /\ rendered'[v] = Fresh(job[c].image)
      BY <1>0, <1>c, <1>d, <3>2, FreshIsEntry DEF JobAge, Midnights
    <3> QED BY <2>1, <3>1, <3>2 DEF RenderedStep
  <2>3. EdgeAge'
    <3> SUFFICES ASSUME NEW u \in Urls, edge'[u] # None
                 PROVE  edge'[u].image.age + edge'[u].left <= 2 * Ttl + 1
      BY DEF EdgeAge
    <3>1. CASE edge'[u] = edge[u]
      BY <1>0, <3>1 DEF EdgeAge
    <3>2. CASE pc[c] = "reply" /\ edge'[u] = Fresh(job[c].image)
      BY <1>0, <1>c, <1>d, <3>2, FreshIsEntry DEF JobAge, Midnights
    <3> QED BY <2>1, <3>1, <3>2 DEF EdgeStep
  <2>4. JobAge'
    <3> SUFFICES ASSUME NEW d \in Clients
                 PROVE  /\ pc'[d] = "lookup" => job'[d].image.age <= Midnights(d)'
                        /\ pc'[d] = "reply" => job'[d].image.age <= Ttl + Midnights(d)'
      BY DEF JobAge
    <3>1. CASE d # c
      BY <1>0, <2>1, <3>1 DEF JobStep, JobAge, Midnights
    <3>2. CASE d = c
      <4>1. CASE pc'[c] = "lookup"
        BY <2>1, <3>2, <4>1 DEF JobStep, Midnights
      <4>2. CASE pc'[c] = "reply" /\ pc[c] = "lookup" /\ late'[c] = late[c] /\ job'[c] = job[c]
        BY <1>0, <1>c, <1>d, <3>2, <4>2 DEF JobAge, Midnights
      <4>3. CASE /\ pc'[c] = "reply" /\ Key(c) \in Codes /\ rendered[Key(c)] # None
                 /\ job'[c].image = rendered[Key(c)].image
        BY <1>0, <1>a, <1>d, <3>2, <4>3 DEF RenderedAge, Midnights
      <4> QED BY <2>1, <3>2, <4>1, <4>2, <4>3 DEF JobStep
    <3> QED BY <3>1, <3>2
  <2> QED BY <2>2, <2>3, <2>4 DEF AgeInv
<1>2. CASE \/ \E u \in Urls : LockAges(u)
           \/ SeedRow \/ Redeploy \/ UNCHANGED vars
  <2>1. UNCHANGED <<pc, job, late, edge, rendered>>
    BY <1>2 DEF LockAges, SeedRow, Redeploy, vars, conns, caches
  <2> QED BY <1>0, <2>1 DEF AgeInv, RenderedAge, EdgeAge, JobAge, Midnights
<1>3. CASE SeedFlush
  <2>1. UNCHANGED <<pc, job, late, edge>> /\ rendered' = [v \in Codes |-> None]
    BY <1>3 DEF SeedFlush, conns
  <2> QED BY <1>0, <2>1 DEF AgeInv, RenderedAge, EdgeAge, JobAge, Midnights
<1>4. CASE Day
  <2>1. RenderedAge'
    <3> SUFFICES ASSUME NEW v \in Codes, rendered'[v] # None
                 PROVE  rendered'[v].image.age + rendered'[v].left <= Ttl + 1
      BY DEF RenderedAge
    <3>1. rendered'[v] = Aged(rendered[v]) /\ rendered[v] \in Entries \cup {None}
      BY <1>4 DEF Day, TypeOK
    <3>2. /\ rendered[v] # None /\ rendered'[v] \in Entries
          /\ rendered'[v].image.age <= rendered[v].image.age + 1
          /\ rendered'[v].left = rendered[v].left - 1
      BY <3>1, AgedEntry
    <3>3. rendered'[v].image.age \in Nat
      BY <3>2, EntryShape DEF Images
    <3> QED BY <1>0, <1>a, <1>d, <3>2, <3>3 DEF RenderedAge
  <2>2. EdgeAge'
    <3> SUFFICES ASSUME NEW u \in Urls, edge'[u] # None
                 PROVE  edge'[u].image.age + edge'[u].left <= 2 * Ttl + 1
      BY DEF EdgeAge
    <3>1. edge'[u] = Aged(edge[u]) /\ edge[u] \in Entries \cup {None}
      BY <1>4 DEF Day, EdgeAges, TypeOK
    <3>2. /\ edge[u] # None /\ edge'[u] \in Entries
          /\ edge'[u].image.age <= edge[u].image.age + 1
          /\ edge'[u].left = edge[u].left - 1
      BY <3>1, AgedEntry
    <3>3. edge'[u].image.age \in Nat
      BY <3>2, EntryShape DEF Images
    <3> QED BY <1>0, <1>b, <1>d, <3>2, <3>3 DEF EdgeAge
  <2>3. JobAge'
    <3> SUFFICES ASSUME NEW c \in Clients, pc[c] \in {"lookup", "reply"}
                 PROVE  /\ pc[c] = "lookup" => job'[c].image.age <= Midnights(c)'
                        /\ pc[c] = "reply" => job'[c].image.age <= Ttl + Midnights(c)'
      BY <1>4 DEF Day, JobAge
    <3>1. /\ job[c] \in Jobs /\ job'[c] = [job[c] EXCEPT !.image = AgedImage(@)]
          /\ ~late[c] /\ late'[c] = TRUE
      BY <1>4, <1>c DEF Day, TypeOK
    <3>2. job'[c].image = AgedImage(job[c].image)
      BY <3>1 DEF Jobs
    <3>3. /\ job'[c].image.age <= job[c].image.age + 1
          /\ job'[c].image.age \in Nat
      BY <1>c, <3>2, OlderImage DEF Images
    <3> QED BY <1>0, <1>c, <1>d, <3>1, <3>3 DEF JobAge, Midnights
  <2> QED BY <2>1, <2>2, <2>3 DEF AgeInv
<1> QED BY <1>1, <1>2, <1>3, <1>4, StepCases

(* An image in nginx is at most two TTLs old, counted from the day its     *)
(* rows were read: one in Redis, one at the edge.                          *)
THEOREM AgesAreBounded == Spec => []AgeIsBounded
<1>1. Init => AgeInv
  BY DEF Init, AgeInv, RenderedAge, EdgeAge, JobAge
<1>2. TypeOK /\ AgeInv => AgeIsBounded
  <2> SUFFICES ASSUME TypeOK, AgeInv, NEW u \in Urls, edge[u] # None
               PROVE  edge[u].image.age <= 2 * Ttl
    BY DEF AgeIsBounded
  <2>1. edge[u].image.age \in Nat /\ edge[u].left \in 1..Ttl
    BY EntryShape DEF TypeOK, Images
  <2> QED BY <2>1, EdgeAssumption DEF AgeInv, EdgeAge
<1> QED BY <1>1, <1>2, TypesHold, AgeStep, PTL DEF Spec

-----------------------------------------------------------------------------
LEMMA CodeStep == TypeOK /\ CodeInv /\ [Next]_vars => CodeInv'
<1> SUFFICES ASSUME TypeOK, CodeInv, [Next]_vars PROVE CodeInv'
  OBVIOUS
<1>0. RenderedCode /\ JobCode /\ EdgeCode
  BY DEF CodeInv
<1>a. ASSUME NEW c \in Clients, pc[c] \in {"lookup", "reply"}
      PROVE  job[c] \in Jobs /\ job[c] # None /\ job[c].image \in Images
  BY <1>a DEF TypeOK, Jobs
<1>b. ASSUME NEW u \in Urls, edge[u] # None PROVE edge[u].left \in 1..Ttl
  BY <1>b, EntryShape DEF TypeOK
<1>c. Ttl \in Nat \ {0} /\ codeAge \in 0..(Ttl + 1)
  BY EdgeAssumption DEF TypeOK
<1>1. ASSUME NEW c \in Clients, Miss(c) \/ Wait(c) \/ Serve(c) PROVE CodeInv'
  <2>1. JobStep(c) /\ RenderedStep(c) /\ EdgeStep(c) /\ UNCHANGED <<deployed, codeAge>>
    BY <1>1, ConnectionStep DEF world
  <2>2. RenderedCode'
    <3> SUFFICES ASSUME NEW v \in Codes, rendered'[v] # None
                 PROVE  rendered'[v].image.code = v
      BY DEF RenderedCode
    <3>1. CASE rendered'[v] = rendered[v]
      BY <1>0, <3>1 DEF RenderedCode
    <3>2. CASE pc[c] = "lookup" /\ v = Key(c) /\ rendered'[v] = Fresh(job[c].image)
      BY <1>a, <3>2, FreshIsEntry DEF Key
    <3> QED BY <2>1, <3>1, <3>2 DEF RenderedStep
  <2>3. EdgeCode'
    <3> SUFFICES ASSUME NEW u \in Urls, edge'[u] # None,
                        edge'[u].image.code # deployed.code
                 PROVE  codeAge + edge'[u].left <= Ttl + 1
      BY <2>1 DEF EdgeCode
    <3>1. CASE edge'[u] = edge[u]
      BY <1>0, <3>1 DEF EdgeCode
    <3>2. CASE pc[c] = "reply" /\ edge'[u] = Fresh(job[c].image)
      <4>1. edge'[u].left = Ttl /\ codeAge <= Midnights(c)
        BY <1>0, <1>a, <3>2, FreshIsEntry DEF JobCode
      <4> QED BY <1>c, <4>1 DEF Midnights
    <3> QED BY <2>1, <3>1, <3>2 DEF EdgeStep
  <2>4. JobCode'
    <3> SUFFICES ASSUME NEW d \in Clients, pc'[d] \in {"lookup", "reply"},
                        job'[d].image.code # deployed.code
                 PROVE  codeAge <= Midnights(d)'
      BY <2>1 DEF JobCode
    <3>1. CASE d # c
      BY <1>0, <2>1, <3>1 DEF JobStep, JobCode, Midnights
    <3>2. CASE d = c
      <4>1. /\ pc[c] = "lookup" /\ late'[c] = late[c]
            /\ \/ job'[c] = job[c]
               \/ /\ Key(c) \in Codes /\ rendered[Key(c)] # None
                  /\ job'[c].image = rendered[Key(c)].image
        BY <2>1, <3>2 DEF JobStep
      <4>2. job[c].image.code # deployed.code
        BY <1>0, <3>2, <4>1 DEF RenderedCode, Key
      <4> QED BY <1>0, <3>2, <4>1, <4>2 DEF JobCode, Midnights
    <3> QED BY <3>1, <3>2
  <2> QED BY <2>2, <2>3, <2>4 DEF CodeInv
<1>2. CASE (\E u \in Urls : LockAges(u)) \/ SeedRow \/ UNCHANGED vars
  <2>1. UNCHANGED <<pc, job, late, edge, rendered, deployed, codeAge>>
    BY <1>2 DEF LockAges, SeedRow, vars, conns, caches, world
  <2> QED BY <1>0, <2>1 DEF CodeInv, RenderedCode, EdgeCode, JobCode, Midnights
<1>3. CASE SeedFlush
  <2>1. /\ UNCHANGED <<pc, job, late, edge, deployed, codeAge>>
        /\ rendered' = [v \in Codes |-> None]
    BY <1>3 DEF SeedFlush, conns
  <2> QED BY <1>0, <2>1 DEF CodeInv, RenderedCode, EdgeCode, JobCode, Midnights
<1>4. CASE Redeploy
  <2>1. UNCHANGED <<pc, job, late, edge, rendered>>
    BY <1>4 DEF Redeploy, conns, caches
  <2>2. CASE deployed'.code = deployed.code
    <3>1. codeAge' = codeAge
      BY <1>4, <2>2 DEF Redeploy
    <3> QED BY <1>0, <2>1, <2>2, <3>1 DEF CodeInv, RenderedCode, EdgeCode, JobCode, Midnights
  <2>3. CASE deployed'.code # deployed.code
    <3>1. codeAge' = 0
      BY <1>4, <2>3 DEF Redeploy
    <3>2. EdgeCode'
      BY <1>b, <1>c, <2>1, <3>1 DEF EdgeCode
    <3>3. JobCode'
      BY <3>1 DEF JobCode, Midnights
    <3> QED BY <1>0, <2>1, <3>2, <3>3 DEF CodeInv, RenderedCode
  <2> QED BY <2>2, <2>3
<1>5. CASE Day
  <2>0. deployed' = deployed /\ codeAge' = (IF codeAge > Ttl THEN codeAge ELSE codeAge + 1)
    BY <1>5 DEF Day
  <2>1. RenderedCode'
    <3> SUFFICES ASSUME NEW v \in Codes, rendered'[v] # None
                 PROVE  rendered'[v].image.code = v
      BY DEF RenderedCode
    <3>1. rendered'[v] = Aged(rendered[v]) /\ rendered[v] \in Entries \cup {None}
      BY <1>5 DEF Day, TypeOK
    <3> QED BY <1>0, <3>1, AgedEntry DEF RenderedCode
  <2>2. EdgeCode'
    <3> SUFFICES ASSUME NEW u \in Urls, edge'[u] # None,
                        edge'[u].image.code # deployed.code
                 PROVE  codeAge' + edge'[u].left <= Ttl + 1
      BY <2>0 DEF EdgeCode
    <3>1. edge'[u] = Aged(edge[u]) /\ edge[u] \in Entries \cup {None}
      BY <1>5 DEF Day, EdgeAges, TypeOK
    <3>2. /\ edge[u] # None /\ edge'[u].image.code = edge[u].image.code
          /\ edge'[u].left = edge[u].left - 1
      BY <3>1, AgedEntry
    <3>3. codeAge + edge[u].left <= Ttl + 1
      BY <1>0, <3>2 DEF EdgeCode
    <3> QED BY <1>b, <1>c, <2>0, <3>2, <3>3
  <2>3. JobCode'
    <3> SUFFICES ASSUME NEW c \in Clients, pc[c] \in {"lookup", "reply"},
                        job'[c].image.code # deployed.code
                 PROVE  codeAge' <= Midnights(c)'
      BY <1>5, <2>0 DEF Day, JobCode
    <3>1. /\ job'[c] = [job[c] EXCEPT !.image = AgedImage(@)]
          /\ ~late[c] /\ late'[c] = TRUE
      BY <1>5, <1>a DEF Day
    <3>2. job'[c].image = AgedImage(job[c].image)
      BY <1>a, <3>1 DEF Jobs
    <3>3. job[c].image.code # deployed.code
      BY <1>a, <3>2, OlderImage
    <3>4. codeAge <= 0
      BY <1>0, <3>1, <3>3 DEF JobCode, Midnights
    <3> QED BY <1>c, <2>0, <3>1, <3>4 DEF Midnights
  <2> QED BY <2>1, <2>2, <2>3 DEF CodeInv
<1> QED BY <1>1, <1>2, <1>3, <1>4, <1>5, StepCases

(* A picture of an older render version stays in nginx for at most one TTL *)
(* after the redeploy: Redis never hands it to the new workers, and what   *)
(* the old ones were still making was begun at most a midnight before.     *)
THEOREM OldCodeGivesWay == Spec => []OldCodeIsBounded
<1>1. Init => CodeInv
  BY DEF Init, CodeInv, RenderedCode, EdgeCode, JobCode
<1>2. TypeOK /\ CodeInv => OldCodeIsBounded
  <2> SUFFICES ASSUME TypeOK, CodeInv, NEW u \in Urls,
                      edge[u] # None, edge[u].image.code # deployed.code
               PROVE  codeAge <= Ttl
    BY DEF OldCodeIsBounded
  <2>1. edge[u].left \in 1..Ttl
    BY EntryShape DEF TypeOK
  <2> QED BY <2>1, EdgeAssumption DEF CodeInv, EdgeCode, TypeOK
<1> QED BY <1>1, <1>2, TypesHold, CodeStep, PTL DEF Spec
=============================================================================
