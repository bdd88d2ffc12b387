---------------------------- MODULE WeatherProofs ----------------------------
(****************************************************************************)
(* Proofs about Weather, for any number of messages, any places and any     *)
(* rounding of coordinates.                                                 *)
(****************************************************************************)
EXTENDS Weather, TLAPS

USE WeatherAssumption

-----------------------------------------------------------------------------
\* Where positions come from.
PlaceInv ==
    /\ at \in [Owners -> BotPlaces \union SenderPlaces]
    /\ at["bot"] \in BotPlaces
    /\ at["sender"] \in SenderPlaces

\* A name in the cache is the one of its key, or an empty one that the service
\* gave for it.
CacheInv ==
    /\ DOMAIN cache \subseteq Keys
    /\ \A k \in DOMAIN cache : cache[k] = k \/ (cache[k] = Blank /\ k \in blanked)
    /\ blanked \subseteq Keys
    /\ dead \in BOOLEAN

\* The lock is held by the handler that is inside.
LockInv ==
    /\ lock \in Handlers \union {Free}
    /\ \A h \in Handlers : lock = h <=> At(h, "look") \/ At(h, "store")

Asking == {"look", "ask", "named", "store"}
Placing == {"toNode", "distance", "place"} \union Asking

\* What a handler works on.
Jobs == [command : Naming \union Reporting \union {"none"}, public : BOOLEAN,
         pos : BotPlaces \union SenderPlaces, label : Owners \union {"none"},
         far : BOOLEAN, name : Keys \union {Blank}, failed : BOOLEAN,
         days : Nat, values : Nat,
         answer : {"none", "place", "nowhere", "error", "weather"}]

Labels == Placing \union {"none", "bot", "sender", "fallback", "fetch", "done"}

\* The place that is named, or shall be.
PlacingInv(h) ==
    /\ hpc[h] \in Placing => job[h].pos \in BotPlaces
    /\ hpc[h] \in Asking => job[h].pos # Unset
    /\ hpc[h] \in {"named", "store"} =>
        job[h].name = Key(job[h].pos) \/ (job[h].name = Blank /\ Key(job[h].pos) \in blanked)
    /\ hpc[h] \notin {"named", "store", "done"} => job[h].name = Blank
    /\ hpc[h] # "done" => job[h].answer = "none"
    /\ Told(h) =>
        \/ job[h].name = Key(job[h].pos) /\ job[h].pos \in BotPlaces \ {Unset}
        \/ /\ job[h].name = Blank
           /\ job[h].pos = Unset \/ job[h].failed \/ Key(job[h].pos) \in blanked

\* The place whose weather is shown, or shall be, and the distance.
ShowingInv(h) ==
    /\ hpc[h] = "fetch" \/ job[h].answer = "weather" =>
        /\ job[h].label \in Owners
        /\ job[h].pos \in Places[job[h].label] \ {Unset}
    /\ hpc[h] \in {"none", "bot", "toNode", "distance", "sender", "fallback", "fetch"} => ~job[h].far
    /\ job[h].far => job[h].pos # Unset

JobInv(h) == PlacingInv(h) /\ ShowingInv(h)

ShapeInv ==
    /\ hpc \in [Handlers -> Labels]
    /\ job \in [Handlers -> Jobs]

IInv == PlaceInv /\ CacheInv /\ LockInv /\ ShapeInv /\ \A h \in Handlers : JobInv(h)

-----------------------------------------------------------------------------
LEMMA OwnersAre == Owners = {"bot", "sender"} /\ Places["bot"] = BotPlaces /\ Places["sender"] = SenderPlaces
  BY DEF Owners, Places

LEMMA KeysOfPlaces == \A p \in BotPlaces : Key(p) \in Keys
  BY DEF Keys

LEMMA UnsetIsUnusable == Unset \in BotPlaces /\ Unset \in SenderPlaces /\ Unusable(Unset)
  BY DEF Unset, Unusable

LEMMA DaysAreNat == \A d \in 0..MaxDays : d \in Nat
  OBVIOUS

LEMMA InvInit == Init => IInv
<1> SUFFICES ASSUME Init PROVE IInv
  OBVIOUS
<1>1. PlaceInv
  BY OwnersAre, UnsetIsUnusable DEF Init, PlaceInv
<1>2. CacheInv
  <2>1. DOMAIN cache = {}
    BY DEF Init
  <2> QED BY <2>1 DEF Init, CacheInv
<1>3. LockInv
  BY DEF Init, LockInv, At
<1>4. NoJob \in Jobs
  BY OwnersAre, UnsetIsUnusable DEF NoJob, Jobs
<1>5. ShapeInv
  BY <1>4 DEF Init, ShapeInv, Labels
<1>6. \A h \in Handlers : JobInv(h)
  BY DEF Init, JobInv, PlacingInv, ShowingInv, NoJob, Placing, Asking, Told, At
<1> QED BY <1>1, <1>2, <1>3, <1>5, <1>6 DEF IInv

\* A handler that does nothing keeps its part of the invariant.
LEMMA OthersKeep ==
    ASSUME NEW g \in Handlers, JobInv(g), hpc'[g] = hpc[g], job'[g] = job[g],
           blanked \subseteq blanked'
    PROVE  JobInv(g)'
  BY DEF JobInv, PlacingInv, ShowingInv, Told, At

\* One that takes a step is a handler with another label and another job.
LEMMA HandlerStep ==
    ASSUME IInv, NEW h \in Handlers, NEW l \in Labels, NEW j \in Jobs,
           hpc' = [hpc EXCEPT ![h] = l], job' = [job EXCEPT ![h] = j],
           blanked \subseteq blanked', UNCHANGED at,
           CacheInv', LockInv',
           JobInv(h)'
    PROVE  IInv'
<1>1. ShapeInv'
  BY DEF IInv, ShapeInv
<1>2. ASSUME NEW g \in Handlers PROVE JobInv(g)'
  <2>1. CASE g = h
    BY <2>1
  <2>2. CASE g # h
    <3>1. hpc'[g] = hpc[g] /\ job'[g] = job[g]
      BY <2>2 DEF IInv, ShapeInv
    <3> QED BY <3>1, OthersKeep DEF IInv
  <2> QED BY <2>1, <2>2
<1>3. PlaceInv'
  BY DEF IInv, PlaceInv
<1> QED BY <1>1, <1>2, <1>3 DEF IInv

\* The labels and jobs of the steps below are what HandlerStep speaks of.
LEMMA ReadingKeeps ==
    ASSUME IInv, NEW h \in Handlers, ReadBot(h) \/ ReadToNode(h) \/ Distance(h) \/ NoPlace(h)
    PROVE  IInv'
<1> USE DEF At, Goto, Asking, Placing, Labels
<1>0. UNCHANGED <<at, cache, lock, blanked, dead>>
  BY DEF ReadBot, ReadToNode, Distance, NoPlace
<1>1. CacheInv' /\ job[h] \in Jobs /\ hpc[h] \in Labels /\ JobInv(h)
  BY <1>0 DEF IInv, CacheInv, ShapeInv
<1>2. hpc[h] \in {"bot", "toNode", "distance", "place"}
  BY DEF ReadBot, ReadToNode, Distance, NoPlace
<1>3. at["bot"] \in BotPlaces /\ ToNodePosition(h) \in BotPlaces
  BY UnsetIsUnusable DEF IInv, PlaceInv, ToNodePosition
<1>4. PICK l \in {"toNode", "distance", "place", "done"} : hpc' = [hpc EXCEPT ![h] = l]
  BY DEF ReadBot, ReadToNode, Distance, NoPlace, Answer, HasPosition
<1>5. LockInv'
  BY <1>0, <1>2, <1>4 DEF IInv, LockInv, ShapeInv
<1>6. CASE ReadBot(h) \/ ReadToNode(h)
  <2>1. PICK p \in BotPlaces : job' = [job EXCEPT ![h] = [@ EXCEPT !.pos = p]]
    BY <1>3, <1>6 DEF ReadBot, ReadToNode
  <2>2. hpc[h] \in {"bot", "toNode"} /\ l # "done"
    BY <1>4, <1>6 DEF ReadBot, ReadToNode, HasPosition, IInv, ShapeInv
  <2>3. [job[h] EXCEPT !.pos = p] \in Jobs
    BY <1>1 DEF Jobs
  <2>4. JobInv(h)'
    <3>1. job'[h] = [job[h] EXCEPT !.pos = p] /\ hpc'[h] = l
      BY <1>4, <2>1 DEF IInv, ShapeInv
    <3>2. PlacingInv(h)'
      BY <1>0, <1>1, <2>2, <3>1 DEF JobInv, PlacingInv, Told, Jobs
    <3>3. ShowingInv(h)'
      BY <1>0, <1>1, <2>2, <3>1 DEF JobInv, PlacingInv, ShowingInv, Jobs
    <3> QED BY <3>2, <3>3 DEF JobInv
  <2> QED BY <1>0, <1>1, <1>4, <1>5, <2>1, <2>3, <2>4, HandlerStep
<1>7. CASE Distance(h)
  <2>1. PICK f \in BOOLEAN : /\ job' = [job EXCEPT ![h] = [@ EXCEPT !.far = f]]
                             /\ f => job[h].pos # Unset
    BY <1>7 DEF Distance
  <2>2. hpc[h] = "distance" /\ l = "place"
    BY <1>4, <1>7 DEF Distance, IInv, ShapeInv
  <2>3. [job[h] EXCEPT !.far = f] \in Jobs
    BY <1>1 DEF Jobs
  <2>4. JobInv(h)'
    <3>1. job'[h] = [job[h] EXCEPT !.far = f] /\ hpc'[h] = l
      BY <1>4, <2>1 DEF IInv, ShapeInv
    <3>2. PlacingInv(h)'
      BY <1>0, <1>1, <2>2, <3>1 DEF JobInv, PlacingInv, Told, Jobs
    <3>3. ShowingInv(h)'
      BY <1>0, <1>1, <2>1, <2>2, <3>1 DEF JobInv, PlacingInv, ShowingInv, Jobs
    <3> QED BY <3>2, <3>3 DEF JobInv
  <2> QED BY <1>0, <1>1, <1>4, <1>5, <2>1, <2>3, <2>4, HandlerStep
<1>8. CASE NoPlace(h)
  <2>1. job' = [job EXCEPT ![h] = [@ EXCEPT !.answer = "place"]]
    BY <1>8 DEF NoPlace, Answer
  <2>2. l = "done" /\ job[h].pos = Unset /\ hpc[h] = "place"
    BY <1>4, <1>8 DEF NoPlace, Answer, IInv, ShapeInv
  <2>3. [job[h] EXCEPT !.answer = "place"] \in Jobs
    BY <1>1 DEF Jobs
  <2>4. JobInv(h)'
    <3>1. job'[h] = [job[h] EXCEPT !.answer = "place"] /\ hpc'[h] = l
      BY <1>4, <2>1 DEF IInv, ShapeInv
    <3>2. PlacingInv(h)'
      BY <1>0, <1>1, <2>2, <3>1 DEF JobInv, PlacingInv, Told, Jobs
    <3>3. ShowingInv(h)'
      BY <1>0, <1>1, <2>1, <2>2, <3>1 DEF JobInv, PlacingInv, ShowingInv, Jobs
    <3> QED BY <3>2, <3>3 DEF JobInv
  <2> QED BY <1>0, <1>1, <1>4, <1>5, <2>1, <2>3, <2>4, HandlerStep
<1> QED BY <1>6, <1>7, <1>8

\* The cache and its lock.
LEMMA CachingKeeps ==
    ASSUME IInv, NEW h \in Handlers,
           Lock(h) \/ Look(h) \/ Named(h) \/ Unnamed(h) \/ Store(h)
    PROVE  IInv'
<1> USE DEF At, Goto, Asking, Placing, Labels, Blank
<1>0. UNCHANGED <<at, dead>> /\ job[h] \in Jobs /\ hpc[h] \in Labels /\ JobInv(h)
  BY DEF Lock, Look, Named, Unnamed, Store, IInv, ShapeInv
<1>1. CASE Lock(h)
  <2>1. PICK l \in {"look", "store"} : hpc' = [hpc EXCEPT ![h] = l] /\ (l = "store" <=> hpc[h] = "named")
    BY <1>1 DEF Lock
  <2>2. UNCHANGED <<job, cache, blanked>> /\ lock = Free /\ lock' = h
    BY <1>1 DEF Lock
  <2>3. CacheInv'
    BY <1>0, <2>2 DEF IInv, CacheInv
  <2>4. LockInv'
    BY <2>1, <2>2 DEF IInv, LockInv, ShapeInv
  <2>5. hpc[h] \in {"place", "named"} /\ job[h].pos \in BotPlaces \ {Unset}
    BY <1>0, <1>1 DEF Lock, JobInv, PlacingInv
  <2>6. job' = [job EXCEPT ![h] = job[h]] /\ job'[h] = job[h] /\ hpc'[h] = l
    BY <2>1, <2>2 DEF IInv, ShapeInv
  <2>7. PlacingInv(h)'
    BY <1>0, <2>1, <2>2, <2>5, <2>6 DEF JobInv, PlacingInv, Told
  <2>8. ShowingInv(h)'
    BY <1>0, <2>1, <2>5, <2>6 DEF JobInv, PlacingInv, ShowingInv
  <2> QED BY <1>0, <2>1, <2>2, <2>3, <2>4, <2>6, <2>7, <2>8, HandlerStep DEF JobInv
<1>2. CASE Look(h)
  <2> DEFINE k == Key(job[h].pos)
  <2>1. PICK l \in {"done", "ask"} : hpc' = [hpc EXCEPT ![h] = l] /\ (l = "done" <=> k \in DOMAIN cache)
    BY <1>2 DEF Look
  <2>2. UNCHANGED <<cache, blanked>> /\ lock' = Free /\ hpc[h] = "look"
    BY <1>2 DEF Look
  <2>3. CacheInv'
    BY <1>0, <2>2 DEF IInv, CacheInv
  <2>4. LockInv'
    BY <2>1, <2>2 DEF IInv, LockInv, ShapeInv
  <2>5. job[h].pos \in BotPlaces \ {Unset} /\ job[h].name = Blank /\ job[h].answer = "none"
    BY <1>0, <2>2 DEF JobInv, PlacingInv
  <2>6. CASE k \in DOMAIN cache
    <3>1. job' = [job EXCEPT ![h] = [@ EXCEPT !.name = cache[k], !.answer = "place"]]
      BY <1>2, <2>6 DEF Look
    <3>2. cache[k] = k \/ (cache[k] = Blank /\ k \in blanked)
      BY <2>6 DEF IInv, CacheInv
    <3>3. cache[k] \in Keys \union {Blank}
      BY <2>5, <3>2, KeysOfPlaces
    <3>4. [job[h] EXCEPT !.name = cache[k], !.answer = "place"] \in Jobs
      BY <1>0, <3>3 DEF Jobs
    <3>5. job'[h] = [job[h] EXCEPT !.name = cache[k], !.answer = "place"] /\ hpc'[h] = "done"
      BY <2>1, <2>6, <3>1 DEF IInv, ShapeInv
    <3>6. PlacingInv(h)'
      BY <1>0, <2>2, <2>5, <3>2, <3>5 DEF JobInv, PlacingInv, Told, Jobs
    <3>7. ShowingInv(h)'
      BY <1>0, <2>2, <2>5, <3>5 DEF JobInv, ShowingInv, Jobs
    <3> QED BY <1>0, <2>1, <2>2, <2>3, <2>4, <3>1, <3>4, <3>6, <3>7, HandlerStep DEF JobInv
  <2>7. CASE k \notin DOMAIN cache
    <3>1. job' = job
      BY <1>2, <2>7 DEF Look
    <3>2. job' = [job EXCEPT ![h] = job[h]] /\ job'[h] = job[h] /\ hpc'[h] = "ask"
      BY <2>1, <2>7, <3>1 DEF IInv, ShapeInv
    <3>3. PlacingInv(h)'
      BY <1>0, <2>2, <2>5, <3>2 DEF JobInv, PlacingInv, Told
    <3>4. ShowingInv(h)'
      BY <1>0, <2>2, <2>5, <3>2 DEF JobInv, ShowingInv
    <3> QED BY <1>0, <2>1, <2>2, <2>3, <2>4, <3>2, <3>3, <3>4, HandlerStep DEF JobInv
  <2> QED BY <2>6, <2>7
<1>3. CASE Named(h)
  <2>1. hpc[h] = "ask" /\ hpc' = [hpc EXCEPT ![h] = "named"] /\ UNCHANGED <<cache, lock>>
    BY <1>3 DEF Named
  <2>2. PICK name \in {Key(job[h].pos), Blank} :
            /\ job' = [job EXCEPT ![h] = [@ EXCEPT !.name = name]]
            /\ blanked' = IF name = Blank THEN blanked \union {Key(job[h].pos)} ELSE blanked
    BY <1>3 DEF Named
  <2>3. job[h].pos \in BotPlaces \ {Unset} /\ job[h].answer = "none"
    BY <1>0, <2>1 DEF JobInv, PlacingInv
  <2>4. name \in Keys \union {Blank} /\ Key(job[h].pos) \in Keys
    BY <2>3, KeysOfPlaces
  <2>5. CacheInv'
    BY <1>0, <2>1, <2>2, <2>4 DEF IInv, CacheInv
  <2>6. LockInv'
    BY <2>1 DEF IInv, LockInv, ShapeInv
  <2>7. [job[h] EXCEPT !.name = name] \in Jobs
    BY <1>0, <2>4 DEF Jobs
  <2>8. job'[h] = [job[h] EXCEPT !.name = name] /\ hpc'[h] = "named"
    BY <2>1, <2>2 DEF IInv, ShapeInv
  <2>9. PlacingInv(h)'
    BY <1>0, <2>1, <2>2, <2>3, <2>8 DEF JobInv, PlacingInv, Told, Jobs
  <2>10. ShowingInv(h)'
    BY <1>0, <2>1, <2>3, <2>8 DEF JobInv, ShowingInv, Jobs
  <2> QED BY <1>0, <2>1, <2>2, <2>5, <2>6, <2>7, <2>9, <2>10, HandlerStep DEF JobInv
<1>4. CASE Unnamed(h)
  <2>1. hpc[h] = "ask" /\ hpc' = [hpc EXCEPT ![h] = "done"] /\ UNCHANGED <<cache, lock, blanked>>
    BY <1>4 DEF Unnamed
  <2>2. job' = [job EXCEPT ![h] = [@ EXCEPT !.failed = TRUE, !.answer = "place"]]
    BY <1>4 DEF Unnamed
  <2>3. CacheInv'
    BY <1>0, <2>1 DEF IInv, CacheInv
  <2>4. LockInv'
    BY <2>1 DEF IInv, LockInv, ShapeInv
  <2>5. [job[h] EXCEPT !.failed = TRUE, !.answer = "place"] \in Jobs
    BY <1>0 DEF Jobs
  <2>6. job'[h] = [job[h] EXCEPT !.failed = TRUE, !.answer = "place"] /\ hpc'[h] = "done"
    BY <2>1, <2>2 DEF IInv, ShapeInv
  <2>7. PlacingInv(h)'
    BY <1>0, <2>1, <2>6 DEF JobInv, PlacingInv, Told, Jobs
  <2>8. ShowingInv(h)'
    BY <1>0, <2>1, <2>6 DEF JobInv, PlacingInv, ShowingInv, Jobs
  <2> QED BY <1>0, <2>1, <2>2, <2>3, <2>4, <2>5, <2>7, <2>8, HandlerStep DEF JobInv
<1>5. CASE Store(h)
  <2>1. hpc[h] = "store" /\ hpc' = [hpc EXCEPT ![h] = "done"] /\ lock' = Free /\ UNCHANGED blanked
    BY <1>5 DEF Store, Answer
  <2>2. job' = [job EXCEPT ![h] = [@ EXCEPT !.answer = "place"]]
    BY <1>5 DEF Store, Answer
  <2>3. job[h].pos \in BotPlaces \ {Unset}
    BY <1>0, <2>1 DEF JobInv, PlacingInv
  <2>4. CacheInv'
    <3> DEFINE k == Key(job[h].pos)
    <3>1. k \in Keys /\ (job[h].name = k \/ (job[h].name = Blank /\ k \in blanked))
      BY <1>0, <2>1, <2>3, KeysOfPlaces DEF JobInv, PlacingInv
    <3>2. cache' = [x \in DOMAIN cache \union {k} |-> IF x = k THEN job[h].name ELSE cache[x]]
      BY <1>5 DEF Store
    <3>3. /\ DOMAIN cache' = DOMAIN cache \union {k}
          /\ cache'[k] = job[h].name
          /\ \A x \in DOMAIN cache : x # k => cache'[x] = cache[x]
      BY <3>2
    <3> QED BY <1>0, <2>1, <3>1, <3>3 DEF IInv, CacheInv
  <2>5. LockInv'
    BY <2>1 DEF IInv, LockInv, ShapeInv
  <2>6. [job[h] EXCEPT !.answer = "place"] \in Jobs
    BY <1>0 DEF Jobs
  <2>7. job'[h] = [job[h] EXCEPT !.answer = "place"] /\ hpc'[h] = "done"
    BY <2>1, <2>2 DEF IInv, ShapeInv
  <2>8. PlacingInv(h)'
    BY <1>0, <2>1, <2>3, <2>7 DEF JobInv, PlacingInv, Told, Jobs
  <2>9. ShowingInv(h)'
    BY <1>0, <2>1, <2>3, <2>7 DEF JobInv, PlacingInv, ShowingInv, Jobs
  <2> QED BY <1>0, <2>1, <2>2, <2>4, <2>5, <2>6, <2>8, <2>9, HandlerStep DEF JobInv
<1> QED BY <1>1, <1>2, <1>3, <1>4, <1>5

\* Two records about one place, with one label, name and distance.
SameWork(i, j) == i.pos = j.pos /\ i.label = j.label /\ i.far = j.far /\ i.name = j.name

\* The commands about the weather.
LEMMA ShowingKeeps ==
    ASSUME IInv, NEW h \in Handlers, ReadSender(h) \/ Fallback(h) \/ Service(h)
    PROVE  IInv'
<1> USE DEF At, Goto, Asking, Placing, Labels
<1>0. /\ UNCHANGED <<at, cache, lock, blanked>> /\ dead' \in BOOLEAN
      /\ job[h] \in Jobs /\ JobInv(h)
  BY DEF ReadSender, Fallback, Service, NoWeather, FetchWeather, FetchForecast, IInv, ShapeInv,
         CacheInv
<1>1. CacheInv'
  BY <1>0 DEF IInv, CacheInv
<1>2. PICK l \in {"fallback", "fetch", "done"} : hpc' = [hpc EXCEPT ![h] = l]
  BY DEF ReadSender, Fallback, Service, NoWeather, FetchWeather, FetchForecast, Answer
<1>3. hpc[h] \in {"sender", "fallback", "fetch"}
  BY DEF ReadSender, Fallback, Service, NoWeather, FetchWeather, FetchForecast
<1>4. LockInv'
  BY <1>0, <1>2, <1>3 DEF IInv, LockInv, ShapeInv
<1>5. hpc'[h] = l
  BY <1>2 DEF IInv, ShapeInv
<1>6. at["sender"] \in SenderPlaces /\ ToNodePosition(h) \in BotPlaces
  BY UnsetIsUnusable DEF IInv, PlaceInv, ToNodePosition
<1>7. job[h].name = Blank /\ job[h].answer = "none" /\ ~job[h].far
  BY <1>0, <1>3 DEF JobInv, PlacingInv, ShowingInv
<1>8. CASE ReadSender(h)
  <2> DEFINE j == [job[h] EXCEPT !.pos = at["sender"], !.label = "sender"]
  <2>1. job' = [job EXCEPT ![h] = j] /\ (l = "fetch" => ~Unusable(at["sender"])) /\ l # "done"
    BY <1>5, <1>8 DEF ReadSender, IInv, ShapeInv
  <2>2. j \in Jobs
    BY <1>0, <1>6, OwnersAre DEF Jobs
  <2>3. job'[h] = j
    BY <2>1 DEF IInv, ShapeInv
  <2>4. PlacingInv(h)'
    BY <1>0, <1>5, <1>7, <2>1, <2>3 DEF PlacingInv, Told, Jobs
  <2>5. l = "fetch" => at["sender"] # Unset
    BY <2>1, UnsetIsUnusable
  <2>6. ShowingInv(h)'
    BY <1>0, <1>5, <1>6, <1>7, <2>3, <2>5, OwnersAre DEF ShowingInv, Jobs
  <2> QED BY <1>0, <1>1, <1>2, <1>4, <2>1, <2>2, <2>4, <2>6, HandlerStep DEF JobInv
<1>9. CASE Fallback(h)
  <2> DEFINE p == ToNodePosition(h)
             a == IF Unusable(p) THEN "nowhere" ELSE "none"
             j == [job[h] EXCEPT !.pos = p, !.label = "bot", !.answer = a]
  <2>1. job' = [job EXCEPT ![h] = j] /\ l = IF Unusable(p) THEN "done" ELSE "fetch"
    BY <1>5, <1>9 DEF Fallback, IInv, ShapeInv
  <2>2. j \in Jobs
    BY <1>0, <1>6, OwnersAre DEF Jobs
  <2>3. job'[h] = j
    BY <2>1 DEF IInv, ShapeInv
  <2>4. PlacingInv(h)'
    BY <1>0, <1>5, <1>7, <2>1, <2>3 DEF PlacingInv, Told, Jobs
  <2>5. l = "fetch" => p # Unset
    BY <2>1, UnsetIsUnusable
  <2>6. ShowingInv(h)'
    BY <1>0, <1>5, <1>6, <1>7, <2>3, <2>5, OwnersAre DEF ShowingInv, Jobs
  <2> QED BY <1>0, <1>1, <1>2, <1>4, <2>1, <2>2, <2>4, <2>6, HandlerStep DEF JobInv
<1>10. CASE Service(h)
  <2>1. hpc[h] = "fetch" /\ l = "done"
    BY <1>5, <1>10 DEF Service, NoWeather, FetchWeather, FetchForecast, Answer, IInv, ShapeInv
  <2>2. \E j \in Jobs : /\ job' = [job EXCEPT ![h] = j]
                        /\ j.answer \in {"error", "weather"}
                        /\ SameWork(j, job[h])
    <3> USE DEF SameWork
    <3>1. CASE NoWeather(h) \/ FetchWeather(h)
      <4>1. PICK a \in {"error", "weather"} : job' = [job EXCEPT ![h] = [@ EXCEPT !.answer = a]]
        BY <3>1 DEF NoWeather, FetchWeather, Answer
      <4>2. [job[h] EXCEPT !.answer = a] \in Jobs
        BY <1>0 DEF Jobs
      <4>3. SameWork([job[h] EXCEPT !.answer = a], job[h]) /\ [job[h] EXCEPT !.answer = a].answer = a
        BY <1>0 DEF Jobs
      <4> QED BY <4>1, <4>2, <4>3
    <3>2. CASE FetchForecast(h)
      <4>1. PICK d \in 0..MaxDays, v \in 0..MaxDays :
              job' = [job EXCEPT ![h].days = d, ![h].values = v, ![h].answer = "weather"]
        BY <3>2, Zenon DEF FetchForecast
      <4> DEFINE j == [job[h] EXCEPT !.days = d, !.values = v, !.answer = "weather"]
      <4>2. job' = [job EXCEPT ![h] = j]
        BY <4>1 DEF IInv, ShapeInv
      <4>3. j \in Jobs /\ SameWork(j, job[h]) /\ j.answer = "weather"
        BY <1>0, DaysAreNat DEF Jobs
      <4> QED BY <4>2, <4>3
    <3> QED BY <1>10, <3>1, <3>2 DEF Service
  <2>3. PICK j \in Jobs : /\ job' = [job EXCEPT ![h] = j]
                          /\ j.answer \in {"error", "weather"}
                          /\ SameWork(j, job[h])
    BY <2>2
  <2>4. /\ job'[h] = j /\ j.pos = job[h].pos /\ j.label = job[h].label
        /\ j.far = job[h].far /\ j.name = job[h].name
    BY <2>3 DEF IInv, ShapeInv, SameWork
  <2>5. PlacingInv(h)'
    BY <1>0, <1>5, <1>7, <2>1, <2>3, <2>4 DEF PlacingInv, Told
  <2>6. ShowingInv(h)'
    BY <1>0, <1>5, <1>7, <2>1, <2>4 DEF JobInv, ShowingInv
  <2> QED BY <1>0, <1>1, <1>2, <1>4, <2>3, <2>5, <2>6, HandlerStep DEF JobInv
<1> QED BY <1>8, <1>9, <1>10

LEMMA ArriveKeeps == ASSUME IInv, NEW h \in Handlers, Arrive(h) PROVE IInv'
<1> USE DEF At, Goto, Asking, Placing, Labels
<1>1. PICK a \in Asks[h] :
          /\ job' = [job EXCEPT ![h].command = a[1], ![h].public = a[2]]
          /\ hpc' = [hpc EXCEPT ![h] = IF a[1] \in Naming THEN "bot" ELSE "sender"]
  BY DEF Arrive
<1> DEFINE l == IF a[1] \in Naming THEN "bot" ELSE "sender"
           j == [job[h] EXCEPT !.command = a[1], !.public = a[2]]
<1>2. UNCHANGED <<at, cache, lock, blanked, dead>> /\ hpc[h] = "none" /\ job[h] \in Jobs /\ JobInv(h)
  BY DEF Arrive, IInv, ShapeInv
<1>3. a[1] \in Naming \union Reporting /\ a[2] \in BOOLEAN
  OBVIOUS
<1>4. job' = [job EXCEPT ![h] = j] /\ j \in Jobs
  BY <1>1, <1>2, <1>3 DEF Jobs
<1>5. CacheInv'
  BY <1>2 DEF IInv, CacheInv
<1>6. LockInv'
  BY <1>1, <1>2 DEF IInv, LockInv, ShapeInv
<1>7. job'[h] = j /\ hpc'[h] \in {"bot", "sender"}
  BY <1>1, <1>4 DEF IInv, ShapeInv
<1>8. SameWork(j, job[h]) /\ j.answer = job[h].answer
  BY <1>2 DEF SameWork, Jobs
<1>9. PlacingInv(h)'
  BY <1>2, <1>7, <1>8 DEF JobInv, PlacingInv, Told, SameWork
<1>10. ShowingInv(h)'
  BY <1>2, <1>7, <1>8 DEF JobInv, PlacingInv, ShowingInv, SameWork
<1> QED BY <1>1, <1>2, <1>4, <1>5, <1>6, <1>9, <1>10, HandlerStep DEF JobInv

LEMMA MoveKeeps == ASSUME IInv, NEW o \in Owners, Move(o) PROVE IInv'
<1>1. UNCHANGED <<hpc, job, cache, lock, blanked, dead>>
  BY DEF Move
<1>2. PlaceInv'
  <2>1. PICK p \in Places[o] : at' = [at EXCEPT ![o] = p]
    BY DEF Move
  <2> QED BY <2>1, OwnersAre DEF IInv, PlaceInv
<1>3. CacheInv' /\ LockInv' /\ ShapeInv'
  BY <1>1 DEF IInv, CacheInv, LockInv, ShapeInv, At
<1>4. \A h \in Handlers : JobInv(h)'
  BY <1>1, OthersKeep DEF IInv
<1> QED BY <1>2, <1>3, <1>4 DEF IInv

LEMMA InvNext == IInv /\ [Next]_vars => IInv'
<1> SUFFICES ASSUME IInv, [Next]_vars PROVE IInv'
  OBVIOUS
<1>1. CASE UNCHANGED vars
  <2>1. UNCHANGED <<at, hpc, job, cache, lock, blanked, dead>>
    BY <1>1 DEF vars
  <2>2. PlaceInv' /\ CacheInv' /\ LockInv' /\ ShapeInv'
    BY <2>1 DEF IInv, PlaceInv, CacheInv, LockInv, ShapeInv, At
  <2>3. \A h \in Handlers : JobInv(h)'
    BY <2>1, OthersKeep DEF IInv
  <2> QED BY <2>2, <2>3 DEF IInv
<1>2. CASE \E o \in Owners : Move(o)
  BY <1>2, MoveKeeps
<1>3. CASE \E h \in Handlers : Arrive(h) \/ Own(h) \/ Service(h)
  BY <1>3, ArriveKeeps, ReadingKeeps, CachingKeeps, ShowingKeeps DEF Own
<1> QED BY <1>1, <1>2, <1>3 DEF Next, Running

\* The inductive invariant: where the position, the name and the label that a
\* handler has come from, and who is inside the lock.
THEOREM Invariance == Spec => []IInv
  BY InvInit, InvNext, PTL DEF Spec

\* Every variable keeps its shape, and whoever holds the lock is inside.
THEOREM TypeCorrect == Spec => []TypeOK
<1>1. IInv => TypeOK
  <2> SUFFICES ASSUME IInv PROVE TypeOK
    OBVIOUS
  <2>1. \A h \in Handlers : /\ At(h, "look") \/ At(h, "ask") \/ At(h, "store") => job[h].pos # Unset
                            /\ job[h].name \in Keys \union {Blank}
    BY DEF IInv, ShapeInv, Jobs, JobInv, PlacingInv, Asking, At
  <2>2. \A k \in DOMAIN cache : cache[k] \in {k, Blank}
    BY DEF IInv, CacheInv
  <2> QED BY <2>1, <2>2 DEF TypeOK, IInv, PlaceInv, CacheInv, LockInv
<1> QED BY <1>1, Invariance, PTL

\* The place that is named is the one the bot was at, however requests for
\* names and the cache are interleaved (localityText).
THEOREM NamesPlace == Spec => []LocalityIsRight
<1>1. IInv => LocalityIsRight
  BY DEF IInv, JobInv, PlacingInv, LocalityIsRight
<1> QED BY <1>1, Invariance, PTL

\* The weather that is shown is that of whom the label says (handlePogoda and
\* handlePrognoza).
THEOREM LabelsWeather == Spec => []LabelIsTrue
<1>1. IInv => LabelIsTrue
  BY DEF IInv, JobInv, ShowingInv, LabelIsTrue
<1> QED BY <1>1, Invariance, PTL

-----------------------------------------------------------------------------
(* The safety side of HandlersAnswer                                        *)

\* A handler that waits for the lock waits for one that is about to release
\* it, and a panic is owed to the forecast, not to the limit of two days.
NobodyIsHeldUp ==
    /\ lock # Free => \E h \in Handlers : At(h, "look") \/ At(h, "store")
    /\ dead => Malformed

LEMMA LimitWithin == \A days \in Nat : Limit(days) <= days
  BY DEF Limit

\* Only FetchForecast panics, and over arrays that are too long.
LEMMA OnlyForecastPanics ==
    ASSUME IInv, dead => Malformed, [Next]_vars PROVE dead' => Malformed'
<1>1. CASE UNCHANGED vars
  BY <1>1 DEF vars, Malformed
<1>2. CASE ~dead /\ \E h \in Handlers : FetchForecast(h)
  <2>1. PICK h \in Handlers : FetchForecast(h)
    BY <1>2
  <2>2. PICK days \in 0..MaxDays, values \in 0..MaxDays :
            /\ job' = [job EXCEPT ![h].days = days, ![h].values = values, ![h].answer = "weather"]
            /\ dead' = (values > days \/ Limit(days) > days)
    BY <2>1 DEF FetchForecast
  <2>3. days \in Nat /\ values \in Nat /\ Limit(days) <= days /\ Limit(days) \in Nat
    BY <2>2, LimitWithin DEF Limit
  <2>4. job'[h].days = days /\ job'[h].values = values
    <3>1. job[h] \in Jobs /\ job \in [Handlers -> Jobs]
      BY DEF IInv, ShapeInv
    <3>2. job'[h] = [job[h] EXCEPT !.days = days, !.values = values, !.answer = "weather"]
      BY <2>2, <3>1
    <3>3. {"command", "public", "pos", "label", "far", "name", "failed", "days", "values", "answer"} = DOMAIN job[h]
      BY <3>1 DEF Jobs
    <3> QED BY <3>2, <3>3
  <2>5. ~(Limit(days) > days)
    BY <2>3
  <2>6. dead' => values > days
    BY <2>2, <2>5, Zenon
  <2> QED BY <2>4, <2>6 DEF Malformed
<1>3. CASE ~dead /\ UNCHANGED dead
  BY <1>3
<1>4. \A h \in Handlers : Own(h) \/ Arrive(h) \/ NoWeather(h) \/ FetchWeather(h) => UNCHANGED dead
  BY DEF Own, Arrive, NoWeather, FetchWeather, ReadBot, ReadToNode, Distance, NoPlace, Lock, Look,
         Named, Unnamed, Store, ReadSender, Fallback
<1>5. \A o \in Owners : Move(o) => UNCHANGED dead
  BY DEF Move
<1> QED BY <1>1, <1>2, <1>3, <1>4, <1>5 DEF Next, Running, Service

\* What HandlersAnswer rests on, for any number of handlers: nobody waits for
\* a lock that is not about to be released, and the process does not die of a
\* forecast that is in order (FetchLocality, FetchForecast).
THEOREM NobodyHeldUp == Spec => []NobodyIsHeldUp
<1>1. Init => (dead => Malformed)
  BY DEF Init
<1>2. IInv /\ (dead => Malformed) /\ [Next]_vars => (dead' => Malformed')
  BY OnlyForecastPanics
<1>3. IInv /\ (dead => Malformed) => NobodyIsHeldUp
  BY DEF IInv, LockInv, NobodyIsHeldUp
<1>4. (dead => Malformed)' <=> (dead' => Malformed')
  OBVIOUS
<1> QED BY <1>1, <1>2, <1>3, <1>4, Invariance, PTL DEF Spec
=============================================================================
