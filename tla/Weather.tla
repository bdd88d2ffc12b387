------------------------------- MODULE Weather -------------------------------
(****************************************************************************)
(* The commands that ask services on the Internet (main.go, open_meteo.go): *)
(* /hopy and /test name the place the bot is at, /pogoda and /prognoza tell *)
(* the weather where the sender is, or else where the bot is.               *)
(*                                                                          *)
(* Each message is handled by a goroutine of its own.  They share the cache *)
(* of names, which a lock protects while it is read or written but not      *)
(* while a name is asked for, and they read positions that the reader of    *)
(* the connection replaces meanwhile.                                       *)
(*                                                                          *)
(* Abstracted: a position is a pair of coordinates out of a few, its key in *)
(* the cache the pair of rounded ones, and a name the key it was asked for; *)
(* weather is the position it was asked for, and a forecast, besides, how   *)
(* many days and how many values for each the service sent.                 *)
(****************************************************************************)
EXTENDS Naturals

CONSTANTS Handlers,      \* the goroutines that handle one message each
          Asks,          \* the messages each may be given: command, and channel or not
          BotPlaces,     \* where the bot may be
          SenderPlaces,  \* where the sender of the messages may be
          Round,         \* what "%.3f" makes of each coordinate
          MaxDays        \* bound: how long the arrays of a forecast are

Naming == {"hopy", "test"}
Reporting == {"pogoda", "prognoza"}

\* The position of a node that told none.
Unset == <<0, 0>>

\* The lock, when nobody holds it.
Free == "free"

ASSUME WeatherAssumption ==
    /\ Asks \in [Handlers -> SUBSET ((Naming \union Reporting) \X BOOLEAN)]
    /\ BotPlaces \union SenderPlaces \subseteq (DOMAIN Round) \X (DOMAIN Round)
    /\ BotPlaces \intersect SenderPlaces = {Unset}
    /\ Free \notin Handlers
    /\ MaxDays \in Nat

VARIABLES
    at,       \* Node.Position of the bot and of the sender
    hpc,      \* where each handler is
    job,      \* what it works on
    cache,    \* localityCache
    lock,     \* who holds localityCacheMu
    blanked,  \* history: the keys the service gave an empty name for
    dead      \* whether a handler has panicked

vars == <<at, hpc, job, cache, lock, blanked, dead>>

Places == [bot |-> BotPlaces, sender |-> SenderPlaces]
Owners == DOMAIN Places

\* fmt.Sprintf("%.3f,%.3f", position.Latitude, position.Longitude)
Key(p) == <<Round[p[1]], Round[p[2]]>>
Keys == {Key(p) : p \in BotPlaces}

\* The empty name; localityText turns it into "unknown place".
Blank == <<>>

NoJob == [command |-> "none", public |-> FALSE, pos |-> Unset, label |-> "none",
          far |-> FALSE, name |-> Blank, failed |-> FALSE, days |-> 0, values |-> 0,
          answer |-> "none"]

Init ==
    /\ at = [o \in Owners |-> Unset]
    /\ hpc = [h \in Handlers |-> "none"]
    /\ job = [h \in Handlers |-> NoJob]
    /\ cache = << >>
    /\ lock = Free
    /\ blanked = {}
    /\ dead = FALSE

Goto(h, l) == hpc' = [hpc EXCEPT ![h] = l]
At(h, l) == hpc[h] = l

\* The reader learns a position.
Move(o) ==
    /\ at' \in {[at EXCEPT ![o] = p] : p \in Places[o]}
    /\ UNCHANGED <<hpc, job, cache, lock, blanked, dead>>

\* incoming(): a message arrives, in private or on a channel.
Arrive(h) ==
    /\ At(h, "none")
    /\ \E a \in Asks[h] :
        /\ job' = [job EXCEPT ![h].command = a[1], ![h].public = a[2]]
        /\ Goto(h, IF a[1] \in Naming THEN "bot" ELSE "sender")
    /\ UNCHANGED <<at, cache, lock, blanked, dead>>

\* ToNode.GetPosition(): on a channel ToNode is Broadcast, which has none.
ToNodePosition(h) == IF job[h].public THEN Unset ELSE at["bot"]

-----------------------------------------------------------------------------
(* /hopy and /test                                                          *)

HasPosition(h) == IF job[h].command = "test" THEN "distance" ELSE "place"

\* botPosition: ReceivingNode's, or else ToNode's.
ReadBot(h) ==
    /\ At(h, "bot")
    /\ job' = [job EXCEPT ![h].pos = at["bot"]]
    /\ Goto(h, IF at["bot"] = Unset THEN "toNode" ELSE HasPosition(h))
    /\ UNCHANGED <<at, cache, lock, blanked, dead>>

ReadToNode(h) ==
    /\ At(h, "toNode")
    /\ job' = [job EXCEPT ![h].pos = ToNodePosition(h)]
    /\ Goto(h, HasPosition(h))
    /\ UNCHANGED <<at, cache, lock, blanked, dead>>

\* distanceMeters, between the bot and the sender if both positions are known.
Distance(h) ==
    /\ At(h, "distance")
    /\ job' = [job EXCEPT ![h].far = (job[h].pos # Unset /\ at["sender"] # Unset)]
    /\ Goto(h, "place")
    /\ UNCHANGED <<at, cache, lock, blanked, dead>>

Answer(h, text) == Goto(h, "done") /\ job' = [job EXCEPT ![h].answer = text]

\* localityText of no position
NoPlace(h) ==
    /\ At(h, "place")
    /\ job[h].pos = Unset
    /\ Answer(h, "place")
    /\ UNCHANGED <<at, cache, lock, blanked, dead>>

\* localityCacheMu.Lock(), to look a name up and to store one
Lock(h) ==
    /\ (At(h, "place") /\ job[h].pos # Unset) \/ At(h, "named")
    /\ lock = Free
    /\ lock' = h
    /\ Goto(h, IF At(h, "place") THEN "look" ELSE "store")
    /\ UNCHANGED <<at, job, cache, blanked, dead>>

\* Mutant: the lock is kept when the name is found.
Look_KeepsLock(h) ==
    /\ At(h, "look")
    /\ LET k == Key(job[h].pos)
       IN  IF k \in DOMAIN cache
           THEN /\ job' = [job EXCEPT ![h].name = cache[k], ![h].answer = "place"]
                /\ Goto(h, "done")
                /\ UNCHANGED lock
           ELSE /\ lock' = Free /\ Goto(h, "ask") /\ UNCHANGED job
    /\ UNCHANGED <<at, cache, blanked, dead>>

\* The name is in the cache or has to be asked for, after the lock is released.
Look(h) ==
    /\ At(h, "look")
    /\ lock' = Free
    /\ LET k == Key(job[h].pos)
       IN  IF k \in DOMAIN cache
           THEN /\ job' = [job EXCEPT ![h].name = cache[k], ![h].answer = "place"]
                /\ Goto(h, "done")
           ELSE /\ Goto(h, "ask") /\ UNCHANGED job
    /\ UNCHANGED <<at, cache, blanked, dead>>

\* Nominatim gives a name of the address, or a display_name that begins with
\* a comma and so an empty name.
Named(h) ==
    /\ At(h, "ask")
    /\ \E name \in {Key(job[h].pos), Blank} :
        /\ job' = [job EXCEPT ![h].name = name]
        /\ blanked' = IF name = Blank THEN blanked \union {Key(job[h].pos)} ELSE blanked
    /\ Goto(h, "named")
    /\ UNCHANGED <<at, cache, lock, dead>>

\* Mutant: an error is stored like a name.
Unnamed_Stored(h) ==
    /\ At(h, "ask")
    /\ job' = [job EXCEPT ![h].failed = TRUE]
    /\ Goto(h, "named")
    /\ UNCHANGED <<at, cache, lock, blanked, dead>>

\* An error, a refusal, ten seconds without an answer, or an answer without a
\* name: nothing is stored.
Unnamed(h) ==
    /\ At(h, "ask")
    /\ job' = [job EXCEPT ![h].failed = TRUE, ![h].answer = "place"]
    /\ Goto(h, "done")
    /\ UNCHANGED <<at, cache, lock, blanked, dead>>

Store(h) ==
    /\ At(h, "store")
    /\ LET k == Key(job[h].pos)
       IN  cache' = [x \in DOMAIN cache \union {k} |-> IF x = k THEN job[h].name ELSE cache[x]]
    /\ lock' = Free
    /\ Answer(h, "place")
    /\ UNCHANGED <<at, blanked, dead>>

-----------------------------------------------------------------------------
(* /pogoda and /prognoza                                                    *)

\* What they take for an unknown position: also one on the equator or on the
\* prime meridian.
Unusable(p) == p[1] = 0 \/ p[2] = 0

ReadSender(h) ==
    /\ At(h, "sender")
    /\ job' = [job EXCEPT ![h].pos = at["sender"], ![h].label = "sender"]
    /\ Goto(h, IF Unusable(at["sender"]) THEN "fallback" ELSE "fetch")
    /\ UNCHANGED <<at, cache, lock, blanked, dead>>

\* Mutant: the label is not changed with the position.
Fallback_KeepsLabel(h) ==
    /\ At(h, "fallback")
    /\ LET p == ToNodePosition(h)
       IN  /\ job' = [job EXCEPT ![h].pos = p,
                                 ![h].answer = IF Unusable(p) THEN "nowhere" ELSE "none"]
           /\ Goto(h, IF Unusable(p) THEN "done" ELSE "fetch")
    /\ UNCHANGED <<at, cache, lock, blanked, dead>>

Fallback(h) ==
    /\ At(h, "fallback")
    /\ LET p == ToNodePosition(h)
       IN  /\ job' = [job EXCEPT ![h].pos = p, ![h].label = "bot",
                                 ![h].answer = IF Unusable(p) THEN "nowhere" ELSE "none"]
           /\ Goto(h, IF Unusable(p) THEN "done" ELSE "fetch")
    /\ UNCHANGED <<at, cache, lock, blanked, dead>>

\* FetchWeather and FetchForecast return an error.
NoWeather(h) ==
    /\ At(h, "fetch")
    /\ Answer(h, "error")
    /\ UNCHANGED <<at, cache, lock, blanked, dead>>

FetchWeather(h) ==
    /\ At(h, "fetch")
    /\ job[h].command = "pogoda"
    /\ Answer(h, "weather")
    /\ UNCHANGED <<at, cache, lock, blanked, dead>>

\* Mutant: two days are shown, however many there are.
Limit_Two(days) == 2

\* How many days are shown.
Limit(days) == IF days < 2 THEN days ELSE 2

\* The list of days is as long as the array `time'; it is indexed by the
\* positions in every other array, and up to the limit: beyond its end that
\* panics.
FetchForecast(h) ==
    /\ At(h, "fetch")
    /\ job[h].command = "prognoza"
    /\ \E days, values \in 0..MaxDays :
        /\ job' = [job EXCEPT ![h].days = days, ![h].values = values, ![h].answer = "weather"]
        /\ dead' = (values > days \/ Limit(days) > days)
    /\ Goto(h, "done")
    /\ UNCHANGED <<at, cache, lock, blanked>>

-----------------------------------------------------------------------------
\* What a handler does without waiting for the weather service; a request for
\* a name ends in ten seconds.
Own(h) ==
    \/ ReadBot(h) \/ ReadToNode(h) \/ Distance(h) \/ NoPlace(h)
    \/ Lock(h) \/ Look(h) \/ Named(h) \/ Unnamed(h) \/ Store(h)
    \/ ReadSender(h) \/ Fallback(h)

Service(h) == NoWeather(h) \/ FetchWeather(h) \/ FetchForecast(h)

Running(A) == ~dead /\ A

Next ==
    \/ \E o \in Owners : Running(Move(o))
    \/ \E h \in Handlers : Running(Arrive(h)) \/ Running(Own(h)) \/ Running(Service(h))

Spec == Init /\ [][Next]_vars

\* Goroutines run; the weather service owes no answer, and http.Get has no
\* timeout.
Fairness == \A h \in Handlers : WF_vars(Running(Own(h)))

FairSpec == Spec /\ Fairness

-----------------------------------------------------------------------------
(* Properties                                                               *)

\* The shape of the state; a name is only asked for, stored or locked for by a
\* handler that has a position, and whoever holds the lock is inside.
TypeOK ==
    /\ at \in [Owners -> BotPlaces \union SenderPlaces]
    /\ \A h \in Handlers :
        /\ At(h, "look") \/ At(h, "ask") \/ At(h, "store") => job[h].pos # Unset
        /\ lock = h <=> At(h, "look") \/ At(h, "store")
        /\ job[h].name \in Keys \union {Blank}
    /\ DOMAIN cache \subseteq Keys
    /\ \A k \in DOMAIN cache : cache[k] \in {k, Blank}
    /\ lock \in Handlers \union {Free}
    /\ blanked \subseteq Keys
    /\ dead \in BOOLEAN

Told(h) == At(h, "done") /\ job[h].answer = "place"

\* manual.md:21-23, the place "the bot answers from, by its own location": the
\* name given is that of a place the bot was at, whoever asked for it first
\* and whatever was asked for in between; the place is called unknown only if
\* the bot's position was, the handler's own request failed, or the service
\* once gave an empty name for it.
LocalityIsRight ==
    \A h \in Handlers : Told(h) =>
        \/ job[h].name = Key(job[h].pos) /\ job[h].pos \in BotPlaces \ {Unset}
        \/ /\ job[h].name = Blank
           /\ \/ job[h].pos = Unset \/ job[h].failed
              \/ Key(job[h].pos) \in blanked

\* The weather shown under "where you are" is the sender's, under "where I am"
\* the bot's, although positions change at any time; nobody is shown the
\* weather of nowhere, or a distance without two positions (incoming).
LabelIsTrue ==
    \A h \in Handlers :
        /\ job[h].answer = "weather" => job[h].pos \in Places[job[h].label] \ {Unset}
        /\ job[h].far => job[h].pos # Unset

\* A forecast whose arrays are longer than its list of days.
Malformed == \E h \in Handlers : job[h].values > job[h].days

\* Every command is answered, unless the weather service keeps its handler
\* waiting: no lock is kept, no request for a name waits for ever, and no
\* handler panics over a forecast that is in order (FetchLocality,
\* FetchForecast).
HandlersAnswer ==
    \A h \in Handlers :
        hpc[h] \notin {"none", "done", "fetch"} ~> hpc[h] \in {"done", "fetch"} \/ (dead /\ Malformed)
=============================================================================
