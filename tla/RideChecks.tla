----------------------------- MODULE RideChecks -----------------------------
(***************************************************************************)
(* The background work of the program: the commands that queue a job for   *)
(* every unchecked ride (console/dispatch.go), the job handlers that look  *)
(* up a distance or the weather (jobs.go) through the two caches           *)
(* (routing/cached.go, weather/cached.go), and the loads that change       *)
(* rides and stations meanwhile.                                           *)
(*                                                                         *)
(* It composes JobQueue, the lists and the workers, with Store, the        *)
(* tables.  A step of a handler is one SQL statement or one upstream call, *)
(* so workers, commands and loads interleave between any two of them.      *)
(***************************************************************************)
EXTENDS Store, Sequences

CONSTANTS
    Clients,     \* the processes that run a rides:check-... command
    Workers,
    Serves,
    NoJob,
    MaxJobs,
    FaultKinds,
    MaxFaults,
    Commands,    \* bound: the commands that are run
    Export       \* Export[r]: what an export may say of ride r

VARIABLES
    queues, unanswered, resent, pc, job, ctxDone, failedJobs, processed, pushed, faults,
    call,  \* call[w]: how far the handler that w runs has come
    todo   \* todo[c]: the jobs that the command c runs has still to push

Default            == "default"
RideDistanceChecks == "ride_distance_checks"
RideWeatherChecks  == "ride_weather_checks"

TypeLogTestMessage    == "log_test_message"
TypeCheckRideDistance == "check_ride_distance"
TypeCheckRideWeather  == "check_ride_weather"

Queues == {Default, RideDistanceChecks, RideWeatherChecks}
Types  == {TypeLogTestMessage, TypeCheckRideDistance, TypeCheckRideWeather}

\* Handlers.Register
Registered == {TypeLogTestMessage, TypeCheckRideDistance, TypeCheckRideWeather}

TestMessage     == [message |-> "Hello from tasks:dispatch-test"]
DistancePayload == [ride: Rides]
WeatherPayload  == [ride: Rides, force: BOOLEAN]
Payloads        == {TestMessage} \cup DistancePayload \cup WeatherPayload

Q == INSTANCE JobQueue

\* What a command pushes.
Task ==
    [type: {TypeLogTestMessage}, payload: {TestMessage}]
    \cup [type: {TypeCheckRideDistance}, payload: DistancePayload]
    \cup [type: {TypeCheckRideWeather}, payload: WeatherPayload]

AllCommands == {"dispatch-test", "check-distances", "check-weather", "force-weather"}

ASSUME RideChecksAssumption ==
    /\ IsFiniteSet(Workers)
    /\ MaxJobs \in Nat /\ MaxFaults \in Nat
    /\ Serves \in [Workers -> Seq(Queues)]
    /\ FaultKinds \subseteq Q!AllFaultKinds
    /\ NoJob \notin Q!Job
    /\ Commands \subseteq AllCommands
    /\ Export \in [Rides -> SUBSET Content]

(***************************************************************************)
(* A handler is before one of these: Find of the ride, Find of its origin  *)
(* and of its destination, Find in the cache, the upstream call, Save to   *)
(* the cache, MarkChecked.                                                 *)
(***************************************************************************)
Steps == {"ride", "origin", "destination", "cache", "fetch", "save", "mark"}

\* ride is the row that was read, origin whether the origin was known.
Call == [step: Steps, ride: Content \cup {Absent}, origin: BOOLEAN]

NewCall == [step |-> "ride", ride |-> Absent, origin |-> FALSE]

queueVars ==
    <<queues, unanswered, resent, pc, job, ctxDone, failedJobs, processed, pushed, faults>>

vars == <<storeVars, queueVars, call, todo>>

Init ==
    /\ StoreInit
    /\ Q!Init
    /\ call = [w \in Workers |-> NewCall]
    /\ todo = [c \in Clients |-> {}]

-----------------------------------------------------------------------------
(***************************************************************************)
(* The commands.  The ids are read in one query; then the jobs are pushed  *)
(* one after the other, in the order of the rows, which the query leaves   *)
(* open.  A push that fails ends the command with the rest unpushed.       *)
(***************************************************************************)
DistanceTasks ==
    {[type |-> TypeCheckRideDistance, payload |-> [ride |-> r]] :
        r \in UncheckedDistance}

WeatherTasks(ids, force) ==
    {[type |-> TypeCheckRideWeather, payload |-> [ride |-> r, force |-> force]] :
        r \in ids}

TestTasks == {[type |-> TypeLogTestMessage, payload |-> TestMessage]}

TasksOf(command) ==
    CASE command = "dispatch-test"   -> TestTasks
      [] command = "check-distances" -> DistanceTasks
      [] command = "check-weather"   -> WeatherTasks(UncheckedWeather, FALSE)
      [] command = "force-weather"   -> WeatherTasks(Loaded, TRUE)

\* Dispatcher: the list each type of job is pushed onto.
QueueOf(task) ==
    CASE task.type = TypeLogTestMessage    -> Default
      [] task.type = TypeCheckRideDistance -> RideDistanceChecks
      [] task.type = TypeCheckRideWeather  -> RideWeatherChecks

\* What a job on a list is then like.
CheckJob ==
    {j \in Q!Job : LET task == [type |-> j.type, payload |-> j.payload]
                   IN  task \in Task /\ j.queue = QueueOf(task)}

RunCommand(c, command) ==
    /\ todo[c] = {} /\ unanswered[c] = NoJob
    /\ todo' = [todo EXCEPT ![c] = TasksOf(command)]
    /\ UNCHANGED <<storeVars, queueVars, call>>

Dispatch(c, task) ==
    /\ \/ Q!Push(c, QueueOf(task), task.type, task.payload)
       \/ Q!PushReplyLost(c, QueueOf(task), task.type, task.payload)
    /\ todo' = [todo EXCEPT ![c] = @ \ {task}]
    /\ UNCHANGED <<storeVars, call>>

PushAgain(c) == Q!Resend(c) /\ UNCHANGED <<storeVars, call, todo>>

DispatchFails(c) ==
    /\ \/ todo[c] # {} /\ Q!PushFails(c)
       \/ Q!GiveUp(c)
    /\ todo' = [todo EXCEPT ![c] = {}]
    /\ UNCHANGED <<storeVars, call>>

-----------------------------------------------------------------------------
(***************************************************************************)
(* The handlers.                                                           *)
(***************************************************************************)
Doing(w, type) == pc[w] = "handling" /\ job[w].type = type

Checking(w, step) ==
    /\ Doing(w, TypeCheckRideDistance) \/ Doing(w, TypeCheckRideWeather)
    /\ call[w].step = step

Ride(w) == job[w].payload.ride

Forced(w) == Doing(w, TypeCheckRideWeather) /\ job[w].payload.force

\* The handler goes on, returns nil, or returns an error.
Continue(w, next) ==
    /\ call' = [call EXCEPT ![w] = next]
    /\ UNCHANGED <<queueVars, todo>>

GoTo(w, step) == Continue(w, [call[w] EXCEPT !.step = step])

Return(w) ==
    /\ Q!HandlerOk(w)
    /\ call' = [call EXCEPT ![w] = NewCall]
    /\ UNCHANGED todo

Fail(w) ==
    /\ Q!HandlerError(w)
    /\ UNCHANGED faults
    /\ call' = [call EXCEPT ![w] = NewCall]
    /\ UNCHANGED todo

\* Mutant of CallFails: the error is logged and nil is returned.
CallFailsInSilence(w) ==
    /\ \E step \in Steps : Checking(w, step)
    /\ Return(w)
    /\ UNCHANGED storeVars

\* Mutant of CallFails: the handler queues its job again.
CallFailsAndRetries(w) ==
    /\ \E step \in Steps : Checking(w, step)
    /\ queues' = [queues EXCEPT ![job[w].queue] = Append(@, job[w])]
    /\ pc' = [pc EXCEPT ![w] = "loop"]
    /\ job' = [job EXCEPT ![w] = NoJob]
    /\ call' = [call EXCEPT ![w] = NewCall]
    /\ UNCHANGED <<storeVars, unanswered, resent, ctxDone, failedJobs, processed, pushed, faults, todo>>

\* A statement or an upstream call of the handler fails: it was cancelled
\* by SIGTERM, or it met a fault (a database error, a timeout, a response
\* that is no answer).
CallFails(w) ==
    /\ \E step \in Steps : Checking(w, step)
    /\ Q!HandlerError(w)
    /\ ctxDone[w] \/ faults' # faults
    /\ call' = [call EXCEPT ![w] = NewCall]
    /\ UNCHANGED <<storeVars, todo>>

LogTestMessage(w) ==
    /\ Doing(w, TypeLogTestMessage)
    /\ Return(w)
    /\ UNCHANGED storeVars

AlreadyChecked(w) ==
    IF Doing(w, TypeCheckRideDistance)
    THEN Ride(w) \in distanceChecked
    ELSE Ride(w) \in weatherChecked /\ ~Forced(w)

FindRide(w) ==
    /\ Checking(w, "ride")
    /\ UNCHANGED storeVars
    /\ \/ Ride(w) \notin Loaded /\ Fail(w)
       \/ Ride(w) \in Loaded /\ AlreadyChecked(w) /\ Return(w)
       \/ /\ Ride(w) \in Loaded /\ ~AlreadyChecked(w)
          /\ Continue(w, [call[w] EXCEPT !.step = "origin", !.ride = rides[Ride(w)]])

\* Mutant of FindOrigin: the origin of a distance is taken to be known, and
\* a forced weather job asks the cache.
FindOriginBlindly(w) ==
    /\ Checking(w, "origin")
    /\ UNCHANGED storeVars
    /\ Continue(w, [call[w] EXCEPT
                       !.step = IF Doing(w, TypeCheckRideDistance)
                                THEN "destination" ELSE "cache",
                       !.origin = TRUE])

\* For a distance both stations are read before either is looked at.  A
\* forced weather job skips the cache.
FindOrigin(w) ==
    /\ Checking(w, "origin")
    /\ UNCHANGED storeVars
    /\ LET known == call[w].ride.from \in stations
       IN  \/ /\ Doing(w, TypeCheckRideDistance)
              /\ Continue(w, [call[w] EXCEPT !.step = "destination", !.origin = known])
           \/ Doing(w, TypeCheckRideWeather) /\ ~known /\ Return(w)
           \/ /\ Doing(w, TypeCheckRideWeather) /\ known
              /\ Continue(w, [call[w] EXCEPT
                                 !.step = IF Forced(w) THEN "fetch" ELSE "cache",
                                 !.origin = TRUE])

\* Mutant of FindDestination: only the origin is looked at.
FindNoDestination(w) ==
    /\ Checking(w, "destination")
    /\ UNCHANGED storeVars
    /\ IF call[w].origin THEN GoTo(w, "cache") ELSE Return(w)

FindDestination(w) ==
    /\ Checking(w, "destination")
    /\ UNCHANGED storeVars
    /\ IF call[w].origin /\ call[w].ride.to \in stations
       THEN GoTo(w, "cache")
       ELSE Return(w)

Cached(w) ==
    IF Doing(w, TypeCheckRideDistance)
    THEN Pair(call[w].ride) \in routes
    ELSE weather[Ride(w)] # Absent

\* Mutant of FindCached: the cache is never hit.
FindNothing(w) ==
    /\ Checking(w, "cache")
    /\ UNCHANGED storeVars
    /\ GoTo(w, "fetch")

FindCached(w) ==
    /\ Checking(w, "cache")
    /\ UNCHANGED storeVars
    /\ GoTo(w, IF Cached(w) THEN "mark" ELSE "fetch")

\* Mutant of Fetch: the answer is not kept and the lookup starts again.
FetchInVain(w) ==
    /\ Checking(w, "fetch")
    /\ UNCHANGED storeVars
    /\ GoTo(w, "cache")

\* The answer of the upstream service is for the stations and the time in
\* the row that was read, whatever the row says by now.
FetchRoute(w) ==
    /\ Checking(w, "fetch") /\ Doing(w, TypeCheckRideDistance)
    /\ UNCHANGED storeVars
    /\ GoTo(w, "save")

FetchWeather(w) ==
    /\ Checking(w, "fetch") /\ Doing(w, TypeCheckRideWeather)
    /\ UNCHANGED storeVars
    /\ GoTo(w, "save")

Fetch(w) == FetchRoute(w) \/ FetchWeather(w)

\* Open-Meteo answers with arrays of different lengths: indexing one at the
\* hour found in another is out of range.
FetchPanics(w) ==
    /\ Checking(w, "fetch") /\ Doing(w, TypeCheckRideWeather)
    /\ Q!HandlerPanics(w)
    /\ call' = [call EXCEPT ![w] = NewCall]
    /\ UNCHANGED <<storeVars, todo>>

\* Mutant of SaveStatement: the weather at the destination.
SaveAtDestination(w) ==
    IF Doing(w, TypeCheckRideDistance)
    THEN SaveRoute(Pair(call[w].ride))
    ELSE SaveWeather(Ride(w), [station |-> call[w].ride.to, at |-> call[w].ride.at])

\* SIGTERM may cancel a write that has been committed: the row is there and
\* the statement returns an error.
SaveStatement(w) ==
    IF Doing(w, TypeCheckRideDistance)
    THEN SaveRoute(Pair(call[w].ride))
    ELSE SaveWeather(Ride(w), Observed(call[w].ride))

SaveAllowed(w) ==
    IF Doing(w, TypeCheckRideDistance)
    THEN RouteAllowed(Pair(call[w].ride))
    ELSE WeatherAllowed(Ride(w))

\* Mutant of Save: an error of the save is only logged.
SaveOrNot(w) ==
    /\ Checking(w, "save")
    /\ SaveStatement(w) \/ UNCHANGED storeVars
    /\ GoTo(w, "mark")

Save(w) ==
    /\ Checking(w, "save")
    /\ \/ SaveStatement(w) /\ (GoTo(w, "mark") \/ (ctxDone[w] /\ Fail(w)))
       \/ ~SaveAllowed(w) /\ UNCHANGED storeVars /\ Fail(w)

MarkChecked(w) ==
    /\ Checking(w, "mark")
    /\ IF Doing(w, TypeCheckRideDistance)
       THEN MarkDistance(Ride(w))
       ELSE MarkWeather(Ride(w))
    /\ Return(w) \/ (ctxDone[w] /\ Fail(w))

HandlerStep(w) ==
    \/ LogTestMessage(w)
    \/ FindRide(w)
    \/ FindOrigin(w)
    \/ FindDestination(w)
    \/ FindCached(w)
    \/ Fetch(w)
    \/ Save(w)
    \/ MarkChecked(w)
    \/ CallFails(w)

-----------------------------------------------------------------------------
\* The rest of Worker.Run, and the life of the process.
LoopStep(w) ==
    /\ Q!CheckContext(w) \/ Q!PopJob(w) \/ Q!PopNothing(w) \/ Q!RecordFailure(w)
    /\ UNCHANGED <<storeVars, call, todo>>

ProcessStep(w) ==
    /\ Q!Start(w) \/ Q!Terminate(w)
    /\ UNCHANGED <<storeVars, call, todo>>

Crash(w) ==
    /\ Q!Crash(w)
    /\ call' = [call EXCEPT ![w] = NewCall]
    /\ UNCHANGED <<storeVars, todo>>

(***************************************************************************)
(* stations:load and rides:load run in any process, at any time.  Loading  *)
(* shows that this is all they do to the tables.                           *)
(***************************************************************************)
Load ==
    /\ LoadStatement(Export)
    /\ UNCHANGED <<queueVars, call, todo>>

WorkerStep(w) == LoopStep(w) \/ HandlerStep(w)

Next ==
    \/ \E c \in Clients :
          \/ \E command \in Commands : RunCommand(c, command)
          \/ \E task \in todo[c] : Dispatch(c, task)
          \/ PushAgain(c)
          \/ DispatchFails(c)
    \/ \E w \in Workers :
          WorkerStep(w) \/ ProcessStep(w) \/ FetchPanics(w) \/ Crash(w)
    \/ Load

Spec == Init /\ [][Next]_vars

\* Only the worker goroutine has to go on, see JobQueue.
FairSpec == Spec /\ \A w \in Workers : WF_vars(WorkerStep(w))

-----------------------------------------------------------------------------
TypeOK ==
    /\ StoreTypeOK
    /\ Q!TypeOK
    /\ call \in [Workers -> Call]
    /\ todo \in [Clients -> SUBSET Task]

(* A checked ride is backed by the record that the check is there for: a   *)
(* route between the stations of some version of its row, an observation.  *)
(* However the handlers, loads, crashes and cancelled statements interleave, *)
(* no ride is marked whose record was not saved (jobs.go:131-135,171-181). *)
EnrichmentBacked ==
    /\ \A r \in distanceChecked : \E content \in Export[r] : Pair(content) \in routes
    /\ \A r \in weatherChecked : weather[r] # Absent

(* No save meets a foreign key violation: what a handler found stays there *)
(* until it saves (jobs.go:117-131, 157-171; the tables' foreign keys).    *)
NoForeignKeyError ==
    \A w \in Workers : Checking(w, "save") => SaveAllowed(w)

(* A weather record is an observation for some version of its ride, never  *)
(* of another ride (jobs.go:171-179).                                      *)
WeatherOfItsRide ==
    \A r \in Rides : weather[r] # Absent =>
        \E content \in Export[r] : weather[r] = Observed(content)

(* The inductive invariant behind these three.  Every row comes from an    *)
(* export, only the rides of rows are marked, and what a handler found     *)
(* where it is now still holds (jobs.go:98-182).                           *)
RowsFromExports ==
    /\ \A r \in Loaded : rides[r] \in Export[r]
    /\ distanceChecked \cup weatherChecked \subseteq Loaded

JobsAreChecks ==
    /\ queues \in [Queues -> Seq(CheckJob)]
    /\ unanswered \in [Clients -> CheckJob \cup {NoJob}]
    /\ job \in [Workers -> CheckJob \cup {NoJob}]

CallInPlace(w) ==
    /\ (pc[w] # "handling" \/ call[w].step = "ride") => call[w] = NewCall
    /\ call[w].step # "ride" =>
          /\ Doing(w, TypeCheckRideDistance) \/ Doing(w, TypeCheckRideWeather)
          /\ Ride(w) \in Loaded
          /\ call[w].ride \in Export[Ride(w)]
    /\ Doing(w, TypeCheckRideDistance) =>
          /\ call[w].origin => call[w].ride.from \in stations
          /\ call[w].step \in {"cache", "fetch", "save", "mark"}
                => RouteAllowed(Pair(call[w].ride))
    /\ call[w].step = "mark" => Cached(w)

ChecksInv ==
    /\ TypeOK
    /\ RowsFromExports
    /\ JobsAreChecks
    /\ \A w \in Workers : CallInPlace(w)
    /\ EnrichmentBacked
    /\ WeatherOfItsRide

(* The upstream services are never called concurrently (queue.go:15-17):   *)
(* over the workers of all lists, at most one handler is in the call to    *)
(* the routing API and at most one in the call to the weather API.         *)
OneUpstreamCall ==
    \A u, w \in Workers :
        (Checking(u, "fetch") /\ Checking(w, "fetch") /\ job[u].type = job[w].type)
            => u = w

(* An upstream service is not asked for what the cache has: when the       *)
(* answer arrives the cache still misses, whatever happened since the      *)
(* lookup (routing/cached.go:20-39, weather/cached.go:26-37).              *)
NoRefetch ==
    [][\A w \in Workers :
          (Checking(w, "fetch") /\ ~Forced(w) /\ Checking(w, "save")')
              => ~Cached(w)
      ]_vars

(* What a check leaves in the tables stays: loading a ride again, crashes  *)
(* and retried commands undo no mark and remove no cached row              *)
(* (rides/repository.go:84-90: the UPDATE has no checked column).          *)
ChecksAreKept ==
    [][/\ distanceChecked \subseteq distanceChecked'
       /\ weatherChecked \subseteq weatherChecked'
       /\ routes \subseteq routes'
       /\ \A r \in Rides : weather[r] # Absent => weather'[r] # Absent
      ]_vars

Finishes(w) == pc[w] = "handling" /\ pc'[w] = "loop"

(* A job that ends as processed has done its check, unless a station was   *)
(* unknown when it was read (jobs.go:113-135, 153-181).                    *)
ProcessedMeansChecked ==
    [][\A w \in Workers : Finishes(w) =>
          /\ Doing(w, TypeCheckRideDistance) =>
                \/ Ride(w) \in distanceChecked'
                \/ /\ call[w].step = "destination"
                   /\ ~call[w].origin \/ call[w].ride.to \notin stations
          /\ Doing(w, TypeCheckRideWeather) =>
                \/ Ride(w) \in weatherChecked'
                \/ /\ call[w].step = "origin"
                   /\ call[w].ride.from \notin stations
      ]_vars

(* A forced weather job that ends as processed has replaced the record by  *)
(* the observation for the row it read: "Re-fetch weather for every ride"  *)
(* (dispatch.go:62, weather/cached.go:26).                                 *)
ForcedRefresh ==
    [][\A w \in Workers :
          (Finishes(w) /\ Forced(w) /\ call[w].step = "mark")
              => weather'[Ride(w)] = Observed(call[w].ride)
      ]_vars

(* The handlers are handlers of JobQueue: its specification is implemented *)
(* with what is left open there filled in (worker.go run).                 *)
QueueSpec == Q!Spec

(* ... and its fairness: a handler always comes to its end.                *)
QueueFairSpec == Q!FairSpec

(* With no fault in a pop or in the INSERT into failed_jobs, a queued job  *)
(* ends as processed or in failed_jobs: each worker of its list sees to it *)
(* until it turns to a job of a list before this one, or one of them is    *)
(* down, which may be the one that took the job (worker.go Run, run).      *)
JobsSettle ==
    \A q \in Queues : \A w \in Q!ServedBy(q), id \in 1..MaxJobs :
        id \in Q!IdsIn(queues[q])
            ~> \/ id \in processed \cup failedJobs
               \/ \E u \in Q!ServedBy(q) : pc[u] = "down"
               \/ Q!Overtaken(w, q)

(* Every run of a handler ends as processed or goes on to be recorded in   *)
(* failed_jobs: "a failure is logged and recorded in the failed_jobs       *)
(* table" (README.md:149).                                                 *)
FailuresAreRecorded ==
    [][\A w \in Workers :
          (pc[w] = "handling" /\ pc'[w] # "handling")
              => job[w].id \in processed' \/ pc'[w] = "recording"
      ]_vars

(* What a checked ride has belongs to its row: "the cycling distance       *)
(* between its two stations" and "the weather at its origin station and    *)
(* checkin time" (README.md:6-7, rides/repository.go:84-97).               *)
EnrichmentIsCurrent ==
    /\ \A r \in distanceChecked : Pair(rides[r]) \in routes
    /\ \A r \in weatherChecked : weather[r] = Observed(rides[r])
=============================================================================
